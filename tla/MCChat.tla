------------------------------- MODULE MCChat -------------------------------
EXTENDS Chat

Bob == <<"b", "o", "b", "-", "9", "c", "0", "1">>

ArgumentsMC ==
  {[name |-> <<"a", "-", "z">>], [name |-> <<"-", "a">>],
   [name |-> <<"a", "-">>], [name |-> << >>], [name |-> <<"A">>],
   [name |-> [i \in 1 .. 17 |-> "a"]],
   [id |-> <<"a", "-", "0", "0", "f">>], [id |-> <<"a", "-", "0", "0", "f", "g">>], [id |-> <<"-", "0", "0", "0", "0">>],
   [id |-> <<"0", "0", "0", "0">>]}

SuffixesMC == {<<"0", "0", "f", "9">>}

HostsMC ==
  {<<"udp", "linux">>, <<"udp", "windows">>, <<"ble", "macos">>, <<"ble", "windows">>,
   <<"ble", "other">>}

\* A long and a short broadcast, a telegram, and lines that are refused.
LinesMC ==
  {[dest |-> Everyone, text |-> "hi", size |-> 2],
   [dest |-> Bob, text |-> "hi", size |-> 2],
   [dest |-> Everyone, text |-> "long", size |-> 16],
   [dest |-> Bob, text |-> "", size |-> 0]}

OthersMC ==
  {[msg |-> [src |-> Bob, dest |-> Everyone, id |-> <<0, "yo">>], ttl |-> 2],
   [msg |-> [src |-> Bob, dest |-> <<"c">>, id |-> <<0, "yo">>], ttl |-> 3]}

PeersMC == {Bob, <<"c">>}
============================================================================
