----------------------------- MODULE ChatProofs -----------------------------
(***************************************************************************)
(* A desktop node, proved for every host, command line, stream of lines    *)
(* and packets, capacity and number of launches: its name, the way from    *)
(* the socket to the router, the reader that gives up, the numbers of its  *)
(* messages, and what it offers to the transport.                          *)
(***************************************************************************)
EXTENDS Chat, SequenceTheorems, FiniteSetTheorems, TLAPS

(***************************************************************************)
(* The name.                                                               *)
(***************************************************************************)

\* A name with a suffix parses: the dash between them is its last one.
LEMMA NewNameParses ==
  ASSUME NEW C, NEW name \in Seq(C), ValidName(name), NEW suffix \in [1 .. 4 -> HexDigit]
  PROVE  NodeIdParse(name \o <<"-">> \o suffix) = {name \o <<"-">> \o suffix}
<1> DEFINE L == Len(name)
           A == C \cup HexDigit \cup {"-"}
           full == name \o <<"-">> \o suffix
<1>1. L \in Nat /\ name \in Seq(A) /\ DOMAIN name = 1 .. L
  BY LenProperties, SeqMonotonic
<1>2. suffix \in Seq(A) /\ Len(suffix) = 4
  <2>1. HexDigit \subseteq A /\ 4 \in Nat
    OBVIOUS
  <2> HIDE DEF A
  <2>2. suffix \in [1 .. 4 -> A]
    BY <2>1
  <2>3. suffix \in Seq(A)
    BY <2>1, <2>2, SeqDef
  <2>4. DOMAIN suffix = 1 .. 4
    BY <2>2
  <2>5. Len(suffix) \in Nat /\ DOMAIN suffix = 1 .. Len(suffix)
    BY <2>3, LenProperties
  <2> QED
    BY <2>3, <2>4, <2>5
<1>3. <<"-">> \in Seq(A) /\ Len(<<"-">>) = 1 /\ <<"-">>[1] = "-"
  OBVIOUS
<1> DEFINE head == name \o <<"-">>
<1>4. /\ head \in Seq(A) /\ Len(head) = L + 1
      /\ \A i \in 1 .. L + 1 : head[i] = IF i <= L THEN name[i] ELSE "-"
  <2>1. /\ head \in Seq(A) /\ Len(head) = Len(name) + Len(<<"-">>)
        /\ \A i \in 1 .. Len(name) + Len(<<"-">>) :
             head[i] = IF i <= Len(name) THEN name[i] ELSE <<"-">>[i - Len(name)]
    BY <1>1, <1>3, ConcatProperties
  <2>2. \A i \in 1 .. L + 1 : ~ (i <= L) => i - L = 1
    BY <1>1
  <2> QED
    BY <1>1, <1>3, <2>1, <2>2
<1> HIDE DEF A, L, head
<1>5. /\ full \in Seq(A) /\ Len(full) = L + 5
      /\ \A i \in 1 .. L + 5 : full[i] = IF i <= L + 1 THEN head[i] ELSE suffix[i - (L + 1)]
  <2>1. /\ head \o suffix \in Seq(A)
        /\ Len(head \o suffix) = Len(head) + Len(suffix)
        /\ \A i \in 1 .. Len(head) + Len(suffix) :
             (head \o suffix)[i] =
               IF i <= Len(head) THEN head[i] ELSE suffix[i - Len(head)]
    BY <1>2, <1>4, ConcatProperties
  <2>2. full = head \o suffix
    BY DEF head
  <2>3. Len(head) + Len(suffix) = L + 5
    BY <1>1, <1>2, <1>4
  <2> QED
    BY <1>4, <2>1, <2>2, <2>3
<1> HIDE DEF full
<1>6. /\ \A i \in 1 .. L : full[i] = name[i]
      /\ full[L + 1] = "-"
      /\ \A i \in L + 2 .. L + 5 : full[i] \in HexDigit
  <2>1. ASSUME NEW i \in 1 .. L PROVE full[i] = name[i]
    <3>1. i \in 1 .. L + 5 /\ i \in 1 .. L + 1 /\ i <= L + 1 /\ i <= L
      BY <1>1
    <3> QED
      BY <1>4, <1>5, <3>1
  <2>2. full[L + 1] = "-"
    <3>1. L + 1 \in 1 .. L + 5 /\ L + 1 \in 1 .. L + 1 /\ L + 1 <= L + 1 /\ ~ (L + 1 <= L)
      BY <1>1
    <3> QED
      BY <1>4, <1>5, <3>1
  <2>3. ASSUME NEW i \in L + 2 .. L + 5 PROVE full[i] \in HexDigit
    <3>1. i \in 1 .. L + 5 /\ ~ (i <= L + 1) /\ i - (L + 1) \in 1 .. 4
      BY <1>1
    <3> QED
      BY <1>5, <3>1
  <2> QED
    BY <2>1, <2>2, <2>3
<1>7. DOMAIN full = 1 .. L + 5
  BY <1>5, LenProperties
<1>8. "-" \notin HexDigit
  BY DEF HexDigit
<1>9. L + 1 \in Dash(full) /\ \A j \in Dash(full) : j <= L + 1
  <2>1. L + 1 \in 1 .. L + 5
    BY <1>1
  <2>2. ASSUME NEW j \in 1 .. L + 5, full[j] = "-" PROVE j <= L + 1
    <3>1. j \notin L + 2 .. L + 5
      BY <1>6, <1>8, <2>2
    <3> QED
      BY <1>1, <3>1
  <2> QED
    BY <1>6, <1>7, <2>1, <2>2 DEF Dash
<1>10. SubSeq(full, 1, (L + 1) - 1) = name
  <2> DEFINE front == SubSeq(full, 1, L)
  <2>1. /\ front \in Seq(A) /\ Len(front) = L
        /\ \A i \in 1 .. L : front[i] = full[i]
    <3>1. \A i \in 1 .. L : full[i] \in A
      <4>1. \A i \in 1 .. L : i \in 1 .. L + 5
        BY <1>1
      <4> QED
        BY <1>5, <4>1, ElementOfSeq
    <3>2. /\ front \in Seq(A)
          /\ Len(front) = IF 1 <= L THEN L - 1 + 1 ELSE 0
          /\ \A i \in 1 .. L - 1 + 1 : front[i] = full[1 + i - 1]
      BY <1>1, <3>1, SubSeqProperties
    <3>3. Len(front) = L
      BY <1>1, <3>2
    <3>4. ASSUME NEW i \in 1 .. L PROVE front[i] = full[i]
      <4>1. i \in 1 .. L - 1 + 1 /\ 1 + i - 1 = i
        BY <1>1
      <4> QED
        BY <3>2, <4>1
    <3> QED
      BY <3>2, <3>3, <3>4
  <2> HIDE DEF front
  <2>2. front = name
    <3>1. name \in Seq(A) /\ Len(name) = L
      BY <1>1 DEF L
    <3>2. \A i \in 1 .. Len(front) : front[i] = name[i]
      BY <1>6, <2>1
    <3> QED
      BY <2>1, <3>1, <3>2, SeqEqual
  <2>3. (L + 1) - 1 = L
    BY <1>1
  <2> QED
    BY <2>2, <2>3 DEF front
<1>11. ParsesAt(full, L + 1)
  <2>1. Len(full) - (L + 1) = 4
    BY <1>1, <1>5
  <2>2. \A j \in L + 1 + 1 .. Len(full) : full[j] \in HexDigit
    <3>1. Len(full) = L + 5 /\ L + 1 + 1 = L + 2
      BY <1>1, <1>5
    <3> QED
      BY <1>6, <3>1
  <2> QED
    BY <1>9, <1>10, <2>1, <2>2 DEF ParsesAt
<1> QED
  BY <1>9, <1>11 DEF NodeIdParse, full

\* Whatever identity the command line gives, its full name parses.
LEMMA IdentitiesParse ==
  ASSUME NEW argument \in Arguments, NEW name \in Identities(argument)
  PROVE  NodeIdParse(name) = {name}
<1>1. CASE "id" \in DOMAIN argument
  <2>1. name \in NodeIdParse(argument.id)
    BY <1>1 DEF Identities
  <2> QED
    BY <2>1 DEF NodeIdParse
<1>2. CASE "id" \notin DOMAIN argument
  <2>1. PICK suffix \in Suffixes : name \in NodeIdNew(argument.name, suffix)
    BY <1>2 DEF Identities
  <2>2. /\ ValidName(argument.name)
        /\ name = argument.name \o <<"-">> \o suffix
    BY <2>1 DEF NodeIdNew
  <2>3. /\ argument.name \in Seq({argument.name[i] : i \in DOMAIN argument.name})
        /\ suffix \in [1 .. 4 -> HexDigit]
    BY <1>2, ArgumentsAssumption
  <2> QED
    BY <2>2, <2>3, NewNameParses
<1> QED
  BY <1>1, <1>2

Names == UNION {Identities(argument) : argument \in Arguments}

Named == node \subseteq Names /\ NameBringsItBack

LEMMA NamesParse ==
  ASSUME NEW name \in Names
  PROVE  NodeIdParse(name) = {name}
BY IdentitiesParse DEF Names

\* A launch chooses a name, the first time from the command line.
Chooses == \E name \in Names : Start(name)

LEMMA LaunchChooses == Named /\ (Launch \/ Relaunch) => Chooses
<1>1. ASSUME Named, Launch PROVE Chooses
  BY <1>1 DEF Launch, Chooses, Names
<1>2. ASSUME Named, Relaunch PROVE Chooses
  <2>1. PICK printed \in node : \E name \in NodeIdParse(printed) : Start(name)
    BY <1>2 DEF Relaunch
  <2>2. printed \in Names /\ NodeIdParse(printed) = {printed}
    BY <1>2 DEF Named, NameBringsItBack
  <2> QED
    BY <2>1, <2>2 DEF Chooses
<1> QED
  BY <1>1, <1>2

LEMMA AlwaysNamed == Spec => []Named
<1>1. Init => Named
  BY DEF Init, Named, NameBringsItBack
<1>2. Named /\ [Next]_cvars => Named'
  <2> SUFFICES ASSUME Named, [Next]_cvars PROVE Named'
    OBVIOUS
  <2>1. ASSUME UNCHANGED node PROVE Named'
    BY <2>1 DEF Named, NameBringsItBack
  <2>2. CASE Launch \/ Relaunch
    <3>1. PICK name \in Names : Start(name)
      BY <2>2, LaunchChooses DEF Chooses
    <3>2. node' = {name}
      BY <3>1 DEF Start
    <3> QED
      BY <3>2, NamesParse DEF Named, NameBringsItBack
  <2>3. CASE Leave \/ Receive \/ TransportClosed
    BY <2>1, <2>3 DEF Leave, Receive, TransportClosed
  <2>4. ASSUME NEW line \in Lines, TypeLine(line) PROVE Named'
    BY <2>1, <2>4 DEF TypeLine
  <2>5. CASE ReadLoop \/ ScanLoop \/ Deliver \/ Undeliverable
    BY <2>1, <2>5 DEF ReadLoop, ScanLoop, Deliver, Undeliverable, svars
  <2>6. CASE UNCHANGED cvars
    BY <2>1, <2>6 DEF cvars, svars
  <2> QED
    BY <2>2, <2>3, <2>4, <2>5, <2>6 DEF Next
<1> QED
  BY <1>1, <1>2, PTL DEF Spec

\* The full name a node prints is one it can be launched with again, whatever
\* dashes and digits its name has (node_id.rs, parse).
THEOREM NamePrintedIsNameParsed == Spec => []NameBringsItBack
<1>1. Named => NameBringsItBack
  BY DEF Named
<1> QED
  BY <1>1, AlwaysNamed, PTL

----------------------------------------------------------------------------
(***************************************************************************)
(* The messages of this node.                                              *)
(***************************************************************************)

Texts == {line.text : line \in Lines}
Typeable == [src : Names, dest : {line.dest : line \in Lines}, id : (0 .. SEQ_MOD - 1) \X Texts]
Logged == [msg : Typeable, life : Nat]

\* What the log and the counters of the session are.
SessionTyped ==
  /\ session \in {"off", "running", "quit", "closed"}
  /\ life \in Nat /\ seq \in 0 .. SEQ_MOD - 1
  /\ log \in Seq(Logged) /\ aired \subseteq 1 .. Len(log)
  /\ session = "off" => node = {} /\ log = << >>

\* One typed line is one entry at the end of the log, or none.
Originates(line) ==
  /\ ~ Malformed(line) /\ session = "running"
  /\ \E name \in node :
       log' = Append(log, [msg |-> [src |-> name, dest |-> line.dest, id |-> <<seq, line.text>>],
                           life |-> life])
  /\ seq' = (seq + 1) % SEQ_MOD

LEMMA TypeLineOriginates ==
  ASSUME NEW line, TypeLine(line)
  PROVE  (log' = log /\ seq' = seq) \/ Originates(line)
BY DEF TypeLine, Originates, NextSeq

LEMMA EntryIsLogged ==
  ASSUME Named, SessionTyped, NEW name \in node, NEW line \in Lines
  PROVE  [msg |-> [src |-> name, dest |-> line.dest, id |-> <<seq, line.text>>],
          life |-> life] \in Logged
<1>1. /\ name \in Names /\ life \in Nat
      /\ <<seq, line.text>> \in (0 .. SEQ_MOD - 1) \X Texts
  BY DEF Named, SessionTyped, Texts
<1> QED
  BY <1>1 DEF Logged, Typeable

LEMMA AlwaysSession == Spec => []SessionTyped
<1>0. SEQ_MOD \in Nat \ {0}
  BY ChatAssumption
<1>1. Init => SessionTyped
  <2> SUFFICES ASSUME Init PROVE SessionTyped
    OBVIOUS
  <2>1. log \in Seq(Logged) /\ Len(log) = 0
    BY EmptySeq DEF Init
  <2> QED
    BY <1>0, <2>1 DEF Init, SessionTyped
<1>2. Named /\ SessionTyped /\ [Next]_cvars => SessionTyped'
  <2> SUFFICES ASSUME Named, SessionTyped, [Next]_cvars PROVE SessionTyped'
    OBVIOUS
  <2> USE DEF SessionTyped
  <2>1. ASSUME UNCHANGED svars PROVE SessionTyped'
    BY <2>1 DEF svars
  <2>2. CASE Launch \/ Relaunch
    <3>1. PICK name \in Names : Start(name)
      BY <2>2, LaunchChooses DEF Chooses
    <3> QED
      BY <3>1 DEF Start
  <2>3. CASE Leave
    BY <2>3 DEF Leave
  <2>4. ASSUME NEW line \in Lines, TypeLine(line) PROVE SessionTyped'
    <3>1. session = "running" /\ session' = session /\ node' = node /\ life' = life
      BY <2>4 DEF TypeLine
    <3>2. seq' \in 0 .. SEQ_MOD - 1
      <4>1. seq' = seq \/ seq' = (seq + 1) % SEQ_MOD
        BY <2>4, TypeLineOriginates DEF Originates
      <4>2. seq + 1 \in Nat
        OBVIOUS
      <4>3. (seq + 1) % SEQ_MOD \in 0 .. SEQ_MOD - 1
        BY <1>0, <4>2
      <4> QED
        BY <4>1, <4>3
    <3>3. CASE Malformed(line)
      <4>1. log' = log /\ aired' = aired
        BY <2>4, <3>3 DEF TypeLine
      <4> QED
        BY <3>1, <3>2, <4>1
    <3>4. CASE ~ Malformed(line)
      <4>1. PICK name \in node :
              log' = Append(log, [msg |-> [src |-> name, dest |-> line.dest,
                                           id |-> <<seq, line.text>>],
                                  life |-> life])
        BY <2>4, <3>4 DEF TypeLine
      <4>2. log' \in Seq(Logged) /\ Len(log') = Len(log) + 1
        BY <4>1, EntryIsLogged, AppendProperties
      <4>3. aired' \subseteq aired \cup {Len(log) + 1}
        BY <2>4, <3>4 DEF TypeLine
      <4>4. Len(log) \in Nat
        BY LenProperties
      <4>5. aired' \subseteq 1 .. Len(log')
        BY <4>2, <4>3, <4>4
      <4> QED
        BY <3>1, <3>2, <4>2, <4>5
    <3> QED
      BY <3>3, <3>4
  <2>5. CASE Receive \/ TransportClosed
    BY <2>5 DEF Receive, TransportClosed
  <2>6. CASE ReadLoop \/ ScanLoop \/ Deliver \/ Undeliverable
    BY <2>1, <2>6 DEF ReadLoop, ScanLoop, Deliver, Undeliverable
  <2>7. CASE UNCHANGED cvars
    BY <2>1, <2>7 DEF cvars
  <2> QED
    BY <2>2, <2>3, <2>4, <2>5, <2>6, <2>7 DEF Next
<1> QED
  BY <1>1, <1>2, AlwaysNamed, PTL DEF Spec

----------------------------------------------------------------------------
(***************************************************************************)
(* The way from the socket to the router.                                  *)
(***************************************************************************)

\* The packets of others and echoes.
Heard == Others \cup {R!NewPacket(msg) : msg \in Typeable}

\* Between the reader and the session: everything that is owed is in the
\* channel or about to be put there.
Flows ==
  /\ rx \in Seq(Heard) /\ pending \in Seq(Heard) /\ owed \in Seq(Heard)
  /\ Len(rx) <= RECV_QUEUE /\ Len(pending) <= 2
  /\ session = "off" => reader = "gone" /\ pending = << >> /\ owed = << >>
  /\ session = "running" => owed = rx \o pending

LEMMA OnAirIsHeard ==
  ASSUME SessionTyped
  PROVE  OnAir \subseteq Heard
<1>1. ASSUME NEW i \in aired PROVE R!NewPacket(log[i].msg) \in Heard
  <2>1. log[i] \in Logged
    BY ElementOfSeq DEF SessionTyped
  <2> QED
    BY <2>1 DEF Logged, Heard
<1> QED
  BY <1>1 DEF OnAir, Echoes, Heard

\* A reception while nothing is pending: what is read is owed from then on.
LEMMA ReadingFlows ==
  ASSUME Flows, Listening, NEW frames \in Seq(Heard), Len(frames) <= 2,
         pending' = frames, rx' = rx, owed' = owed \o frames, session' = session,
         session # "off"
  PROVE  Flows'
<1>1. /\ rx \in Seq(Heard) /\ owed \in Seq(Heard) /\ Len(rx) <= RECV_QUEUE
      /\ pending = << >>
      /\ session = "running" => owed = rx \o pending
  BY DEF Flows, Listening
<1>2. rx \o << >> = rx
  BY <1>1, ConcatEmptySeq
<1>3. owed' \in Seq(Heard)
  BY <1>1, ConcatProperties
<1>4. session' = "running" => owed' = rx' \o pending'
  BY <1>1, <1>2
<1> QED
  BY <1>1, <1>3, <1>4 DEF Flows

LEMMA PushFlows ==
  ASSUME Flows, Push, session' = session, session = "running"
  PROVE  Flows'
<1>1. /\ rx \in Seq(Heard) /\ pending \in Seq(Heard) /\ owed \in Seq(Heard)
      /\ Len(pending) <= 2
      /\ owed = rx \o pending
  BY DEF Flows
<1>2. /\ pending # << >> /\ Len(rx) < RECV_QUEUE
      /\ rx' = Append(rx, Head(pending)) /\ pending' = Tail(pending) /\ owed' = owed
  BY DEF Push
<1>3. /\ Head(pending) \in Heard /\ pending' \in Seq(Heard)
      /\ Len(pending') = Len(pending) - 1
      /\ pending = <<Head(pending)>> \o Tail(pending)
  BY <1>1, <1>2, HeadTailProperties
<1>4. /\ rx' \in Seq(Heard) /\ Len(rx') = Len(rx) + 1
      /\ rx' = rx \o <<Head(pending)>>
  BY <1>1, <1>2, <1>3, AppendProperties, AppendIsConcat
<1>5. Len(rx') <= RECV_QUEUE /\ Len(pending') <= 2
  BY <1>1, <1>2, <1>3, <1>4, LenProperties, ReaderAssumption
<1>6. owed' = rx' \o pending'
  <2>1. <<Head(pending)>> \in Seq(Heard)
    BY <1>3
  <2>2. (rx \o <<Head(pending)>>) \o Tail(pending) = rx \o (<<Head(pending)>> \o Tail(pending))
    BY <1>1, <1>2, <1>3, <2>1, ConcatAssociative
  <2> QED
    BY <1>1, <1>2, <1>3, <1>4, <2>2
<1> QED
  BY <1>1, <1>2, <1>3, <1>4, <1>5, <1>6 DEF Flows

LEMMA ReceiveFlows ==
  ASSUME Flows, Receive
  PROVE  Flows'
<1>1. /\ rx \in Seq(Heard) /\ pending \in Seq(Heard) /\ owed \in Seq(Heard)
      /\ Len(rx) <= RECV_QUEUE /\ Len(pending) <= 2
      /\ owed = rx \o pending
  BY DEF Flows, Receive
<1>2. /\ rx # << >> /\ rx' = Tail(rx) /\ owed' = Tail(owed) /\ pending' = pending
      /\ session' = "running"
  BY DEF Receive
<1>3. /\ Head(rx) \in Heard /\ Tail(rx) \in Seq(Heard) /\ Len(Tail(rx)) = Len(rx) - 1
      /\ rx = <<Head(rx)>> \o Tail(rx)
  BY <1>1, <1>2, HeadTailProperties
<1>4. Len(rx') <= RECV_QUEUE
  BY <1>1, <1>2, <1>3, LenProperties, ReaderAssumption
<1>5. Tail(owed) = Tail(rx) \o pending
  <2> DEFINE rest == Tail(rx) \o pending
  <2>1. rest \in Seq(Heard) /\ <<Head(rx)>> \in Seq(Heard)
    BY <1>1, <1>3, ConcatProperties
  <2>2. owed = <<Head(rx)>> \o rest
    BY <1>1, <1>3, <2>1, ConcatAssociative
  <2> HIDE DEF rest
  <2>3. Tail(<<Head(rx)>> \o rest) = rest
    <3>1. Len(<<Head(rx)>>) = 1 /\ <<Head(rx)>> # << >>
      OBVIOUS
    <3> QED
      BY <1>3, <2>1
  <2> QED
    BY <2>2, <2>3 DEF rest
<1>6. owed' \in Seq(Heard)
  BY <1>1, <1>2, <1>3, <1>5, ConcatProperties
<1> QED
  BY <1>1, <1>2, <1>3, <1>4, <1>5, <1>6 DEF Flows

LEMMA AlwaysFlows == Spec => []Flows
<1>1. Init => Flows
  <2> SUFFICES ASSUME Init PROVE Flows
    OBVIOUS
  <2>1. << >> \in Seq(Heard) /\ Len(<< >>) = 0
    BY EmptySeq
  <2> QED
    BY <2>1, ReaderAssumption DEF Init, Flows
<1>2. SessionTyped /\ Flows /\ [Next]_cvars => Flows'
  <2> SUFFICES ASSUME SessionTyped, Flows, [Next]_cvars PROVE Flows'
    OBVIOUS
  <2>1. ASSUME UNCHANGED <<session, reader, rx, pending, owed>> PROVE Flows'
    BY <2>1 DEF Flows
  <2>2. CASE Launch \/ Relaunch
    <3>1. /\ session' = "running"
          /\ rx' = << >> /\ pending' = << >> /\ owed' = << >>
      BY <2>2 DEF Launch, Relaunch, Start
    <3>2. << >> \in Seq(Heard) /\ Len(<< >>) = 0 /\ << >> \o << >> = << >>
      BY EmptySeq, ConcatEmptySeq
    <3> QED
      BY <3>1, <3>2, ReaderAssumption DEF Flows
  <2>3. CASE Leave \/ TransportClosed
    BY <2>3 DEF Leave, TransportClosed, Flows, rvars
  <2>4. ASSUME NEW line \in Lines, TypeLine(line) PROVE Flows'
    BY <2>1, <2>4 DEF TypeLine, rvars
  <2>5. CASE Receive
    BY <2>5, ReceiveFlows
  <2>6. CASE ReadLoop
    <3>1. session' = session
      BY <2>6 DEF ReadLoop, svars
    <3>2. CASE ReceiveError \/ ReceiveOversized
      <4>1. session # "off"
        BY <3>2 DEF Flows, ReceiveError, ReceiveOversized, Listening
      <4> QED
        BY <3>1, <3>2, <4>1 DEF ReceiveError, ReceiveOversized, Flows
    <3>3. ASSUME NEW packet \in OnAir, ReceiveDatagram(packet) PROVE Flows'
      <4>1. <<packet>> \in Seq(Heard) /\ Len(<<packet>>) <= 2
        <5>1. packet \in Heard
          BY OnAirIsHeard
        <5> QED
          BY <5>1
      <4>2. Listening /\ session # "off" /\ owed \in Seq(Heard)
        BY <3>3 DEF Flows, ReceiveDatagram, Listening
      <4>3. owed' = owed \o <<packet>>
        BY <3>3, <4>2, OnAirIsHeard, AppendIsConcat DEF ReceiveDatagram
      <4>4. pending' = <<packet>> /\ rx' = rx
        BY <3>3 DEF ReceiveDatagram
      <4> QED
        BY <3>1, <4>1, <4>2, <4>3, <4>4, ReadingFlows
    <3> QED
      BY <2>6, <3>2, <3>3 DEF ReadLoop
  <2>7. CASE ScanLoop
    <3>1. session' = session
      BY <2>7 DEF ScanLoop, svars
    <3>2. ASSUME NEW p \in OnAir, NEW q \in OnAir,
                 ScanEvent(<<p>>) \/ ScanEvent(<<p, q>>)
          PROVE  Flows'
      <4>1. PICK frames \in {<<p>>, <<p, q>>} : ScanEvent(frames)
        BY <3>2
      <4>2. frames \in Seq(Heard) /\ Len(frames) <= 2
        <5>1. p \in Heard /\ q \in Heard
          BY OnAirIsHeard
        <5>2. /\ <<p>> \in Seq(Heard) /\ Len(<<p>>) <= 2
              /\ <<p, q>> \in Seq(Heard) /\ Len(<<p, q>>) <= 2
          BY <5>1
        <5> QED
          BY <5>2
      <4>3. Listening /\ session # "off"
        BY <4>1 DEF Flows, ScanEvent, Listening
      <4>4. pending' = frames /\ rx' = rx /\ owed' = owed \o frames
        BY <4>1 DEF ScanEvent
      <4> QED
        BY <3>1, <4>2, <4>3, <4>4, ReadingFlows
    <3>3. CASE EventsEnd
      BY <3>1, <3>3 DEF EventsEnd, Flows
    <3> QED
      BY <2>7, <3>2, <3>3 DEF ScanLoop
  <2>8. CASE Deliver
    BY <2>8, PushFlows DEF Deliver, svars
  <2>9. CASE Undeliverable
    <3>1. /\ session # "running" /\ session' = session
          /\ reader' = "gone" /\ pending' = << >> /\ rx' = rx /\ owed' = owed
      BY <2>9 DEF Undeliverable, PushFails, svars
    <3>2. << >> \in Seq(Heard) /\ Len(<< >>) <= 2
      BY EmptySeq
    <3> QED
      BY <3>1, <3>2 DEF Flows
  <2>10. CASE UNCHANGED cvars
    BY <2>1, <2>10 DEF cvars, svars, rvars
  <2> QED
    BY <2>2, <2>3, <2>4, <2>5, <2>6, <2>7, <2>8, <2>9, <2>10 DEF Next
<1> QED
  BY <1>1, <1>2, AlwaysSession, PTL DEF Spec

----------------------------------------------------------------------------
(***************************************************************************)
(* The reader that gives up.                                               *)
(***************************************************************************)

Outcomes == {"error", "success"}

\* The counter is the length of the run of errors at the end, and reaching the
\* limit is the only way for the reader of a socket to end during a session.
Failing ==
  /\ reader \in {"running", "gone"}
  /\ outcomes \in Seq(Outcomes)
  /\ consecutive_errors \in 0 .. MAX_CONSECUTIVE_RECV_ERRORS
  /\ consecutive_errors <= Len(outcomes)
  /\ transport # "udp" => consecutive_errors = 0
  /\ reader = "running" => consecutive_errors < MAX_CONSECUTIVE_RECV_ERRORS
  /\ \A i \in 1 .. consecutive_errors : outcomes[Len(outcomes) + 1 - i] = "error"
  /\ transport = "udp" /\ session = "running" /\ reader = "gone" =>
       consecutive_errors = MAX_CONSECUTIVE_RECV_ERRORS

LEMMA ReceiveErrorFails ==
  ASSUME Failing, ReceiveError, session' = session
  PROVE  Failing'
<1> DEFINE L == Len(outcomes)
           M == MAX_CONSECUTIVE_RECV_ERRORS
           c == consecutive_errors
<1>1. /\ L \in Nat /\ c \in Nat /\ c < M /\ c <= L /\ M \in Nat \ {0}
      /\ \A i \in 1 .. c : outcomes[L + 1 - i] = "error"
  BY LenProperties, ReaderAssumption DEF Failing, ReceiveError, Listening
<1>2. /\ transport = "udp" /\ transport' = transport
      /\ consecutive_errors' = c + 1
      /\ reader' = IF c + 1 >= M THEN "gone" ELSE "running"
      /\ outcomes' = Append(outcomes, "error")
  BY DEF ReceiveError
<1>3. /\ outcomes' \in Seq(Outcomes) /\ Len(outcomes') = L + 1
      /\ \A i \in 1 .. L : outcomes'[i] = outcomes[i]
      /\ outcomes'[L + 1] = "error"
  BY <1>2, AppendProperties DEF Failing, Outcomes
<1> HIDE DEF L, M, c
<1>4. ASSUME NEW i \in 1 .. c + 1 PROVE outcomes'[L + 1 + 1 - i] = "error"
  <2>1. CASE i = 1
    BY <1>1, <1>3, <2>1
  <2>2. CASE i # 1
    <3>1. i - 1 \in 1 .. c /\ L + 1 - (i - 1) = L + 1 + 1 - i /\ L + 1 + 1 - i \in 1 .. L
      BY <1>1, <2>2
    <3>2. outcomes[L + 1 - (i - 1)] = "error"
      BY <1>1, <3>1
    <3> QED
      BY <1>3, <3>1, <3>2
  <2> QED
    BY <2>1, <2>2
<1>5. c + 1 \in 0 .. M /\ c + 1 <= L + 1 /\ (c + 1 >= M <=> c + 1 = M)
  BY <1>1
<1>6. reader' \in {"running", "gone"} /\ (reader' = "running" => c + 1 < M)
  BY <1>1, <1>2
<1>7. reader' = "gone" => c + 1 = M
  BY <1>2, <1>5
<1> QED
  BY <1>2, <1>3, <1>4, <1>5, <1>6, <1>7 DEF Failing, M

LEMMA ReceivedNoError ==
  ASSUME Failing, ReceiveOversized \/ \E packet \in OnAir : ReceiveDatagram(packet),
         session' = session
  PROVE  Failing'
<1>1. /\ consecutive_errors' = 0 /\ outcomes' = Append(outcomes, "success")
      /\ reader' = reader /\ reader = "running" /\ transport' = transport
  BY DEF ReceiveOversized, ReceiveDatagram, Listening
<1>2. outcomes' \in Seq(Outcomes) /\ Len(outcomes') \in Nat
  BY <1>1, AppendProperties, LenProperties DEF Failing, Outcomes
<1> QED
  BY <1>1, <1>2, ReaderAssumption DEF Failing

\* Without a socket there are no errors to count.
LEMMA ScannedNoError ==
  ASSUME Failing, NEW frames, ScanEvent(frames), session' = session
  PROVE  Failing'
<1>1. /\ outcomes' = Append(outcomes, "success") /\ transport = "ble"
      /\ reader' = reader /\ transport' = transport
      /\ consecutive_errors' = consecutive_errors /\ consecutive_errors = 0
  BY DEF ScanEvent, Failing
<1>2. outcomes' \in Seq(Outcomes) /\ Len(outcomes') \in Nat
  BY <1>1, AppendProperties, LenProperties DEF Failing, Outcomes
<1> QED
  BY <1>1, <1>2, ReaderAssumption DEF Failing

LEMMA AlwaysFailing == Spec => []Failing
<1>1. Init => Failing
  <2> SUFFICES ASSUME Init PROVE Failing
    OBVIOUS
  <2>1. << >> \in Seq(Outcomes) /\ Len(<< >>) = 0
    BY EmptySeq
  <2> QED
    BY <2>1, ReaderAssumption DEF Init, Failing
<1>2. Failing /\ [Next]_cvars => Failing'
  <2> SUFFICES ASSUME Failing, [Next]_cvars PROVE Failing'
    OBVIOUS
  <2>1. ASSUME UNCHANGED <<transport, reader, consecutive_errors, outcomes>>,
               session' = "running" => session = "running"
        PROVE  Failing'
    BY <2>1 DEF Failing
  <2>2. CASE Launch \/ Relaunch
    <3>1. /\ reader' = "running" /\ consecutive_errors' = 0 /\ outcomes' = << >>
      BY <2>2 DEF Launch, Relaunch, Start
    <3>2. << >> \in Seq(Outcomes) /\ Len(<< >>) = 0
      BY EmptySeq
    <3> QED
      BY <3>1, <3>2, ReaderAssumption DEF Failing
  <2>3. CASE Leave \/ TransportClosed \/ Receive
    BY <2>1, <2>3 DEF Leave, TransportClosed, Receive, rvars
  <2>4. ASSUME NEW line \in Lines, TypeLine(line) PROVE Failing'
    BY <2>1, <2>4 DEF TypeLine, rvars
  <2>5. CASE ReadLoop
    BY <2>5, ReceiveErrorFails, ReceivedNoError DEF ReadLoop, svars
  <2>6. CASE ScanLoop
    <3>1. session' = session
      BY <2>6 DEF ScanLoop, svars
    <3>2. CASE EventsEnd
      BY <3>1, <3>2 DEF EventsEnd, Failing
    <3> QED
      BY <2>6, <3>1, <3>2, ScannedNoError DEF ScanLoop
  <2>7. CASE Deliver
    BY <2>1, <2>7 DEF Deliver, Push, svars
  <2>8. CASE Undeliverable
    BY <2>8 DEF Undeliverable, PushFails, svars, Failing
  <2>9. CASE UNCHANGED cvars
    BY <2>1, <2>9 DEF cvars, svars, rvars
  <2> QED
    BY <2>2, <2>3, <2>4, <2>5, <2>6, <2>7, <2>8, <2>9 DEF Next
<1> QED
  BY <1>1, <1>2, PTL DEF Spec

\* However long the channel is full, whatever a session has read reaches its
\* router once and in order (udp.rs, read_loop; scan.rs, scan_loop).
THEOREM ReadIsRouted == Spec => []NothingReadIsLost
<1>1. SessionTyped /\ Flows /\ Failing => NothingReadIsLost
  BY DEF SessionTyped, Flows, Failing, NothingReadIsLost, CTypeOK
<1> QED
  BY <1>1, AlwaysSession, AlwaysFlows, AlwaysFailing, PTL

\* During a session the reader of a socket ends only after so many failures in
\* a row, with no success between them (udp.rs, read_loop).
THEOREM SocketIsDead == Spec => []GivesUpOnDeadSocket
<1>1. Failing => GivesUpOnDeadSocket
  BY DEF Failing, GivesUpOnDeadSocket
<1> QED
  BY <1>1, AlwaysFailing, PTL

----------------------------------------------------------------------------
(***************************************************************************)
(* The numbers of its messages.                                            *)
(***************************************************************************)

SeqOf(i) == log[i].msg.id[1]

\* The numbers of one life follow each other around the circle: the next one is
\* so many steps ahead of each of them.
Numbered ==
  /\ \A i \in 1 .. Len(log) : log[i].life <= life
  /\ \A i \in 1 .. Len(log) : log[i].life = life =>
       \E round \in Nat : SeqOf(i) + (Len(log) + 1 - i) = round * SEQ_MOD + seq
  /\ KeyReusedOnlyAfterRound

\* One step further around the circle.
LEMMA OneStepOn ==
  ASSUME NEW M \in Nat \ {0}, NEW at \in 0 .. M - 1, NEW far \in Nat, NEW round \in Nat,
         far = round * M + at
  PROVE  \E r \in Nat : far + 1 = r * M + ((at + 1) % M)
<1>1. CASE at + 1 < M
  <2>1. at + 1 \in 0 .. M - 1 /\ M \in Nat \ {0}
    BY <1>1
  <2>2. (at + 1) % M = at + 1
    BY <2>1
  <2> QED
    BY <2>2
<1>2. CASE at + 1 = M
  <2>1. (at + 1) % M = 0
    BY <1>2
  <2>2. round + 1 \in Nat /\ far + 1 = (round + 1) * M + 0
    BY <1>2
  <2>3. far + 1 = (round + 1) * M + ((at + 1) % M)
    BY <2>1, <2>2
  <2> QED
    BY <2>2, <2>3
<1> QED
  BY <1>1, <1>2

\* Back at the same number, at least a whole round has passed.
LEMMA WholeRound ==
  ASSUME NEW M \in Nat \ {0}, NEW at \in Nat, NEW steps \in Nat \ {0}, NEW round \in Nat,
         at + steps = round * M + at
  PROVE  steps >= M
<1>1. steps = round * M
  OBVIOUS
<1>2. round # 0
  BY <1>1
<1>3. round * M = (round - 1) * M + M /\ (round - 1) * M >= 0
  BY <1>2
<1> QED
  BY <1>1, <1>3

LEMMA OriginatesNumbered ==
  ASSUME SessionTyped, Numbered, Named, NEW line \in Lines, Originates(line),
         life' = life
  PROVE  Numbered'
<1> DEFINE L == Len(log)
<1>1. PICK name \in node :
        log' = Append(log, [msg |-> [src |-> name, dest |-> line.dest,
                                     id |-> <<seq, line.text>>],
                            life |-> life])
  BY DEF Originates
<1> DEFINE entry == [msg |-> [src |-> name, dest |-> line.dest, id |-> <<seq, line.text>>],
                     life |-> life]
<1>2. entry \in Logged /\ entry.msg.id[1] = seq /\ entry.life = life
  BY EntryIsLogged
<1> HIDE DEF entry
<1>3. /\ L \in Nat /\ Len(log') = L + 1 /\ log' \in Seq(Logged)
      /\ DOMAIN log = 1 .. L /\ DOMAIN log' = 1 .. L + 1
      /\ \A i \in 1 .. L : log'[i] = log[i]
      /\ log'[L + 1] = entry
  BY <1>1, <1>2, AppendProperties, LenProperties DEF SessionTyped, entry
<1>4. seq' = (seq + 1) % SEQ_MOD /\ SEQ_MOD \in Nat \ {0} /\ seq \in 0 .. SEQ_MOD - 1
  BY ChatAssumption DEF Originates, SessionTyped
<1>5. /\ \A i \in 1 .. L : log[i].life <= life /\ SeqOf(i) \in Nat
      /\ \A i \in 1 .. L : log[i].life = life =>
           \E round \in Nat : SeqOf(i) + (L + 1 - i) = round * SEQ_MOD + seq
      /\ \A i, j \in 1 .. L :
           i < j /\ log[i].msg = log[j].msg =>
             log[i].life # log[j].life \/ j - i >= SEQ_MOD
  <2>1. \A i \in 1 .. L : SeqOf(i) \in Nat
    <3>1. \A i \in 1 .. L : log[i] \in Logged
      BY ElementOfSeq DEF SessionTyped
    <3> QED
      BY <1>4, <3>1 DEF Logged, Typeable, SeqOf
  <2> QED
    BY <1>3, <2>1 DEF Numbered, KeyReusedOnlyAfterRound
<1>6. life \in Nat
  BY DEF SessionTyped
<1> HIDE DEF L
<1>7. ASSUME NEW i \in 1 .. L + 1 PROVE log'[i].life <= life
  <2>1. CASE i = L + 1
    BY <1>2, <1>3, <1>6, <2>1
  <2>2. CASE i # L + 1
    BY <1>3, <1>5, <2>2
  <2> QED
    BY <2>1, <2>2
<1>8. ASSUME NEW i \in 1 .. L + 1, log'[i].life = life
      PROVE  \E round \in Nat :
               log'[i].msg.id[1] + (L + 1 + 1 - i) = round * SEQ_MOD + seq'
  <2>1. CASE i = L + 1
    <3>1. log'[i].msg.id[1] = seq /\ L + 1 + 1 - i = 1
      BY <1>2, <1>3, <2>1
    <3>2. seq \in Nat /\ seq = 0 * SEQ_MOD + seq
      BY <1>4
    <3>3. \E r \in Nat : seq + 1 = r * SEQ_MOD + ((seq + 1) % SEQ_MOD)
      BY <1>4, <3>2, OneStepOn
    <3> QED
      BY <1>4, <3>1, <3>3
  <2>2. CASE i # L + 1
    <3>1. i \in 1 .. L /\ log'[i] = log[i]
      BY <1>3, <2>2
    <3>2. PICK round \in Nat : SeqOf(i) + (L + 1 - i) = round * SEQ_MOD + seq
      BY <1>5, <1>8, <3>1
    <3> DEFINE far == SeqOf(i) + (L + 1 - i)
    <3>3. far \in Nat /\ far + 1 = SeqOf(i) + (L + 1 + 1 - i)
      <4>1. SeqOf(i) \in Nat /\ L \in Nat /\ i \in 1 .. L
        BY <1>3, <1>5, <3>1
      <4> QED
        BY <4>1
    <3>4. far = round * SEQ_MOD + seq
      BY <3>2
    <3> HIDE DEF far
    <3>5. \E r \in Nat : far + 1 = r * SEQ_MOD + ((seq + 1) % SEQ_MOD)
      BY <1>4, <3>3, <3>4, OneStepOn
    <3>6. log'[i].msg.id[1] + (L + 1 + 1 - i) = far + 1
      BY <3>1, <3>3 DEF SeqOf
    <3> QED
      BY <1>4, <3>5, <3>6
  <2> QED
    BY <2>1, <2>2
<1>9. ASSUME NEW i \in 1 .. L + 1, NEW j \in 1 .. L + 1,
             i < j, log'[i].msg = log'[j].msg, log'[i].life = log'[j].life
      PROVE  j - i >= SEQ_MOD
  <2>1. i \in 1 .. L /\ log'[i] = log[i]
    BY <1>3, <1>9
  <2>2. CASE j = L + 1
    <3>1. log[i].life = life /\ SeqOf(i) = seq
      BY <1>2, <1>3, <1>9, <2>1, <2>2 DEF SeqOf
    <3>2. PICK round \in Nat : seq + (L + 1 - i) = round * SEQ_MOD + seq
      BY <1>5, <2>1, <3>1
    <3> DEFINE steps == L + 1 - i
    <3>3. steps \in Nat \ {0} /\ seq \in Nat /\ steps = j - i
      BY <1>3, <1>4, <2>1, <2>2
    <3>4. seq + steps = round * SEQ_MOD + seq
      BY <3>2
    <3> HIDE DEF steps
    <3>5. steps >= SEQ_MOD
      BY <1>4, <3>3, <3>4, WholeRound
    <3> QED
      BY <3>3, <3>5
  <2>3. CASE j # L + 1
    <3>1. j \in 1 .. L /\ log'[j] = log[j]
      BY <1>3, <2>3
    <3> QED
      BY <1>5, <1>9, <2>1, <3>1
  <2> QED
    BY <2>2, <2>3
<1>10. KeyReusedOnlyAfterRound'
  BY <1>3, <1>9 DEF KeyReusedOnlyAfterRound
<1> QED
  BY <1>3, <1>7, <1>8, <1>10 DEF Numbered, SeqOf

LEMMA AlwaysNumbered == Spec => []Numbered
<1>1. Init => Numbered
  <2> SUFFICES ASSUME Init PROVE Numbered
    OBVIOUS
  <2>1. log = << >> /\ Len(<< >>) = 0 /\ DOMAIN log = {}
    BY EmptySeq DEF Init
  <2> QED
    BY <2>1 DEF Numbered, KeyReusedOnlyAfterRound
<1>2. Named /\ SessionTyped /\ Numbered /\ [Next]_cvars => Numbered'
  <2> SUFFICES ASSUME Named, SessionTyped, Numbered, [Next]_cvars PROVE Numbered'
    OBVIOUS
  <2>1. ASSUME UNCHANGED <<log, life, seq>> PROVE Numbered'
    BY <2>1 DEF Numbered, SeqOf, KeyReusedOnlyAfterRound
  \* No message yet has been sent in the new life.
  <2>2. CASE Launch \/ Relaunch
    <3>1. life' = life + 1 /\ log' = log
      BY <2>2 DEF Launch, Relaunch, Start
    <3>2. ASSUME NEW i \in 1 .. Len(log) PROVE log[i].life <= life + 1 /\ log[i].life # life + 1
      <4>1. log[i] \in Logged
        BY ElementOfSeq DEF SessionTyped
      <4>2. log[i].life \in Nat /\ life \in Nat /\ log[i].life <= life
        BY <4>1 DEF SessionTyped, Logged, Numbered
      <4> QED
        BY <4>2
    <3> QED
      BY <3>1, <3>2 DEF Numbered, KeyReusedOnlyAfterRound
  <2>3. CASE Leave \/ Receive \/ TransportClosed
    BY <2>1, <2>3 DEF Leave, Receive, TransportClosed
  <2>4. ASSUME NEW line \in Lines, TypeLine(line) PROVE Numbered'
    <3>1. life' = life
      BY <2>4 DEF TypeLine
    <3> QED
      BY <2>1, <2>4, <3>1, TypeLineOriginates, OriginatesNumbered
  <2>5. CASE ReadLoop \/ ScanLoop \/ Deliver \/ Undeliverable
    BY <2>1, <2>5 DEF ReadLoop, ScanLoop, Deliver, Undeliverable, svars
  <2>6. CASE UNCHANGED cvars
    BY <2>1, <2>6 DEF cvars, svars
  <2> QED
    BY <2>2, <2>3, <2>4, <2>5, <2>6 DEF Next
<1> QED
  BY <1>1, <1>2, AlwaysNamed, AlwaysSession, PTL DEF Spec

\* Between two messages of one life with the same key lies a whole round of
\* sequence numbers, whatever lines are refused (app.rs, parse_outgoing).
THEOREM KeysAreFresh == Spec => []KeyReusedOnlyAfterRound
<1>1. Numbered => KeyReusedOnlyAfterRound
  BY DEF Numbered
<1> QED
  BY <1>1, AlwaysNumbered, PTL

----------------------------------------------------------------------------
(***************************************************************************)
(* What is offered to the transport.                                       *)
(***************************************************************************)

F == INSTANCE SeenFacts

\* The router's cache is the one of SeenFacts.
LEMMA SameCache ==
  ASSUME NEW cache, NEW key
  PROVE  /\ R!Insert(cache, key) = F!Insert(cache, key)
         /\ R!NewlySeen(cache, key) <=> ~ F!Contains(cache, key)
<1>1. R!Contains(cache, key) <=> F!Contains(cache, key)
  BY DEF R!Contains, F!Contains
<1>2. R!Insert(cache, key) = F!Insert(cache, key)
  BY DEF R!Insert, F!Insert, R!Contains, F!Contains, R!Refresh, F!Refresh, R!Admit,
         F!Admit, R!RemoveAt, F!RemoveAt, R!Position, F!Position
<1> QED
  BY <1>1, <1>2 DEF R!NewlySeen

\* Sets are as large there as here.
LEMMA SameSize ==
  ASSUME NEW S
  PROVE  (F!IsFiniteSet(S) <=> IsFiniteSet(S)) /\ F!Cardinality(S) = Cardinality(S)
BY DEF F!IsFiniteSet, IsFiniteSet, F!Cardinality, Cardinality

\* Every message there has been, of others and in the log.
Known(entries) == Messages \cup {entries[i].msg : i \in 1 .. Len(entries)}

LEMMA KnownIsFinite ==
  ASSUME NEW entries \in Seq(Logged)
  PROVE  /\ Len(entries) \in Nat /\ Cardinality(Messages) \in Nat
         /\ IsFiniteSet(Known(entries))
         /\ Cardinality(Known(entries)) <= Cardinality(Messages) + Len(entries)
<1>1. IsFiniteSet(Messages)
  <2>1. IsFiniteSet(Others)
    BY ChatAssumption
  <2> DEFINE f == [packet \in Others |-> packet.msg]
  <2>2. f \in Surjection(Others, Messages)
    BY DEF Surjection, Messages
  <2> QED
    BY <2>1, <2>2, FS_Surjection
<1>2. Cardinality(Messages) \in Nat
  BY <1>1, FS_CardinalityType
<1>3. Len(entries) \in Nat
  BY LenProperties
<1> DEFINE Own == {entries[i].msg : i \in 1 .. Len(entries)}
<1>4. IsFiniteSet(Own) /\ Cardinality(Own) <= Len(entries)
  <2>1. IsFiniteSet(1 .. Len(entries)) /\ Cardinality(1 .. Len(entries)) = Len(entries)
    BY <1>3, FS_Interval
  <2> DEFINE g == [i \in 1 .. Len(entries) |-> entries[i].msg]
  <2>2. g \in Surjection(1 .. Len(entries), Own)
    BY DEF Surjection
  <2> HIDE DEF g, Own
  <2>3. IsFiniteSet(Own) /\ Cardinality(Own) <= Cardinality(1 .. Len(entries))
    BY <2>1, <2>2, FS_Surjection
  <2> QED
    BY <2>1, <2>3
<1> HIDE DEF Own
<1>5. Cardinality(Own) \in Nat
  BY <1>4, FS_CardinalityType
<1>6. /\ IsFiniteSet(Messages \cup Own)
      /\ Cardinality(Messages \cup Own) =
           Cardinality(Messages) + Cardinality(Own) - Cardinality(Messages \cap Own)
  BY <1>1, <1>4, FS_Union
<1>7. Cardinality(Messages \cap Own) \in Nat
  <2>1. Messages \cap Own \in SUBSET Messages
    OBVIOUS
  <2>2. IsFiniteSet(Messages \cap Own)
    BY <1>1, <2>1, FS_Subset
  <2> QED
    BY <2>2, FS_CardinalityType
<1>8. Known(entries) = Messages \cup Own
  BY DEF Known, Own
<1>9. Cardinality(Known(entries)) <= Cardinality(Messages) + Len(entries)
  <2> DEFINE a == Cardinality(Messages)
             b == Cardinality(Own)
             c == Cardinality(Messages \cap Own)
  <2>1. a \in Nat /\ b \in Nat /\ c \in Nat /\ b <= Len(entries) /\ Cardinality(Known(entries)) = a + b - c
    BY <1>2, <1>4, <1>5, <1>6, <1>7, <1>8
  <2> HIDE DEF a, b, c
  <2>2. a + b - c <= a + Len(entries)
    BY <1>3, <2>1
  <2> QED
    BY <2>1, <2>2 DEF a
<1> QED
  BY <1>2, <1>3, <1>6, <1>8, <1>9

\* What is on its way to the router is one of these.
Carried ==
  /\ \A i \in 1 .. Len(rx) : rx[i].msg \in Known(log)
  /\ \A i \in 1 .. Len(pending) : pending[i].msg \in Known(log)

LEMMA OnAirIsKnown ==
  ASSUME SessionTyped, NEW packet \in OnAir
  PROVE  packet.msg \in Known(log)
<1>1. CASE packet \in Others
  BY <1>1 DEF Known, Messages
<1>2. CASE packet \in Echoes
  <2>1. PICK i \in aired : packet = R!NewPacket(log[i].msg)
    BY <1>2 DEF Echoes
  <2>2. packet.msg = log[i].msg /\ i \in 1 .. Len(log)
    BY <2>1 DEF SessionTyped, R!NewPacket
  <2> QED
    BY <2>2 DEF Known
<1> QED
  BY <1>1, <1>2 DEF OnAir

\* A message more in the log is one more that is known.
LEMMA LogGrows ==
  ASSUME Named, SessionTyped, NEW line \in Lines, Originates(line)
  PROVE  /\ log' \in Seq(Logged) /\ Len(log) \in Nat /\ Len(log') = Len(log) + 1
         /\ Known(log) \subseteq Known(log')
         /\ log'[Len(log')].msg \in Known(log')
<1>1. PICK entry \in Logged : log' = Append(log, entry)
  BY EntryIsLogged DEF Originates
<1>2. /\ log' \in Seq(Logged) /\ Len(log') = Len(log) + 1 /\ Len(log) \in Nat
      /\ \A i \in 1 .. Len(log) : log'[i] = log[i]
  BY <1>1, AppendProperties, LenProperties DEF SessionTyped
<1>3. /\ \A i \in 1 .. Len(log) : i \in 1 .. Len(log')
      /\ Len(log') \in 1 .. Len(log')
  BY <1>2
<1>4. \A i \in 1 .. Len(log) : log[i].msg \in Known(log')
  BY <1>2, <1>3 DEF Known
<1> QED
  BY <1>2, <1>3, <1>4 DEF Known

LEMMA AlwaysCarried == Spec => []Carried
<1>1. Init => Carried
  <2> SUFFICES ASSUME Init PROVE Carried
    OBVIOUS
  <2>1. rx = << >> /\ pending = << >> /\ Len(<< >>) = 0
    BY EmptySeq DEF Init
  <2> QED
    BY <2>1 DEF Carried
<1>2. Named /\ SessionTyped /\ Flows /\ Carried /\ [Next]_cvars => Carried'
  <2> SUFFICES ASSUME Named, SessionTyped, Flows, Carried, [Next]_cvars PROVE Carried'
    OBVIOUS
  <2>1. ASSUME UNCHANGED <<rx, pending>>, Known(log) \subseteq Known(log') PROVE Carried'
    BY <2>1 DEF Carried
  <2>2. rx \in Seq(Heard) /\ pending \in Seq(Heard)
    BY DEF Flows
  <2>3. CASE Launch \/ Relaunch
    <3>1. rx' = << >> /\ pending' = << >>
      BY <2>3 DEF Launch, Relaunch, Start
    <3> QED
      BY <3>1, EmptySeq DEF Carried
  <2>4. CASE Leave \/ TransportClosed
    BY <2>1, <2>4 DEF Leave, TransportClosed, rvars
  <2>5. ASSUME NEW line \in Lines, TypeLine(line) PROVE Carried'
    <3>1. UNCHANGED <<rx, pending>>
      BY <2>5 DEF TypeLine, rvars
    <3>2. Known(log) \subseteq Known(log')
      <4>1. log' = log \/ Originates(line)
        BY <2>5, TypeLineOriginates
      <4> QED
        BY <4>1, LogGrows
    <3> QED
      BY <2>1, <3>1, <3>2
  <2>6. CASE Receive
    <3>1. rx # << >> /\ rx' = Tail(rx) /\ UNCHANGED <<pending, log>>
      BY <2>6 DEF Receive
    <3>2. /\ Len(rx') = Len(rx) - 1 /\ Len(rx) \in Nat
          /\ \A i \in 1 .. Len(rx') : rx'[i] = rx[i + 1]
      BY <2>2, <3>1, HeadTailProperties, LenProperties
    <3>3. \A i \in 1 .. Len(rx') : i + 1 \in 1 .. Len(rx)
      BY <3>2
    <3> QED
      BY <3>1, <3>2, <3>3 DEF Carried
  <2>7. CASE ReadLoop
    <3>1. log' = log
      BY <2>7 DEF ReadLoop, svars
    <3>2. CASE ReceiveError \/ ReceiveOversized
      BY <2>1, <3>1, <3>2 DEF ReceiveError, ReceiveOversized
    <3>3. ASSUME NEW packet \in OnAir, ReceiveDatagram(packet) PROVE Carried'
      <4>1. rx' = rx /\ pending' = <<packet>>
        BY <3>3 DEF ReceiveDatagram
      <4>2. \A i \in 1 .. Len(<<packet>>) : <<packet>>[i].msg \in Known(log)
        BY OnAirIsKnown
      <4> QED
        BY <3>1, <4>1, <4>2 DEF Carried
    <3> QED
      BY <2>7, <3>2, <3>3 DEF ReadLoop
  <2>8. CASE ScanLoop
    <3>1. log' = log
      BY <2>8 DEF ScanLoop, svars
    <3>2. ASSUME NEW p \in OnAir, NEW q \in OnAir,
                 ScanEvent(<<p>>) \/ ScanEvent(<<p, q>>)
          PROVE  Carried'
      <4>1. rx' = rx /\ (pending' = <<p>> \/ pending' = <<p, q>>)
        BY <3>2 DEF ScanEvent
      <4>2. p.msg \in Known(log) /\ q.msg \in Known(log)
        BY OnAirIsKnown
      <4>3. /\ \A i \in 1 .. Len(<<p>>) : <<p>>[i].msg \in Known(log)
            /\ \A i \in 1 .. Len(<<p, q>>) : <<p, q>>[i].msg \in Known(log)
        BY <4>2
      <4> QED
        BY <3>1, <4>1, <4>3 DEF Carried
    <3>3. CASE EventsEnd
      BY <2>1, <3>1, <3>3 DEF EventsEnd
    <3> QED
      BY <2>8, <3>2, <3>3 DEF ScanLoop
  <2>9. CASE Deliver
    <3>1. /\ pending # << >> /\ log' = log
          /\ rx' = Append(rx, Head(pending)) /\ pending' = Tail(pending)
      BY <2>9 DEF Deliver, Push, svars
    <3>2. /\ Head(pending) \in Heard /\ Head(pending) = pending[1]
          /\ Len(pending') = Len(pending) - 1 /\ Len(pending) \in Nat /\ Len(pending) >= 1
          /\ \A i \in 1 .. Len(pending') : pending'[i] = pending[i + 1]
      BY <2>2, <3>1, HeadTailProperties, LenProperties, EmptySeq
    <3>3. /\ Len(rx') = Len(rx) + 1 /\ Len(rx) \in Nat
          /\ \A i \in 1 .. Len(rx) : rx'[i] = rx[i]
          /\ rx'[Len(rx) + 1] = pending[1]
      BY <2>2, <3>1, <3>2, AppendProperties, LenProperties
    <3>4. 1 \in 1 .. Len(pending) /\ \A i \in 1 .. Len(pending') : i + 1 \in 1 .. Len(pending)
      BY <3>2
    <3>5. ASSUME NEW i \in 1 .. Len(rx') PROVE rx'[i].msg \in Known(log)
      <4>1. i \in 1 .. Len(rx) \/ i = Len(rx) + 1
        BY <3>3
      <4> QED
        BY <3>3, <3>4, <4>1 DEF Carried
    <3> QED
      BY <3>1, <3>2, <3>4, <3>5 DEF Carried
  <2>10. CASE Undeliverable
    <3>1. pending' = << >> /\ rx' = rx /\ log' = log /\ Len(<< >>) = 0
      BY <2>10, EmptySeq DEF Undeliverable, PushFails, svars
    <3> QED
      BY <3>1 DEF Carried
  <2>11. CASE UNCHANGED cvars
    BY <2>1, <2>11 DEF cvars, svars, rvars
  <2> QED
    BY <2>3, <2>4, <2>5, <2>6, <2>7, <2>8, <2>9, <2>10, <2>11 DEF Next
<1> QED
  BY <1>1, <1>2, AlwaysNamed, AlwaysSession, AlwaysFlows, PTL DEF Spec

Suffices(entries) == Cardinality(Messages) + Len(entries) <= SEEN_CAPACITY

\* While the cache suffices, what was offered is in it.
Offers ==
  /\ offered \in [Messages -> Nat]
  /\ Suffices(log) =>
       /\ seen \in Seq(Known(log)) /\ F!Distinct(seen)
       /\ offered \in [Messages -> 0 .. 1]
       /\ \A msg \in Messages : offered[msg] = 1 => F!Contains(seen, msg)

\* An insert into a cache that suffices.
LEMMA SufficientInsert ==
  ASSUME NEW entries \in Seq(Logged), Suffices(entries),
         NEW cache \in Seq(Known(entries)), F!Distinct(cache), NEW msg \in Known(entries)
  PROVE  /\ R!Insert(cache, msg) \in Seq(Known(entries))
         /\ F!Distinct(R!Insert(cache, msg))
         /\ F!Contains(R!Insert(cache, msg), msg)
         /\ \A k : F!Contains(cache, k) => F!Contains(R!Insert(cache, msg), k)
<1> DEFINE S == Known(entries)
<1>1. SEEN_CAPACITY \in Nat \ {0}
  BY ChatAssumption
<1>2. /\ IsFiniteSet(S) /\ Cardinality(S) \in Nat
      /\ Cardinality(S) <= Cardinality(Messages) + Len(entries)
      /\ Cardinality(Messages) \in Nat /\ Len(entries) \in Nat
  BY KnownIsFinite, FS_CardinalityType
<1> HIDE DEF S
<1>3. Cardinality(S) <= SEEN_CAPACITY
  BY <1>1, <1>2 DEF Suffices
<1>4. cache \in Seq(S) /\ msg \in S
  BY DEF S
<1>5. Len(cache) <= SEEN_CAPACITY /\ (F!Contains(cache, msg) \/ Len(cache) < SEEN_CAPACITY)
  <2>1. F!IsFiniteSet(S) /\ F!Cardinality(S) <= SEEN_CAPACITY
    BY <1>2, <1>3, SameSize
  <2> QED
    BY <1>1, <1>4, <2>1, F!RoomForAll
<1>6. /\ F!Insert(cache, msg) \in Seq(S)
      /\ F!Distinct(F!Insert(cache, msg))
      /\ F!Contains(F!Insert(cache, msg), msg)
      /\ \A k : F!Contains(cache, k) => F!Contains(F!Insert(cache, msg), k)
  BY <1>1, <1>4, <1>5, F!InsertKeepsCache
<1>7. R!Insert(cache, msg) = F!Insert(cache, msg)
  BY SameCache
<1> QED
  BY <1>6, <1>7 DEF S

LEMMA OriginateOffers ==
  ASSUME Named, SessionTyped, Offers, NEW line \in Lines, TypeLine(line)
  PROVE  Offers'
<1>0. offered' = offered /\ offered \in [Messages -> Nat]
  BY DEF TypeLine, Offers
<1>1. CASE Malformed(line)
  BY <1>1 DEF TypeLine, Offers
<1>2. CASE ~ Malformed(line)
  <2>1. PICK name \in node :
          LET msg == [src |-> name, dest |-> line.dest, id |-> <<seq, line.text>>]
          IN  /\ seen' = R!Insert(seen, R!Key(R!NewPacket(msg)))
              /\ log' = Append(log, [msg |-> msg, life |-> life])
    BY <1>2 DEF TypeLine
  <2> DEFINE msg == [src |-> name, dest |-> line.dest, id |-> <<seq, line.text>>]
             entry == [msg |-> msg, life |-> life]
  <2>2. seen' = R!Insert(seen, msg) /\ log' = Append(log, entry)
    BY <2>1 DEF R!Key, R!NewPacket
  <2>3. entry \in Logged /\ entry.msg = msg
    BY EntryIsLogged
  <2> HIDE DEF msg, entry
  <2>4. /\ log' \in Seq(Logged) /\ Len(log) \in Nat /\ Len(log') = Len(log) + 1
        /\ \A i \in 1 .. Len(log) : log'[i] = log[i]
        /\ log'[Len(log) + 1] = entry
    BY <2>2, <2>3, AppendProperties, LenProperties DEF SessionTyped
  <2>5. Known(log) \subseteq Known(log') /\ msg \in Known(log')
    <3>1. /\ \A i \in 1 .. Len(log) : i \in 1 .. Len(log')
          /\ Len(log) + 1 \in 1 .. Len(log')
      BY <2>4
    <3>2. \A i \in 1 .. Len(log) : log[i].msg \in Known(log')
      BY <2>4, <3>1 DEF Known
    <3>3. msg \in Known(log')
      BY <2>3, <2>4, <3>1 DEF Known
    <3> QED
      BY <3>2, <3>3 DEF Known
  <2>6. ASSUME Suffices(log') PROVE Suffices(log)
    <3>1. Cardinality(Messages) \in Nat
      BY <2>4, KnownIsFinite
    <3> QED
      BY <2>4, <2>6, <3>1, ChatAssumption DEF Suffices
  <2>7. ASSUME Suffices(log')
        PROVE  /\ seen' \in Seq(Known(log')) /\ F!Distinct(seen')
               /\ \A k : F!Contains(seen, k) => F!Contains(seen', k)
    <3>1. seen \in Seq(Known(log)) /\ F!Distinct(seen)
      BY <2>6, <2>7 DEF Offers
    <3>2. seen \in Seq(Known(log'))
      BY <2>5, <3>1, SeqMonotonic
    <3> QED
      BY <2>2, <2>4, <2>5, <2>7, <3>1, <3>2, SufficientInsert
  <2>8. ASSUME Suffices(log')
        PROVE  /\ offered \in [Messages -> 0 .. 1]
               /\ \A k \in Messages : offered[k] = 1 => F!Contains(seen', k)
    BY <2>6, <2>7, <2>8 DEF Offers
  <2> QED
    BY <1>0, <2>7, <2>8 DEF Offers, Suffices
<1> QED
  BY <1>1, <1>2

LEMMA ReceiveOffers ==
  ASSUME SessionTyped, Carried, Flows, Offers, Receive
  PROVE  Offers'
<1>1. PICK name \in node :
        LET packet == Head(rx)
        IN  /\ seen' = R!CacheAfter(name, seen, packet)
            /\ offered' = IF R!Forwards(name, seen, packet)
                          THEN [offered EXCEPT ![packet.msg] = @ + 1] ELSE offered
  BY DEF Receive
<1> DEFINE packet == Head(rx)
           msg == packet.msg
           forwards == R!Forwards(name, seen, packet)
           echo == R!IsOwn(name, packet)
<1>2. msg \in Known(log) /\ log' = log
  <2>1. rx # << >> /\ rx \in Seq(Heard) /\ log' = log
    BY DEF Receive, Flows
  <2>2. packet = rx[1] /\ 1 \in 1 .. Len(rx)
    BY <2>1, EmptySeq, LenProperties
  <2> QED
    BY <2>1, <2>2 DEF Carried
<1>3. /\ seen' = IF echo THEN seen ELSE R!Insert(seen, msg)
      /\ offered' = IF forwards THEN [offered EXCEPT ![msg] = @ + 1] ELSE offered
  BY <1>1 DEF R!CacheAfter, R!Key
<1>4. forwards => ~ echo /\ ~ F!Contains(seen, msg)
  BY SameCache DEF R!Forwards, R!IsFresh, R!Key
<1> HIDE DEF packet, msg, forwards, echo
<1>5. offered \in [Messages -> Nat] /\ offered' \in [Messages -> Nat]
  <2>1. offered \in [Messages -> Nat]
    BY DEF Offers
  <2>2. CASE forwards /\ msg \in Messages
    <3>1. offered[msg] \in Nat /\ offered[msg] + 1 \in Nat
      BY <2>1, <2>2
    <3>2. offered' = [offered EXCEPT ![msg] = offered[msg] + 1]
      BY <1>3, <2>2
    <3> QED
      BY <2>1, <2>2, <3>1, <3>2
  <2>3. CASE forwards /\ msg \notin Messages
    <3>1. offered' = [offered EXCEPT ![msg] = offered[msg] + 1]
      BY <1>3, <2>3
    <3> QED
      BY <2>1, <2>3, <3>1
  <2>4. CASE ~ forwards
    BY <1>3, <2>1, <2>4
  <2> QED
    BY <2>1, <2>2, <2>3, <2>4
<1>6. ASSUME Suffices(log)
      PROVE  /\ seen' \in Seq(Known(log)) /\ F!Distinct(seen')
             /\ ~ echo => F!Contains(seen', msg)
             /\ \A k : F!Contains(seen, k) => F!Contains(seen', k)
  <2>1. seen \in Seq(Known(log)) /\ F!Distinct(seen) /\ log \in Seq(Logged)
    BY <1>6 DEF Offers, SessionTyped
  <2>2. CASE echo
    BY <1>3, <2>1, <2>2
  <2>3. CASE ~ echo
    <3>1. seen' = R!Insert(seen, msg)
      BY <1>3, <2>3
    <3> QED
      BY <1>2, <1>6, <2>1, <3>1, SufficientInsert
  <2> QED
    BY <2>2, <2>3
<1>7. ASSUME Suffices(log)
      PROVE  /\ offered' \in [Messages -> 0 .. 1]
             /\ \A k \in Messages : offered'[k] = 1 => F!Contains(seen', k)
  <2>1. /\ offered \in [Messages -> 0 .. 1]
        /\ \A k \in Messages : offered[k] = 1 => F!Contains(seen, k)
    BY <1>7 DEF Offers
  <2>2. CASE forwards /\ msg \in Messages
    <3>1. offered[msg] # 1
      BY <1>4, <2>1, <2>2
    <3>2. offered[msg] + 1 = 1
      BY <2>1, <2>2, <3>1
    <3>3. /\ offered' \in [Messages -> 0 .. 1]
          /\ \A k \in Messages : k # msg => offered'[k] = offered[k]
      BY <1>3, <2>1, <2>2, <3>2
    <3>4. F!Contains(seen', msg)
      BY <1>4, <1>6, <1>7, <2>2
    <3>5. ASSUME NEW k \in Messages, offered'[k] = 1 PROVE F!Contains(seen', k)
      <4>1. CASE k = msg
        BY <3>4, <4>1
      <4>2. CASE k # msg
        BY <1>6, <1>7, <2>1, <3>3, <3>5, <4>2
      <4> QED
        BY <4>1, <4>2
    <3> QED
      BY <3>3, <3>5
  <2>3. CASE ~ (forwards /\ msg \in Messages)
    <3>1. offered' = offered
      BY <1>3, <2>1, <2>3
    <3> QED
      BY <1>6, <1>7, <2>1, <3>1
  <2> QED
    BY <2>2, <2>3
<1> QED
  BY <1>2, <1>5, <1>6, <1>7 DEF Offers, Suffices

LEMMA AlwaysOffers == Spec => []Offers
\* A session begins with an empty cache, and nothing has been offered.
<1>1. ASSUME NEW cache, cache = R!EmptyCache, NEW history,
             history = [msg \in Messages |-> 0], NEW entries
      PROVE  /\ history \in [Messages -> Nat] /\ history \in [Messages -> 0 .. 1]
             /\ cache \in Seq(Known(entries)) /\ F!Distinct(cache)
             /\ \A msg \in Messages : history[msg] # 1
  <2>1. cache = << >> /\ << >> \in Seq(Known(entries)) /\ DOMAIN << >> = {}
    BY <1>1, EmptySeq DEF R!EmptyCache
  <2>2. F!Distinct(cache)
    BY <2>1 DEF F!Distinct
  <2> QED
    BY <1>1, <2>1, <2>2
<1>2. Init => Offers
  BY <1>1 DEF Init, Offers
<1>3. Named /\ SessionTyped /\ Flows /\ Carried /\ Offers /\ [Next]_cvars => Offers'
  <2> SUFFICES ASSUME Named, SessionTyped, Flows, Carried, Offers, [Next]_cvars
               PROVE  Offers'
    OBVIOUS
  <2>1. ASSUME UNCHANGED <<seen, offered, log>> PROVE Offers'
    BY <2>1 DEF Offers, Suffices, Known
  <2>2. CASE Launch \/ Relaunch
    <3>1. /\ seen' = R!EmptyCache
          /\ offered' = [msg \in Messages |-> 0]
      BY <2>2 DEF Launch, Relaunch, Start
    <3> QED
      BY <1>1, <3>1 DEF Offers
  <2>3. CASE Leave \/ TransportClosed
    BY <2>1, <2>3 DEF Leave, TransportClosed
  <2>4. ASSUME NEW line \in Lines, TypeLine(line) PROVE Offers'
    BY <2>4, OriginateOffers
  <2>5. CASE Receive
    BY <2>5, ReceiveOffers
  <2>6. CASE ReadLoop \/ ScanLoop \/ Deliver \/ Undeliverable
    BY <2>1, <2>6 DEF ReadLoop, ScanLoop, Deliver, Undeliverable, svars
  <2>7. CASE UNCHANGED cvars
    BY <2>1, <2>7 DEF cvars, svars
  <2> QED
    BY <2>2, <2>3, <2>4, <2>5, <2>6, <2>7 DEF Next
<1> QED
  BY <1>2, <1>3, AlwaysNamed, AlwaysSession, AlwaysFlows, AlwaysCarried, PTL DEF Spec

\* While the cache can hold what the others send and what this node has sent, a
\* message is offered to the transport once in a session, whatever became of
\* the offer and however often copies of it are heard (app.rs, send_relay).
THEOREM RelayedOnce == Spec => []OfferedOnce
<1>1. Offers => OfferedOnce
  BY DEF Offers, OfferedOnce, Suffices
<1> QED
  BY <1>1, AlwaysOffers, PTL
============================================================================
