---------------------------- MODULE MCAdvertiser ----------------------------
EXTENDS Advertiser

CONSTANTS o1, o2, r1, r2

OneOwn == {o1}
TwoOwn == {o1, o2}
TwoRelays == {r1, r2}
FramesMC == {o1, o2, r1, r2}
============================================================================
