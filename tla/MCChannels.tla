----------------------------- MODULE MCChannels ------------------------------
(* Two LStates, one with a context, and channels of the sizes 0 and 1.     *)
EXTENDS Channels

CONSTANTS plain, bounded, direct, buffered

MCLStates == {plain, bounded}
MCWithContext == {bounded}
MCChans == {direct, buffered}
MCOneLState == {bounded}
MCOneChan == {direct}
MCCap == [ch \in Chans |-> IF ch = direct THEN 0 ELSE 1]
=============================================================================
