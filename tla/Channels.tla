------------------------------ MODULE Channels -------------------------------
(***************************************************************************)
(* channellib.go: LStates in goroutines of their own exchange values over  *)
(* Go channels, some under a context the host may cancel                   *)
(* (LState.SetContext, mainLoopWithContext).                               *)
(*                                                                         *)
(* A send, receive or select first builds the cases it waits for and then  *)
(* blocks until one of them is ready; which one is Go's choice.  What Go's *)
(* channels do (buffering, rendezvous, closing) is taken from the use the  *)
(* library makes of them.  A Go panic (send on a closed channel, close of  *)
(* a closed one) comes back as a Lua error, which the script may catch.    *)
(*                                                                         *)
(* taken and got are histories: the values receives took out of channels,  *)
(* and the values Lua code was given.  MaxSends bounds the values of an    *)
(* LState.                                                                 *)
(***************************************************************************)
EXTENDS Integers, Sequences, FiniteSets

CONSTANTS LStates,      \* each with a goroutine
          WithContext,  \* those the host gave a context
          Chans,
          Cap,          \* the buffer size channel.make was given
          MaxSends,
          Nil

ASSUME ContextAssumption == WithContext \subseteq LStates
ASSUME CapAssumption == Cap \in [Chans -> Nat]
ASSUME SendsAssumption == MaxSends \in Nat

VARIABLES buf, closed, op, result, cancelled, sends, taken, got

vars == <<buf, closed, op, result, cancelled, sends, taken, got>>

Values == [from : LStates, n : 1..MaxSends, safe : BOOLEAN]
ASSUME NilAssumption == Nil \notin Values

Send(ch, v) == [dir |-> "send", ch |-> ch, v |-> v]
Recv(ch) == [dir |-> "recv", ch |-> ch]
Default == [dir |-> "default"]
Done == [dir |-> "done"]

Running == [at |-> "running"]
Stopped == [at |-> "stopped"]
Blocked(call, cases) == [at |-> "blocked", call |-> call, cases |-> cases]
IsBlocked(L) == op[L].at = "blocked"

(* What a call returns to Lua.                                            *)
Nothing == [returns |-> "nothing"]
Failed == [returns |-> "error"]
Received(ok, value) == [returns |-> "ok, value", ok |-> ok, value |-> value]
Selected(pos, value, ok) == [returns |-> "pos, value, ok", pos |-> pos, value |-> value, ok |-> ok]

Init ==
    /\ buf = [ch \in Chans |-> <<>>]
    /\ closed = {}
    /\ op = [L \in LStates |-> Running]
    /\ result = [L \in LStates |-> Nothing]
    /\ cancelled = {}
    /\ sends = [L \in LStates |-> 0]
    /\ taken = {}
    /\ got = {}

-----------------------------------------------------------------------------
(* The cases each call waits for.  Only receive and select add the         *)
(* context's Done channel.                                                 *)
EveryDoneCase(L) == <<Done>>
DoneCase(L) == IF L \in WithContext THEN <<Done>> ELSE <<>>

PollingReceiveCases(L, ch) == DoneCase(L) \o <<Recv(ch), Default>>
DeafReceiveCases(L, ch) == <<Recv(ch)>>

ReceiveCases(L, ch) == DoneCase(L) \o <<Recv(ch)>>
SendCases(ch, v) == <<Send(ch, v)>>

SelectCases(L, cases) == cases \o DoneCase(L)

(* isGoroutineSafe, asked before anything is sent.                         *)
SafeToSend(v) == v.safe
AnythingGoes(v) == TRUE
SafeWhenSent(v) == SafeToSend(v)
SafeWhenSelected(v) == SafeToSend(v)

(* The loop of instructions looks at the context before each of them.      *)
CanCall(L) == op[L] = Running /\ L \notin cancelled

NewValue(L, safe) == [from |-> L, n |-> sends[L] + 1, safe |-> safe]

Calls(L, call, cases) ==
    /\ op' = [op EXCEPT ![L] = Blocked(call, cases)]
    /\ UNCHANGED <<buf, closed, result, cancelled, taken, got>>

Raises(L) ==
    /\ result' = [result EXCEPT ![L] = Failed]
    /\ UNCHANGED <<buf, closed, op, cancelled, taken, got>>

CallReceive(L, ch) ==
    /\ CanCall(L)
    /\ Calls(L, "receive", ReceiveCases(L, ch))
    /\ UNCHANGED sends

CallSend(L, ch, safe) ==
    /\ CanCall(L)
    /\ sends[L] < MaxSends
    /\ sends' = [sends EXCEPT ![L] = @ + 1]
    /\ IF SafeWhenSent(NewValue(L, safe)) THEN Calls(L, "send", SendCases(ch, NewValue(L, safe))) ELSE Raises(L)

(* channel.select with up to three cases: a receive, a send, a default.    *)
CallSelect(L, receives, sendsTo, safe, default) ==
    /\ CanCall(L)
    /\ sendsTo # {} => sends[L] < MaxSends
    /\ sends' = [sends EXCEPT ![L] = @ + Cardinality(sendsTo)]
    /\ LET OneOf(S, Case(_)) == IF S = {} THEN <<>> ELSE <<Case(CHOOSE ch \in S : TRUE)>>
           SendCase(ch) == Send(ch, NewValue(L, safe))
           cases == OneOf(receives, Recv) \o OneOf(sendsTo, SendCase) \o (IF default THEN <<Default>> ELSE <<>>)
       IN  IF sendsTo # {} => SafeWhenSelected(NewValue(L, safe))
           THEN Calls(L, "select", SelectCases(L, cases))
           ELSE Raises(L)

CallClose(L, ch) ==
    /\ CanCall(L)
    /\ IF ch \in closed THEN Raises(L)
       ELSE /\ closed' = closed \cup {ch}
            /\ result' = [result EXCEPT ![L] = Nothing]
            /\ UNCHANGED <<buf, op, cancelled, taken, got>>
    /\ UNCHANGED sends

-----------------------------------------------------------------------------
(* Go's channels.                                                          *)
Waits(L, case) == IsBlocked(L) /\ \E i \in DOMAIN op[L].cases : op[L].cases[i] = case

SendersOn(ch) == {L \in LStates : \E v \in Values : Waits(L, Send(ch, v))}
ReceiversOn(ch) == {L \in LStates : Waits(L, Recv(ch))}

ReadyAt(L, case) ==
    CASE case.dir = "recv" -> buf[case.ch] # <<>> \/ case.ch \in closed \/ SendersOn(case.ch) \ {L} # {}
      [] case.dir = "send" -> \/ case.ch \in closed
                              \/ Len(buf[case.ch]) < Cap[case.ch]
                              \/ ReceiversOn(case.ch) \ {L} # {}
      [] case.dir = "done" -> L \in cancelled
      [] case.dir = "default" -> FALSE

(* What a call gives its Lua caller when case number pos is chosen.        *)
ReceiveResult(value, ok) == IF ok THEN Received(TRUE, value) ELSE Received(FALSE, Nil)

SelectResultWhenCancelled(L, pos, value, ok) ==
    IF L \in cancelled THEN Nothing ELSE Selected(pos, value, ok)

SelectResult(L, pos, value, ok) ==
    IF L \in WithContext /\ pos = Len(op[L].cases) THEN Nothing ELSE Selected(pos, value, ok)

ResultOf(L, pos, value, ok) ==
    CASE op[L].call = "receive" -> ReceiveResult(value, ok)
      [] op[L].call = "send"    -> Nothing
      [] op[L].call = "select"  -> SelectResult(L, pos, value, ok)

Given(r) == IF r.returns \in {"nothing", "error"} THEN {} ELSE {r.value} \ {Nil}

(* The calls of the LStates in returned come back, with these results.     *)
Return(returned, results) ==
    /\ op' = [L \in LStates |-> IF L \in returned THEN Running ELSE op[L]]
    /\ result' = [L \in LStates |-> IF L \in returned THEN results[L] ELSE result[L]]
    /\ got' = got \cup UNION {Given(results[L]) : L \in returned}
    /\ UNCHANGED <<closed, cancelled, sends>>

Returns(L, r) == Return({L}, [M \in {L} |-> r])

ReceiveBuffered(L, pos) ==
    LET ch == op[L].cases[pos].ch
    IN  /\ op[L].cases[pos].dir = "recv"
        /\ buf[ch] # <<>>
        /\ buf' = [buf EXCEPT ![ch] = Tail(@)]
        /\ taken' = taken \cup {Head(buf[ch])}
        /\ Returns(L, ResultOf(L, pos, Head(buf[ch]), TRUE))

ReceiveClosed(L, pos) ==
    LET ch == op[L].cases[pos].ch
    IN  /\ op[L].cases[pos].dir = "recv"
        /\ buf[ch] = <<>> /\ ch \in closed
        /\ Returns(L, ResultOf(L, pos, Nil, FALSE))
        /\ UNCHANGED <<buf, taken>>

SendBuffered(L, pos) ==
    LET ch == op[L].cases[pos].ch
    IN  /\ op[L].cases[pos].dir = "send"
        /\ ch \notin closed /\ Len(buf[ch]) < Cap[ch]
        /\ buf' = [buf EXCEPT ![ch] = Append(@, op[L].cases[pos].v)]
        /\ Returns(L, ResultOf(L, pos, Nil, FALSE))
        /\ UNCHANGED taken

SendClosed(L, pos) ==
    /\ op[L].cases[pos].dir = "send"
    /\ op[L].cases[pos].ch \in closed
    /\ Returns(L, Failed)
    /\ UNCHANGED <<buf, taken>>

(* An unbuffered channel hands the value over when both sides wait.        *)
Rendezvous(L, pos, M, mpos) ==
    LET ch == op[L].cases[pos].ch
        v == op[L].cases[pos].v
    IN  /\ L # M
        /\ op[L].cases[pos].dir = "send"
        /\ op[M].cases[mpos] = Recv(ch)
        /\ ch \notin closed /\ Cap[ch] = 0
        /\ taken' = taken \cup {v}
        /\ Return({L, M}, [N \in {L, M} |-> IF N = L THEN ResultOf(L, pos, Nil, FALSE)
                                                      ELSE ResultOf(M, mpos, v, TRUE)])
        /\ UNCHANGED buf

ContextDone(L, pos) ==
    /\ op[L].cases[pos] = Done
    /\ L \in cancelled
    /\ Returns(L, ResultOf(L, pos, Nil, FALSE))
    /\ UNCHANGED <<buf, taken>>

DefaultTaken(L, pos) ==
    /\ op[L].cases[pos] = Default
    /\ \A i \in DOMAIN op[L].cases : ~ReadyAt(L, op[L].cases[i])
    /\ Returns(L, ResultOf(L, pos, Nil, FALSE))
    /\ UNCHANGED <<buf, taken>>

Proceeds(L) ==
    /\ IsBlocked(L)
    /\ \E pos \in DOMAIN op[L].cases :
        \/ ReceiveBuffered(L, pos)
        \/ ReceiveClosed(L, pos)
        \/ SendBuffered(L, pos)
        \/ SendClosed(L, pos)
        \/ ContextDone(L, pos)
        \/ DefaultTaken(L, pos)
        \/ \E M \in LStates : IsBlocked(M) /\ \E mpos \in DOMAIN op[M].cases :
            Rendezvous(L, pos, M, mpos) \/ Rendezvous(M, mpos, L, pos)

-----------------------------------------------------------------------------
(* The host cancels a context; the loop of instructions notices.           *)
Cancel(L) ==
    /\ L \in WithContext \ cancelled
    /\ cancelled' = cancelled \cup {L}
    /\ UNCHANGED <<buf, closed, op, result, sends, taken, got>>

RaiseCancelled(L) ==
    /\ op[L] = Running
    /\ L \in cancelled
    /\ op' = [op EXCEPT ![L] = Stopped]
    /\ UNCHANGED <<buf, closed, result, cancelled, sends, taken, got>>

AtMostOne == {{}} \cup {{ch} : ch \in Chans}

Next ==
    \E L \in LStates :
        \/ \E ch \in Chans : CallReceive(L, ch) \/ CallClose(L, ch) \/ \E safe \in BOOLEAN : CallSend(L, ch, safe)
        \/ \E receives, sendsTo \in AtMostOne, safe, default \in BOOLEAN :
            CallSelect(L, receives, sendsTo, safe, default)
        \/ Proceeds(L)
        \/ Cancel(L)
        \/ RaiseCancelled(L)

Spec == Init /\ [][Next]_vars

(* A goroutine whose call can return, or whose loop can notice that its    *)
(* context is cancelled, is run by Go's scheduler some day.  Scripts need  *)
(* not call anything, nor hosts cancel.                                    *)
FairSpec == Spec /\ \A L \in LStates : WF_vars(Proceeds(L)) /\ WF_vars(RaiseCancelled(L))

-----------------------------------------------------------------------------
Case == [dir : {"send"}, ch : Chans, v : Values] \cup [dir : {"recv"}, ch : Chans] \cup {Default, Done}
Calling == [at : {"blocked"}, call : {"receive", "send", "select"}, cases : Seq(Case)]

(* Buffers stay within the size channel.make was given; the cases of a     *)
(* blocked call are well formed, and only a context adds a Done case.      *)
TypeOK ==
    /\ \A ch \in Chans : buf[ch] \in Seq(Values) /\ Len(buf[ch]) <= Cap[ch]
    /\ closed \subseteq Chans
    /\ \A L \in LStates :
        /\ op[L] \in {Running, Stopped} \cup Calling
        /\ Waits(L, Done) => L \in WithContext
    /\ cancelled \subseteq WithContext
    /\ sends \in [LStates -> 0..MaxSends]
    /\ taken \subseteq Values /\ got \subseteq Values

(* Every value that was taken out of a channel was given to the Lua code   *)
(* that asked for one, also when the context of a receive or select is     *)
(* cancelled at the same time; and Lua code is given no other values.      *)
TakenIsReturned == taken = got

(* ch:receive() returns false only when its channel is closed and drained, *)
(* or when the context of its LState is cancelled.                         *)
FalseMeansOver ==
    [][\A L \in LStates :
        IsBlocked(L) /\ op[L].call = "receive" /\ op'[L] = Running /\ ~result'[L].ok =>
            \/ L \in cancelled
            \/ \A ch \in Chans : Waits(L, Recv(ch)) => ch \in closed /\ buf[ch] = <<>>]_vars

(* A value that must not leave its goroutine never gets into a channel or  *)
(* to another LState, whichever way it is sent.                            *)
OnlySafeTravels ==
    /\ \A v \in got : v.safe
    /\ \A ch \in Chans, i \in 1..MaxSends : i \in DOMAIN buf[ch] => buf[ch][i].safe

(* An LState whose context is cancelled stops, even if it waits for a      *)
(* channel nobody sends on: receive and select return, and the next        *)
(* instruction raises the error of the context.                            *)
WaitsInSend(L) == IsBlocked(L) /\ op[L].call = "send"
CancelledStops ==
    \A L \in LStates : (L \in cancelled /\ ~WaitsInSend(L)) ~> (op[L] = Stopped)

(* The same for every LState, as README.rst describes contexts.            *)
CancelledAlwaysStops ==
    \A L \in LStates : (L \in cancelled) ~> (op[L] = Stopped)

=============================================================================
