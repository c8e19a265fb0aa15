--------------------------- MODULE ChannelsProofs ---------------------------
(***************************************************************************)
(* Channels, for any number of LStates, contexts and channels of any size: *)
(* no value is lost between channels and LStates, none that must not leave *)
(* its goroutine does, and a receive that returns false has a reason.      *)
(***************************************************************************)
EXTENDS Channels, SequenceTheorems, FiniteSetTheorems, TLAPS

SafeValues == {v \in Values : v.safe}

(* The cases L may wait for.                                               *)
CasesOf(L) == {c \in Case : (c.dir = "send" => c.v.safe) /\ (c = Done => L \in WithContext)}

Typed ==
    /\ buf \in [Chans -> Seq(SafeValues)]
    /\ \A ch \in Chans : Len(buf[ch]) <= Cap[ch]
    /\ closed \subseteq Chans
    /\ op \in [LStates -> {Running, Stopped} \cup Calling]
    /\ cancelled \subseteq WithContext
    /\ sends \in [LStates -> 0..MaxSends]
    /\ got \subseteq SafeValues

(* What a blocked call waits for: a receive for one channel and the        *)
(* context, a send for channels only; a select under a context has its     *)
(* Done case last, where SelectResult looks for it.                        *)
CasesFit(L) ==
    IsBlocked(L) =>
        /\ op[L].cases \in Seq(CasesOf(L))
        /\ op[L].call = "receive" =>
            \E ch \in Chans : \A i \in 1..Len(op[L].cases) : op[L].cases[i] \in {Done, Recv(ch)}
        /\ op[L].call = "send" => \A i \in 1..Len(op[L].cases) : op[L].cases[i].dir = "send"
        /\ op[L].call = "select" /\ L \in WithContext => op[L].cases[Len(op[L].cases)] = Done

Inv == Typed /\ (\A L \in LStates : CasesFit(L)) /\ TakenIsReturned

-----------------------------------------------------------------------------
LEMMA InitInv == Init => Inv
<1> SUFFICES ASSUME Init PROVE Inv
  OBVIOUS
<1>1. \A ch \in Chans : Len(<<>>) <= Cap[ch]
  BY CapAssumption, EmptySeq
<1>2. Typed
  BY <1>1, SendsAssumption, EmptySeq DEF Init, Typed
<1>3. \A L \in LStates : CasesFit(L)
  BY DEF Init, CasesFit, IsBlocked, Running
<1> QED
  BY <1>2, <1>3 DEF Init, Inv, TakenIsReturned

(* The elements of s and e, at the end of s \o <<e>>.                      *)
LEMMA OneMore ==
  ASSUME NEW S, NEW s \in Seq(S), NEW e \in S
  PROVE  /\ s \o <<e>> \in Seq(S)
         /\ (s \o <<e>>)[Len(s \o <<e>>)] = e
<1>1. <<e>> \in Seq(S) /\ Len(<<e>>) = 1 /\ <<e>>[1] = e
  OBVIOUS
<1>2. Len(s) \in Nat
  BY LenProperties
<1> QED
  BY <1>1, <1>2, ConcatProperties

(* A step that lets calls return leaves the calls of all others as they    *)
(* are.                                                                    *)
LEMMA ReturnKeeps ==
  ASSUME Inv, NEW R \in SUBSET LStates, NEW results, Return(R, results)
  PROVE  /\ op' \in [LStates -> {Running, Stopped} \cup Calling]
         /\ \A L \in LStates : CasesFit(L)'
<1>1. op' \in [LStates -> {Running, Stopped} \cup Calling]
  BY DEF Inv, Typed, Return
<1>2. ASSUME NEW L \in LStates
      PROVE  CasesFit(L)'
  <2>1. CASE L \in R
    BY <2>1 DEF Return, CasesFit, IsBlocked, Running
  <2>2. CASE L \notin R
    <3>1. op'[L] = op[L]
      BY <2>2 DEF Return
    <3>2. CasesFit(L)
      BY DEF Inv
    <3> QED
      BY <3>1, <3>2 DEF CasesFit, IsBlocked
  <2> QED
    BY <2>1, <2>2
<1> QED
  BY <1>1, <1>2

(* What Lua code is given: the value of a case that received one.          *)
LEMMA ReceivedIsGiven ==
  ASSUME Inv, NEW L \in LStates, IsBlocked(L), NEW pos \in 1..Len(op[L].cases),
         op[L].cases[pos].dir = "recv", NEW v \in Values
  PROVE  Given(ResultOf(L, pos, v, TRUE)) = {v}
<1>1. op[L] \in Calling /\ CasesFit(L)
  BY DEF Inv, Typed, IsBlocked, Running, Stopped
<1>2. v # Nil
  BY NilAssumption
<1>3. CASE op[L].call = "receive"
  BY <1>2, <1>3 DEF ResultOf, ReceiveResult, Received, Given
<1>4. CASE op[L].call = "send"
  BY <1>1, <1>4 DEF CasesFit
<1>5. CASE op[L].call = "select"
  <2>1. ~ (L \in WithContext /\ pos = Len(op[L].cases))
    BY <1>1, <1>5 DEF CasesFit, Done
  <2>2. ResultOf(L, pos, v, TRUE) = Selected(pos, v, TRUE)
    BY <1>5, <2>1 DEF ResultOf, SelectResult
  <2>3. Given(Selected(pos, v, TRUE)) = {v} \ {Nil}
    BY DEF Selected, Given
  <2> QED
    BY <1>2, <2>2, <2>3
<1> QED
  BY <1>1, <1>3, <1>4, <1>5 DEF Calling

(* A case that received no value gives none.                               *)
LEMMA NothingIsGiven ==
  ASSUME Inv, NEW L \in LStates, IsBlocked(L), NEW pos \in 1..Len(op[L].cases)
  PROVE  Given(ResultOf(L, pos, Nil, FALSE)) = {}
<1>1. op[L] \in Calling
  BY DEF Inv, Typed, IsBlocked, Running, Stopped
<1>2. CASE op[L].call = "receive"
  BY <1>2 DEF ResultOf, ReceiveResult, Received, Given
<1>3. CASE op[L].call = "send"
  BY <1>3 DEF ResultOf, Nothing, Given
<1>4. CASE op[L].call = "select"
  BY <1>4 DEF ResultOf, SelectResult, Selected, Nothing, Given
<1> QED
  BY <1>1, <1>2, <1>3, <1>4 DEF Calling

-----------------------------------------------------------------------------
(* The calls Lua makes: what they wait for, and that they change nothing   *)
(* else.                                                                   *)
LEMMA CallsKeeps ==
  ASSUME Inv, NEW L \in LStates, NEW call \in {"receive", "send", "select"},
         NEW cases \in Seq(CasesOf(L)), Calls(L, call, cases),
         call = "receive" =>
            \E ch \in Chans : \A i \in 1..Len(cases) : cases[i] \in {Done, Recv(ch)},
         call = "send" => \A i \in 1..Len(cases) : cases[i].dir = "send",
         call = "select" /\ L \in WithContext => cases[Len(cases)] = Done,
         sends' \in [LStates -> 0..MaxSends]
  PROVE  Inv'
<1>1. cases \in Seq(Case)
  BY SeqMonotonic DEF CasesOf
<1>2. Blocked(call, cases) \in Calling
  BY <1>1 DEF Blocked, Calling
<1>3. op' \in [LStates -> {Running, Stopped} \cup Calling]
  BY <1>2 DEF Inv, Typed, Calls
<1>4. Typed'
  BY <1>3 DEF Inv, Typed, Calls
<1>5. ASSUME NEW M \in LStates
      PROVE  CasesFit(M)'
  <2>1. CASE M = L
    <3>1. op'[L] = Blocked(call, cases)
      BY DEF Inv, Typed, Calls
    <3>2. op'[L].cases = cases /\ op'[L].call = call
      BY <3>1 DEF Blocked
    <3> QED
      BY <2>1, <3>2 DEF CasesFit
  <2>2. CASE M # L
    <3>1. op'[M] = op[M]
      BY <2>2 DEF Inv, Typed, Calls
    <3> QED
      BY <3>1 DEF Inv, CasesFit, IsBlocked
  <2> QED
    BY <2>1, <2>2
<1> QED
  BY <1>4, <1>5 DEF Inv, TakenIsReturned, Calls

LEMMA RaisesKeeps ==
  ASSUME Inv, NEW L \in LStates, Raises(L), sends' \in [LStates -> 0..MaxSends]
  PROVE  Inv'
BY DEF Inv, Typed, Raises, CasesFit, IsBlocked, TakenIsReturned

LEMMA RecvCase ==
  ASSUME NEW L \in LStates, NEW ch \in Chans
  PROVE  Recv(ch) \in CasesOf(L) /\ Recv(ch).dir = "recv"
BY DEF Recv, CasesOf, Case, Done

LEMMA DoneCases ==
  ASSUME NEW L \in LStates
  PROVE  DoneCase(L) \in Seq(CasesOf(L)) /\ Done.dir = "done"
<1>1. CASE L \in WithContext
  <2>1. Done \in CasesOf(L)
    BY <1>1 DEF Done, CasesOf, Case
  <2> QED
    BY <1>1, <2>1 DEF DoneCase, Done
<1>2. CASE L \notin WithContext
  BY <1>2, EmptySeq DEF DoneCase, Done
<1> QED
  BY <1>1, <1>2

LEMMA SendCaseFits ==
  ASSUME NEW L \in LStates, NEW ch \in Chans, NEW v \in SafeValues
  PROVE  Send(ch, v) \in CasesOf(L) /\ Send(ch, v).dir = "send"
BY DEF Send, CasesOf, Case, Done, SafeValues

LEMMA NewIsValue ==
  ASSUME Inv, NEW L \in LStates, NEW safe \in BOOLEAN, sends[L] < MaxSends
  PROVE  /\ NewValue(L, safe) \in Values
         /\ SafeToSend(NewValue(L, safe)) => NewValue(L, safe) \in SafeValues
<1>1. sends[L] + 1 \in 1..MaxSends
  BY SendsAssumption DEF Inv, Typed
<1> QED
  BY <1>1 DEF NewValue, Values, SafeValues, SafeToSend

LEMMA CallReceiveKeeps ==
  ASSUME Inv, NEW L \in LStates, NEW ch \in Chans, CallReceive(L, ch)
  PROVE  Inv'
<1> DEFINE cases == ReceiveCases(L, ch)
<1>1. <<Recv(ch)>> \in Seq(CasesOf(L))
  BY RecvCase
<1>2. cases \in Seq(CasesOf(L))
  BY <1>1, DoneCases, ConcatProperties DEF ReceiveCases
<1>3. DoneCase(L) \in Seq({Done, Recv(ch)}) /\ <<Recv(ch)>> \in Seq({Done, Recv(ch)})
  <2> DEFINE d == Done
             r == Recv(ch)
  <2> HIDE DEF d, r
  <2>1. <<>> \in Seq({d, r}) /\ <<d>> \in Seq({d, r}) /\ <<r>> \in Seq({d, r})
    BY EmptySeq
  <2> QED
    BY <2>1 DEF DoneCase, d, r
<1>4. cases \in Seq({Done, Recv(ch)})
  BY <1>3, ConcatProperties DEF ReceiveCases
<1>5. \A i \in 1..Len(cases) : cases[i] \in {Done, Recv(ch)}
  BY <1>4, ElementOfSeq
<1>6. Calls(L, "receive", cases) /\ sends' \in [LStates -> 0..MaxSends]
  BY DEF CallReceive, Inv, Typed
<1> HIDE DEF cases
<1> QED
  BY <1>2, <1>5, <1>6, CallsKeeps

LEMMA CallSendKeeps ==
  ASSUME Inv, NEW L \in LStates, NEW ch \in Chans, NEW safe \in BOOLEAN, CallSend(L, ch, safe)
  PROVE  Inv'
<1> DEFINE v == NewValue(L, safe)
<1>1. sends' \in [LStates -> 0..MaxSends]
  BY SendsAssumption DEF CallSend, Inv, Typed
<1>2. CASE SafeWhenSent(v)
  <2>1. Calls(L, "send", SendCases(ch, v))
    BY <1>2 DEF CallSend
  <2>2. v \in SafeValues
    BY <1>2, NewIsValue DEF CallSend, SafeWhenSent
  <2>3. SendCases(ch, v) \in Seq(CasesOf(L))
    BY <2>2, SendCaseFits DEF SendCases
  <2>4. \A i \in 1..Len(SendCases(ch, v)) : SendCases(ch, v)[i].dir = "send"
    BY <2>2, SendCaseFits DEF SendCases
  <2> HIDE DEF v
  <2> QED
    BY <1>1, <2>1, <2>3, <2>4, CallsKeeps
<1>3. CASE ~SafeWhenSent(v)
  BY <1>1, <1>3, RaisesKeeps DEF CallSend
<1> QED
  BY <1>2, <1>3

(* Without a context a select waits for its cases alone; with one its last *)
(* case is Done.                                                           *)
LEMMA SelectCasesFit ==
  ASSUME NEW L \in LStates, NEW cases \in Seq(CasesOf(L))
  PROVE  /\ SelectCases(L, cases) \in Seq(CasesOf(L))
         /\ L \in WithContext =>
                SelectCases(L, cases)[Len(SelectCases(L, cases))] = Done
<1>1. SelectCases(L, cases) \in Seq(CasesOf(L))
  BY DoneCases, ConcatProperties DEF SelectCases
<1>2. ASSUME L \in WithContext
      PROVE  SelectCases(L, cases)[Len(SelectCases(L, cases))] = Done
  <2>1. Done \in CasesOf(L)
    BY <1>2 DEF Done, CasesOf, Case
  <2>2. SelectCases(L, cases) = cases \o <<Done>>
    BY <1>2 DEF SelectCases, DoneCase
  <2> HIDE DEF Done
  <2> QED
    BY <2>1, <2>2, OneMore
<1> QED
  BY <1>1, <1>2

LEMMA SomeChannel ==
  ASSUME NEW S \in AtMostOne, S # {}
  PROVE  (CHOOSE ch \in S : TRUE) \in Chans
BY DEF AtMostOne

LEMMA SelectSends ==
  ASSUME Inv, NEW L \in LStates, NEW sendsTo \in AtMostOne,
         sendsTo # {} => sends[L] < MaxSends
  PROVE  [sends EXCEPT ![L] = @ + Cardinality(sendsTo)] \in [LStates -> 0..MaxSends]
<1>1. CASE sendsTo = {}
  BY <1>1, FS_EmptySet, SendsAssumption DEF Inv, Typed
<1>2. CASE sendsTo # {}
  <2>1. Cardinality(sendsTo) = 1
    BY <1>2, FS_Singleton DEF AtMostOne
  <2> QED
    BY <1>2, <2>1, SendsAssumption DEF Inv, Typed
<1> QED
  BY <1>1, <1>2

LEMMA CallSelectKeeps ==
  ASSUME Inv, NEW L \in LStates, NEW receives \in AtMostOne, NEW sendsTo \in AtMostOne,
         NEW safe \in BOOLEAN, NEW default \in BOOLEAN,
         CallSelect(L, receives, sendsTo, safe, default)
  PROVE  Inv'
<1> DEFINE v == NewValue(L, safe)
           rs == IF receives = {} THEN <<>> ELSE <<Recv(CHOOSE ch \in receives : TRUE)>>
           ss == IF sendsTo = {} THEN <<>> ELSE <<Send(CHOOSE ch \in sendsTo : TRUE, v)>>
           ds == IF default THEN <<Default>> ELSE <<>>
           cases == rs \o ss \o ds
<1>1. sends' \in [LStates -> 0..MaxSends]
  BY SelectSends DEF CallSelect
<1>2. CASE sendsTo # {} => SafeWhenSelected(v)
  <2>1. Calls(L, "select", SelectCases(L, cases))
    BY <1>2 DEF CallSelect
  <2>2. rs \in Seq(CasesOf(L))
    BY SomeChannel, RecvCase, EmptySeq
  <2>3. sendsTo # {} => v \in SafeValues
    BY <1>2, NewIsValue DEF CallSelect, SafeWhenSelected
  <2>4. ss \in Seq(CasesOf(L))
    <3> HIDE DEF v
    <3> QED
      BY <2>3, SomeChannel, SendCaseFits, EmptySeq
  <2>5. ds \in Seq(CasesOf(L))
    <3>1. Default \in CasesOf(L)
      BY DEF Default, CasesOf, Case, Done
    <3> QED
      BY <3>1, EmptySeq
  <2> HIDE DEF rs, ss, ds
  <2>6. cases \in Seq(CasesOf(L))
    BY <2>2, <2>4, <2>5, ConcatProperties
  <2> HIDE DEF cases
  <2>7. /\ SelectCases(L, cases) \in Seq(CasesOf(L))
        /\ L \in WithContext =>
               SelectCases(L, cases)[Len(SelectCases(L, cases))] = Done
    BY <2>6, SelectCasesFit
  <2> QED
    BY <1>1, <2>1, <2>7, CallsKeeps
<1>3. CASE ~(sendsTo # {} => SafeWhenSelected(v))
  <2>1. Raises(L)
    BY <1>3 DEF CallSelect
  <2> QED
    BY <1>1, <2>1, RaisesKeeps
<1> QED
  BY <1>2, <1>3

LEMMA CallCloseKeeps ==
  ASSUME Inv, NEW L \in LStates, NEW ch \in Chans, CallClose(L, ch)
  PROVE  Inv'
<1>1. CASE ch \in closed
  BY <1>1, RaisesKeeps DEF CallClose, Inv, Typed
<1>2. CASE ch \notin closed
  BY <1>2 DEF CallClose, Inv, Typed, CasesFit, IsBlocked, TakenIsReturned
<1> QED
  BY <1>1, <1>2

-----------------------------------------------------------------------------
(* A blocked call returns.                                                 *)
LEMMA CaseAt ==
  ASSUME Inv, NEW L \in LStates, IsBlocked(L), NEW pos \in DOMAIN op[L].cases
  PROVE  pos \in 1..Len(op[L].cases) /\ op[L].cases[pos] \in CasesOf(L)
<1>1. op[L].cases \in Seq(CasesOf(L))
  BY DEF Inv, CasesFit
<1> QED
  BY <1>1, LenProperties, ElementOfSeq

LEMMA SendAt ==
  ASSUME Inv, NEW L \in LStates, IsBlocked(L), NEW pos \in DOMAIN op[L].cases,
         op[L].cases[pos].dir = "send"
  PROVE  op[L].cases[pos].ch \in Chans /\ op[L].cases[pos].v \in SafeValues
BY CaseAt DEF CasesOf, Case, Default, Done, SafeValues

LEMMA RecvAt ==
  ASSUME Inv, NEW L \in LStates, IsBlocked(L), NEW pos \in DOMAIN op[L].cases,
         op[L].cases[pos].dir = "recv"
  PROVE  op[L].cases[pos].ch \in Chans /\ op[L].cases[pos] = Recv(op[L].cases[pos].ch)
BY CaseAt DEF CasesOf, Case, Default, Done, Recv

LEMMA OneReturns ==
  ASSUME NEW L \in LStates, NEW r, Returns(L, r)
  PROVE  /\ Return({L}, [M \in {L} |-> r])
         /\ got' = got \cup Given(r)
         /\ result'[L] = r
BY DEF Returns, Return

LEMMA ReturnTyped ==
  ASSUME Inv, NEW R \in SUBSET LStates, NEW results, Return(R, results),
         buf' \in [Chans -> Seq(SafeValues)],
         \A ch \in Chans : Len(buf'[ch]) <= Cap[ch],
         taken' = got', got' \subseteq SafeValues
  PROVE  Inv'
<1>1. /\ op' \in [LStates -> {Running, Stopped} \cup Calling]
      /\ \A L \in LStates : CasesFit(L)'
  BY ReturnKeeps
<1>2. UNCHANGED <<closed, cancelled, sends>>
  BY DEF Return
<1>3. Typed'
  BY <1>1, <1>2 DEF Inv, Typed
<1> QED
  BY <1>1, <1>3 DEF Inv, TakenIsReturned

LEMMA OneReturnTyped ==
  ASSUME Inv, NEW L \in LStates, NEW r, Returns(L, r),
         buf' \in [Chans -> Seq(SafeValues)],
         \A ch \in Chans : Len(buf'[ch]) <= Cap[ch],
         taken' = got', got' \subseteq SafeValues
  PROVE  Inv'
<1> DEFINE R == {L}
           results == [M \in {L} |-> r]
<1>1. Return(R, results)
  BY OneReturns
<1>2. R \in SUBSET LStates
  OBVIOUS
<1> HIDE DEF R, results
<1> QED
  BY <1>1, <1>2, ReturnTyped, ZenonT(60)

LEMMA ReceiveBufferedKeeps ==
  ASSUME Inv, NEW L \in LStates, IsBlocked(L), NEW pos \in DOMAIN op[L].cases,
         ReceiveBuffered(L, pos)
  PROVE  Inv'
<1> DEFINE ch == op[L].cases[pos].ch
           v == Head(buf[ch])
           r == ResultOf(L, pos, v, TRUE)
<1>1. ch \in Chans /\ buf[ch] # <<>> /\ buf[ch] \in Seq(SafeValues)
  BY RecvAt DEF ReceiveBuffered, Inv, Typed
<1>2. /\ v \in SafeValues
      /\ Tail(buf[ch]) \in Seq(SafeValues)
      /\ Len(Tail(buf[ch])) = Len(buf[ch]) - 1
  BY <1>1, HeadTailProperties
<1>3. Given(r) = {v}
  BY <1>2, CaseAt, ReceivedIsGiven, ZenonT(60) DEF ReceiveBuffered, SafeValues
<1>4. Returns(L, r) /\ taken' = taken \cup {v} /\ buf' = [buf EXCEPT ![ch] = Tail(@)]
  BY DEF ReceiveBuffered
<1> HIDE DEF v, r
<1>5. got' = got \cup {v}
  BY <1>3, <1>4, OneReturns
<1>6. buf' \in [Chans -> Seq(SafeValues)] /\ \A c \in Chans : Len(buf'[c]) <= Cap[c]
  <2>1. Len(buf[ch]) \in Nat /\ Len(buf[ch]) <= Cap[ch] /\ Cap[ch] \in Nat
    BY <1>1, LenProperties, CapAssumption, SMTT(60) DEF Inv, Typed
  <2> HIDE DEF ch
  <2> QED
    BY <1>1, <1>2, <1>4, <2>1, SMTT(60) DEF Inv, Typed
<1>7. taken' = got' /\ got' \subseteq SafeValues
  BY <1>2, <1>4, <1>5 DEF Inv, Typed, TakenIsReturned
<1> QED
  BY <1>4, <1>6, <1>7, OneReturnTyped, ZenonT(60)

(* A return that gives nothing and changes no buffer.                      *)
LEMMA EmptyHandedKeeps ==
  ASSUME Inv, NEW L \in LStates, NEW r, Returns(L, r), Given(r) = {}, UNCHANGED <<buf, taken>>
  PROVE  Inv'
<1>1. got' = got
  BY OneReturns
<1> QED
  BY <1>1, OneReturns, ReturnTyped, ZenonT(60) DEF Inv, Typed, TakenIsReturned

LEMMA SendBufferedKeeps ==
  ASSUME Inv, NEW L \in LStates, IsBlocked(L), NEW pos \in DOMAIN op[L].cases,
         SendBuffered(L, pos)
  PROVE  Inv'
<1> DEFINE ch == op[L].cases[pos].ch
           v == op[L].cases[pos].v
           r == ResultOf(L, pos, Nil, FALSE)
<1>1. ch \in Chans /\ v \in SafeValues /\ buf[ch] \in Seq(SafeValues)
  BY SendAt DEF SendBuffered, Inv, Typed
<1>2. Given(r) = {}
  BY CaseAt, NothingIsGiven
<1>3. /\ Returns(L, r) /\ taken' = taken
      /\ buf' = [buf EXCEPT ![ch] = Append(@, v)]
      /\ Len(buf[ch]) < Cap[ch]
  BY DEF SendBuffered
<1> HIDE DEF ch, v, r
<1>4. got' = got
  BY <1>2, <1>3, OneReturns
<1>5. Append(buf[ch], v) \in Seq(SafeValues) /\ Len(Append(buf[ch], v)) = Len(buf[ch]) + 1
  BY <1>1, AppendProperties
<1>6. buf' \in [Chans -> Seq(SafeValues)] /\ \A c \in Chans : Len(buf'[c]) <= Cap[c]
  <2>1. Len(buf[ch]) \in Nat /\ Cap[ch] \in Nat
    BY <1>1, LenProperties, CapAssumption
  <2> QED
    BY <1>1, <1>3, <1>5, <2>1 DEF Inv, Typed
<1>7. taken' = got' /\ got' \subseteq SafeValues
  BY <1>3, <1>4 DEF Inv, Typed, TakenIsReturned
<1> QED
  BY <1>3, <1>6, <1>7, OneReturnTyped, ZenonT(60)

LEMMA RendezvousKeeps ==
  ASSUME Inv, NEW L \in LStates, IsBlocked(L), NEW pos \in DOMAIN op[L].cases,
         NEW M \in LStates, IsBlocked(M), NEW mpos \in DOMAIN op[M].cases,
         Rendezvous(L, pos, M, mpos)
  PROVE  Inv'
<1> DEFINE v == op[L].cases[pos].v
           sent == ResultOf(L, pos, Nil, FALSE)
           received == ResultOf(M, mpos, v, TRUE)
           results == [N \in {L, M} |-> IF N = L THEN sent ELSE received]
<1>1. v \in SafeValues /\ v \in Values
  BY SendAt DEF Rendezvous, SafeValues
<1>2. op[M].cases[mpos].dir = "recv"
  BY DEF Rendezvous, Recv
<1>3. Given(sent) = {} /\ Given(received) = {v}
  BY <1>1, <1>2, CaseAt, NothingIsGiven, ReceivedIsGiven, ZenonT(60)
<1>4. Return({L, M}, results) /\ taken' = taken \cup {v} /\ buf' = buf /\ L # M
  BY DEF Rendezvous
<1> HIDE DEF v, sent, received
<1>5. UNION {Given(results[N]) : N \in {L, M}} = {v}
  <2>1. results[L] = sent /\ results[M] = received
    BY <1>4
  <2> HIDE DEF results
  <2> QED
    BY <1>3, <2>1
<1> HIDE DEF results
<1>6. got' = got \cup {v}
  BY <1>4, <1>5 DEF Return
<1>7. taken' = got' /\ got' \subseteq SafeValues
  BY <1>1, <1>4, <1>6 DEF Inv, Typed, TakenIsReturned
<1> QED
  BY <1>4, <1>7, ReturnTyped DEF Inv, Typed

LEMMA ProceedsKeeps ==
  ASSUME Inv, NEW L \in LStates, Proceeds(L)
  PROVE  Inv'
<1>1. IsBlocked(L)
  BY DEF Proceeds
<1>2. PICK pos \in DOMAIN op[L].cases :
        \/ ReceiveBuffered(L, pos)
        \/ ReceiveClosed(L, pos)
        \/ SendBuffered(L, pos)
        \/ SendClosed(L, pos)
        \/ ContextDone(L, pos)
        \/ DefaultTaken(L, pos)
        \/ \E M \in LStates : IsBlocked(M) /\ \E mpos \in DOMAIN op[M].cases :
            Rendezvous(L, pos, M, mpos) \/ Rendezvous(M, mpos, L, pos)
  BY DEF Proceeds
<1>3. Given(ResultOf(L, pos, Nil, FALSE)) = {} /\ Given(Failed) = {}
  <2>1. Given(Failed) = {}
    BY DEF Given, Failed
  <2> QED
    BY <1>1, <2>1, CaseAt, NothingIsGiven
<1>4. CASE ReceiveBuffered(L, pos)
  BY <1>1, <1>4, ReceiveBufferedKeeps
<1>5. CASE ReceiveClosed(L, pos)
  BY <1>3, <1>5, EmptyHandedKeeps DEF ReceiveClosed
<1>6. CASE SendBuffered(L, pos)
  BY <1>1, <1>6, SendBufferedKeeps
<1>7. CASE SendClosed(L, pos)
  BY <1>3, <1>7, EmptyHandedKeeps DEF SendClosed
<1>8. CASE ContextDone(L, pos)
  BY <1>3, <1>8, EmptyHandedKeeps DEF ContextDone
<1>9. CASE DefaultTaken(L, pos)
  BY <1>3, <1>9, EmptyHandedKeeps DEF DefaultTaken
<1>10. CASE \E M \in LStates : IsBlocked(M) /\ \E mpos \in DOMAIN op[M].cases :
              Rendezvous(L, pos, M, mpos) \/ Rendezvous(M, mpos, L, pos)
  BY <1>1, <1>10, RendezvousKeeps
<1> QED
  BY <1>2, <1>4, <1>5, <1>6, <1>7, <1>8, <1>9, <1>10

LEMMA StepInv == Inv /\ [Next]_vars => Inv'
<1> SUFFICES ASSUME Inv, [Next]_vars PROVE Inv'
  OBVIOUS
<1>1. CASE UNCHANGED vars
  BY <1>1 DEF vars, Inv, Typed, CasesFit, IsBlocked, TakenIsReturned
<1>2. ASSUME NEW L \in LStates, NEW ch \in Chans, CallReceive(L, ch) PROVE Inv'
  BY <1>2, CallReceiveKeeps
<1>3. ASSUME NEW L \in LStates, NEW ch \in Chans, CallClose(L, ch) PROVE Inv'
  BY <1>3, CallCloseKeeps
<1>4. ASSUME NEW L \in LStates, NEW ch \in Chans, NEW safe \in BOOLEAN, CallSend(L, ch, safe)
      PROVE  Inv'
  BY <1>4, CallSendKeeps
<1>5. ASSUME NEW L \in LStates, NEW receives \in AtMostOne, NEW sendsTo \in AtMostOne,
             NEW safe \in BOOLEAN, NEW default \in BOOLEAN,
             CallSelect(L, receives, sendsTo, safe, default)
      PROVE  Inv'
  BY <1>5, CallSelectKeeps
<1>6. ASSUME NEW L \in LStates, Proceeds(L) PROVE Inv'
  BY <1>6, ProceedsKeeps
<1>7. ASSUME NEW L \in LStates, Cancel(L) PROVE Inv'
  BY <1>7 DEF Cancel, Inv, Typed, CasesFit, IsBlocked, TakenIsReturned
<1>8. ASSUME NEW L \in LStates, RaiseCancelled(L) PROVE Inv'
  <2>1. op' = [op EXCEPT ![L] = Stopped] /\ UNCHANGED <<buf, closed, cancelled, sends, taken, got>>
    BY <1>8 DEF RaiseCancelled
  <2>2. Typed'
    BY <2>1 DEF Inv, Typed
  <2>3. ASSUME NEW M \in LStates PROVE CasesFit(M)'
    BY <2>1 DEF Inv, Typed, CasesFit, IsBlocked, Stopped
  <2> QED
    BY <2>1, <2>2, <2>3 DEF Inv, TakenIsReturned
<1> QED
  BY <1>1, <1>2, <1>3, <1>4, <1>5, <1>6, <1>7, <1>8 DEF Next

-----------------------------------------------------------------------------
LEMMA InvHolds == Spec => []Inv
<1> QED
  BY InitInv, StepInv, PTL DEF Spec

LEMMA InvTypes == Inv => TypeOK
<1> SUFFICES ASSUME Inv PROVE TypeOK
  OBVIOUS
<1>1. SafeValues \subseteq Values
  BY DEF SafeValues
<1>2. \A ch \in Chans : buf[ch] \in Seq(Values) /\ Len(buf[ch]) <= Cap[ch]
  BY <1>1, SeqMonotonic DEF Inv, Typed
<1>3. ASSUME NEW L \in LStates, Waits(L, Done) PROVE L \in WithContext
  <2>1. PICK i \in DOMAIN op[L].cases : IsBlocked(L) /\ op[L].cases[i] = Done
    BY <1>3 DEF Waits
  <2> QED
    BY <2>1, CaseAt DEF CasesOf
<1> QED
  BY <1>1, <1>2, <1>3 DEF Inv, Typed, TypeOK, TakenIsReturned

LEMMA InvSafe == Inv => OnlySafeTravels
<1> SUFFICES ASSUME Inv PROVE OnlySafeTravels
  OBVIOUS
<1>1. ASSUME NEW ch \in Chans, NEW i \in DOMAIN buf[ch] PROVE buf[ch][i] \in SafeValues
  BY LenProperties, ElementOfSeq DEF Inv, Typed
<1> QED
  BY <1>1 DEF Inv, Typed, OnlySafeTravels, SafeValues

(* Whatever the calls, channels and contexts: the buffers stay within the  *)
(* sizes of channel.make, blocked calls wait for well-formed cases, and    *)
(* only LStates with a context wait for one (channellib.go).               *)
THEOREM TypeCorrect == Spec => []TypeOK
<1> QED
  BY InvHolds, InvTypes, PTL

(* Every value a receive or select took out of a channel reaches the Lua   *)
(* code that called it, also when the context of its LState is cancelled   *)
(* while the call returns (channelReceive, channelSelect).                 *)
THEOREM NothingLost == Spec => []TakenIsReturned
<1>1. Inv => TakenIsReturned
  BY DEF Inv
<1> QED
  BY <1>1, InvHolds, PTL

(* No value that isGoroutineSafe refuses gets into a channel's buffer or   *)
(* to another LState, sent by ch:send() or by channel.select.              *)
THEOREM OnlySafeLeaves == Spec => []OnlySafeTravels
<1> QED
  BY InvHolds, InvSafe, PTL

-----------------------------------------------------------------------------
(* ch:receive() waits for one channel, so the closed one a returned false  *)
(* speaks of is the channel it was called on.                              *)
LEMMA ReceiveWaitsForOne ==
  ASSUME Inv, NEW L \in LStates, IsBlocked(L), op[L].call = "receive",
         NEW pos \in DOMAIN op[L].cases
  PROVE  /\ op[L].cases[pos] = Done \/ op[L].cases[pos].dir = "recv"
         /\ op[L].cases[pos].dir = "recv" =>
                \A ch \in Chans : Waits(L, Recv(ch)) => ch = op[L].cases[pos].ch
<1>1. PICK c \in Chans : \A i \in 1..Len(op[L].cases) : op[L].cases[i] \in {Done, Recv(c)}
  BY DEF Inv, CasesFit
<1>2. \A i \in DOMAIN op[L].cases : op[L].cases[i] \in {Done, Recv(c)}
  BY <1>1, CaseAt
<1>3. \A ch \in Chans : Waits(L, Recv(ch)) => ch = c
  BY <1>2 DEF Waits, Recv, Done
<1>4. op[L].cases[pos].dir = "recv" => op[L].cases[pos].ch = c
  BY <1>2 DEF Recv, Done
<1> QED
  BY <1>2, <1>3, <1>4 DEF Recv

(* The steps of L's own call, the results of others' rendezvous apart.     *)
LEMMA FalseFromOwnStep ==
  ASSUME Inv, NEW L \in LStates, IsBlocked(L), op[L].call = "receive",
         NEW pos \in DOMAIN op[L].cases, ~result'[L].ok,
         \/ ReceiveBuffered(L, pos)
         \/ ReceiveClosed(L, pos)
         \/ SendBuffered(L, pos)
         \/ SendClosed(L, pos)
         \/ ContextDone(L, pos)
         \/ DefaultTaken(L, pos)
  PROVE  \/ L \in cancelled
         \/ \A ch \in Chans : Waits(L, Recv(ch)) => ch \in closed /\ buf[ch] = <<>>
<1>1. op[L].cases[pos].dir \in {"done", "recv"}
  BY ReceiveWaitsForOne DEF Done
<1>2. ~SendBuffered(L, pos) /\ ~SendClosed(L, pos) /\ ~DefaultTaken(L, pos)
  <2>1. ~SendBuffered(L, pos) /\ ~SendClosed(L, pos)
    BY <1>1 DEF SendBuffered, SendClosed
  <2>2. op[L].cases[pos] # Default
    BY <1>1, SMTT(60) DEF Default
  <2> QED
    BY <2>1, <2>2 DEF DefaultTaken
<1>3. ~ReceiveBuffered(L, pos)
  <2> DEFINE v == Head(buf[op[L].cases[pos].ch])
  <2>1. ResultOf(L, pos, v, TRUE).ok = TRUE
    BY DEF ResultOf, ReceiveResult, Received
  <2> HIDE DEF v
  <2>2. Returns(L, ResultOf(L, pos, v, TRUE)) => result'[L] = ResultOf(L, pos, v, TRUE)
    BY OneReturns
  <2> QED
    BY <2>1, <2>2 DEF ReceiveBuffered, v
<1>4. CASE ReceiveClosed(L, pos)
  BY <1>4, ReceiveWaitsForOne DEF ReceiveClosed
<1>5. CASE ContextDone(L, pos)
  BY <1>5 DEF ContextDone
<1> QED
  BY <1>2, <1>3, <1>4, <1>5

(* A rendezvous that ends a receive gives it a value.                      *)
LEMMA HandedOver ==
  ASSUME Inv, NEW L \in LStates, IsBlocked(L), op[L].call = "receive",
         NEW pos \in DOMAIN op[L].cases,
         NEW M \in LStates, NEW mpos \in DOMAIN op[M].cases,
         Rendezvous(M, mpos, L, pos)
  PROVE  result'[L].ok
<1> DEFINE v == op[M].cases[mpos].v
           r == ResultOf(L, pos, v, TRUE)
           sent == ResultOf(M, mpos, Nil, FALSE)
<1>1. r.ok = TRUE
  BY DEF ResultOf, ReceiveResult, Received
<1>2. Return({M, L}, [N \in {M, L} |-> IF N = M THEN sent ELSE r]) /\ L # M
  BY DEF Rendezvous
<1> HIDE DEF r, sent
<1>3. result'[L] = r
  BY <1>2 DEF Return
<1> QED
  BY <1>1, <1>3

(* Two LStates that meet are the only ones whose calls return.             *)
LEMMA OnlyTheTwo ==
  ASSUME NEW L \in LStates, NEW M \in LStates, NEW N \in LStates, NEW pos, NEW mpos,
         Rendezvous(M, mpos, N, pos), L \notin {M, N}
  PROVE  op'[L] = op[L]
BY DEF Rendezvous, Return

LEMMA OnlyTheOne ==
  ASSUME NEW L \in LStates, NEW M \in LStates, NEW r, Returns(M, r), L # M
  PROVE  op'[L] = op[L]
BY DEF Returns, Return

LEMMA FalseFromProceeds ==
  ASSUME Inv, NEW L \in LStates, IsBlocked(L), op[L].call = "receive", op'[L] = Running,
         ~result'[L].ok, NEW M \in LStates, Proceeds(M)
  PROVE  \/ L \in cancelled
         \/ \A ch \in Chans : Waits(L, Recv(ch)) => ch \in closed /\ buf[ch] = <<>>
<1>1. op'[L] # op[L]
  BY DEF IsBlocked, Running
<1>2. PICK pos \in DOMAIN op[M].cases :
        \/ ReceiveBuffered(M, pos)
        \/ ReceiveClosed(M, pos)
        \/ SendBuffered(M, pos)
        \/ SendClosed(M, pos)
        \/ ContextDone(M, pos)
        \/ DefaultTaken(M, pos)
        \/ \E N \in LStates : IsBlocked(N) /\ \E npos \in DOMAIN op[N].cases :
            Rendezvous(M, pos, N, npos) \/ Rendezvous(N, npos, M, pos)
  BY DEF Proceeds
<1>3. CASE \/ ReceiveBuffered(M, pos)
           \/ ReceiveClosed(M, pos)
           \/ SendBuffered(M, pos)
           \/ SendClosed(M, pos)
           \/ ContextDone(M, pos)
           \/ DefaultTaken(M, pos)
  <2>1. \E r : Returns(M, r)
    BY <1>3 DEF ReceiveBuffered, ReceiveClosed, SendBuffered, SendClosed, ContextDone, DefaultTaken
  <2>2. L = M
    BY <1>1, <2>1, OnlyTheOne
  <2>3. /\ pos \in DOMAIN op[L].cases
        /\ \/ ReceiveBuffered(L, pos)
           \/ ReceiveClosed(L, pos)
           \/ SendBuffered(L, pos)
           \/ SendClosed(L, pos)
           \/ ContextDone(L, pos)
           \/ DefaultTaken(L, pos)
    BY <1>3, <2>2
  <2> QED
    BY <2>3, FalseFromOwnStep, ZenonT(60)
<1>4. ASSUME NEW N \in LStates, IsBlocked(N), NEW npos \in DOMAIN op[N].cases,
             Rendezvous(M, pos, N, npos) \/ Rendezvous(N, npos, M, pos)
      PROVE  FALSE
  <2>1. IsBlocked(M) /\ L \in {M, N}
    BY <1>1, <1>4, OnlyTheTwo, SMTT(60) DEF Proceeds
  <2>2. ASSUME NEW i \in DOMAIN op[L].cases, NEW K \in LStates, NEW kpos,
               Rendezvous(L, i, K, kpos)
        PROVE  FALSE
    BY <2>2, ReceiveWaitsForOne DEF Rendezvous, Done
  <2> QED
    BY <1>4, <2>1, <2>2, HandedOver
<1> QED
  BY <1>2, <1>3, <1>4

LEMMA FalseStep ==
  ASSUME Inv, [Next]_vars, NEW L \in LStates, IsBlocked(L), op[L].call = "receive",
         op'[L] = Running, ~result'[L].ok
  PROVE  \/ L \in cancelled
         \/ \A ch \in Chans : Waits(L, Recv(ch)) => ch \in closed /\ buf[ch] = <<>>
<1>1. op'[L] # op[L] /\ op[L] # Running
  BY DEF IsBlocked, Running
<1>2. CASE \E M \in LStates : Proceeds(M)
  BY <1>2, FalseFromProceeds
<1>3. ASSUME NEW M \in LStates, op[M] = Running, NEW new, op' = [op EXCEPT ![M] = new]
      PROVE  FALSE
  BY <1>1, <1>3 DEF Inv, Typed
<1>4. ASSUME NEW M \in LStates, CanCall(M), (\E c, cs : Calls(M, c, cs)) \/ Raises(M)
      PROVE  FALSE
  BY <1>1, <1>3, <1>4 DEF CanCall, Calls, Raises
<1>5. ~ \E M \in LStates, ch \in Chans : CallReceive(M, ch)
  BY <1>4 DEF CallReceive
<1>6. ~ \E M \in LStates, ch \in Chans : CallClose(M, ch)
  BY <1>1, <1>4 DEF CallClose
<1>7. ~ \E M \in LStates, ch \in Chans, safe \in BOOLEAN : CallSend(M, ch, safe)
  BY <1>4 DEF CallSend
<1>8. ~ \E M \in LStates, receives, sendsTo \in AtMostOne, safe, default \in BOOLEAN :
            CallSelect(M, receives, sendsTo, safe, default)
  BY <1>4, ZenonT(60) DEF CallSelect
<1>9. ~ \E M \in LStates : Cancel(M)
  BY <1>1 DEF Cancel
<1>10. ~ \E M \in LStates : RaiseCancelled(M)
  BY <1>3 DEF RaiseCancelled
<1>11. ~ UNCHANGED vars
  BY <1>1 DEF vars
<1> QED
  BY <1>2, <1>5, <1>6, <1>7, <1>8, <1>9, <1>10, <1>11 DEF Next

(* A false returned by ch:receive() means that the channel is closed and   *)
(* drained, or that the context of the caller was cancelled.               *)
THEOREM FalseOnlyWhenOver == Spec => FalseMeansOver
<1>1. Inv /\ [Next]_vars =>
        [\A L \in LStates :
            IsBlocked(L) /\ op[L].call = "receive" /\ op'[L] = Running /\ ~result'[L].ok =>
                \/ L \in cancelled
                \/ \A ch \in Chans : Waits(L, Recv(ch)) => ch \in closed /\ buf[ch] = <<>>]_vars
  BY FalseStep
<1> QED
  BY <1>1, InvHolds, PTL DEF Spec, FalseMeansOver

=============================================================================
