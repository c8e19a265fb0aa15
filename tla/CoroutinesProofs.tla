-------------------------- MODULE CoroutinesProofs --------------------------
(***************************************************************************)
(* The threads of a Lua state, for any number of threads, any depth of     *)
(* calls and of resumes, and hosts and scripts that keep to what the       *)
(* constant Habits leaves out.  The Go activations form a chain in which   *)
(* every activation stands on the frames of the one below it (Chained and  *)
(* Framed, about a sequence g of activations and the frames s of threads); *)
(* Parent, Dead and CurrentThread follow the chain (Status).               *)
(***************************************************************************)
EXTENDS Coroutines, Integers, SequenceTheorems, WellFoundedInduction, TLAPS

\* The first n elements of a sequence.
LEMMA PrefixProperties ==
  ASSUME NEW S, NEW s \in Seq(S), NEW n \in 0 .. Len(s)
  PROVE  /\ SubSeq(s, 1, n) \in Seq(S)
         /\ Len(SubSeq(s, 1, n)) = n
         /\ \A i \in 1 .. n : SubSeq(s, 1, n)[i] = s[i]
<1>1. Len(s) \in Nat /\ n \in Nat /\ \A i \in 1 .. n : s[i] \in S
  BY LenProperties, ElementOfSeq
<1> QED
  BY <1>1, SubSeqProperties

\* Every set of natural numbers has a least element.
LEMMA SmallestExists ==
  ASSUME NEW T, T \subseteq Nat, T # {}
  PROVE  \E x \in T : \A y \in T : x <= y
<1> DEFINE R == OpToRel(<, Nat)
<1>1. IsWellFoundedOn(R, Nat)
  BY NatLessThanWellFounded
<1>2. \A x, y \in Nat : x < y => <<x, y>> \in R
  BY DEF OpToRel
<1> HIDE DEF R
<1>3. PICK x \in T : \A y \in T : ~ (<<y, x>> \in R)
  BY ONLY <1>1, T \subseteq Nat, T # {}, WFMin, ZenonT(60)
<1>4. \A y \in T : ~ (y < x)
  BY <1>2, <1>3, Zenon
<1> QED
  BY <1>4

\* Yields do not cross Go functions, nothing resumes what waits for a Resume, the
\* first function of a thread is a Lua function, and the libraries are opened.
Orderly == Habits \subseteq {"tailYield"}

\* The same, but that programs may resume what waits for a Resume.
MayNest == Habits \subseteq {"tailYield", "resumeNormal"}

\* Somebody resumes co, which has resumed another thread and waits for it.
ResumesWaiting(co) ==
  /\ co # Executing /\ OnGoStack(co)
  /\ \E t \in Threads, kind \in Kinds : Resume(t, co, kind)

Activation ==
  [kind : {"mainLoop"}, th : Threads, base : Nat]
    \cup [kind : {"GFunction"}, th : Threads, via : {"OP_CALL", "OP_TAILCALL", "mainLoop"},
          at : Nat \ {0}]
    \cup [kind : {"PCall"}, th : Threads, sp : Nat]
    \cup [kind : {"Resume"}, th : Threads, co : Threads, got : {"nothing", "true", "false"}]

Stacks == [Threads -> Seq(Kinds)]

IsResume(a) == a.kind = "Resume"

\* The thread that runs above a.
RunsAbove(a) == IF IsResume(a) THEN a.co ELSE a.th

\* b may be called by a.
Follows(a, b) ==
  /\ b.th = RunsAbove(a)
  /\ IsResume(a) => b.kind = "mainLoop" /\ b.base = 0
  /\ b.kind \in {"PCall", "Resume"} => a.kind = "GFunction"
  /\ b.kind = "GFunction" /\ b.via # "mainLoop" => a.kind = "mainLoop"

FromHost(g) == g # <<>> => g[1].th = Main /\ g[1].kind \in {"PCall", "Resume"}

AllFollow(g) == \A i, k \in 1 .. Len(g) : k = i + 1 => Follows(g[i], g[k])

\* Above a Resume the thread that waits in it does not run.
WaitersWait(g) == \A i, k \in 1 .. Len(g) : i < k /\ IsResume(g[i]) => g[k].th # g[i].th

\* A thread with activations below those of another one waits in a Resume.
OthersResumed(g) ==
  \A i, k \in 1 .. Len(g) : g[i].th # g[k].th /\ i < k =>
    \E j \in i .. k - 1 : IsResume(g[j]) /\ g[j].th = g[i].th

\* No thread is resumed that has activations.
ResumedFresh(g) == \A i, k \in 1 .. Len(g) : i <= k /\ IsResume(g[k]) => g[k].co # g[i].th

\* The threads with activations are Main and those that were resumed.
Resumed(g) ==
  \A k \in 1 .. Len(g) :
    g[k].th = Main \/ \E j \in 1 .. Len(g) : j < k /\ IsResume(g[j]) /\ g[j].co = g[k].th

Chained(g) ==
  FromHost(g) /\ AllFollow(g) /\ WaitersWait(g) /\ OthersResumed(g) /\ ResumedFresh(g)
    /\ Resumed(g)

-----------------------------------------------------------------------------
\* Activations and their fields.
LEMMA ActivationTypes ==
  ASSUME NEW a \in Activation
  PROVE  /\ a.th \in Threads
         /\ a.kind \in {"mainLoop", "GFunction", "PCall", "Resume"}
         /\ a.kind = "mainLoop" => a.base \in Nat
         /\ a.kind = "GFunction" => /\ a.at \in Nat \ {0}
                                    /\ a.via \in {"OP_CALL", "OP_TAILCALL", "mainLoop"}
         /\ a.kind = "PCall" => a.sp \in Nat
         /\ a.kind = "Resume" => /\ a.co \in Threads
                                 /\ a.got \in {"nothing", "true", "false"}
BY DEF Activation

LEMMA MadeLoop ==
  ASSUME NEW t \in Threads, NEW n \in Nat
  PROVE  /\ Loop(t, n) \in Activation
         /\ Loop(t, n).kind = "mainLoop" /\ Loop(t, n).th = t /\ Loop(t, n).base = n
BY DEF Loop, Activation

LEMMA MadeGFn ==
  ASSUME NEW t \in Threads, NEW via \in {"OP_CALL", "OP_TAILCALL", "mainLoop"}, NEW n \in Nat \ {0}
  PROVE  /\ GFn(t, via, n) \in Activation
         /\ GFn(t, via, n).kind = "GFunction" /\ GFn(t, via, n).th = t
         /\ GFn(t, via, n).at = n /\ GFn(t, via, n).via = via
BY DEF GFn, Activation

LEMMA MadeProtected ==
  ASSUME NEW t \in Threads, NEW n \in Nat
  PROVE  /\ Protected(t, n) \in Activation
         /\ Protected(t, n).kind = "PCall" /\ Protected(t, n).th = t /\ Protected(t, n).sp = n
BY DEF Protected, Activation

LEMMA MadeResuming ==
  ASSUME NEW t \in Threads, NEW co \in Threads
  PROVE  /\ Resuming(t, co) \in Activation
         /\ Resuming(t, co).kind = "Resume" /\ Resuming(t, co).th = t
         /\ Resuming(t, co).co = co /\ Resuming(t, co).got = "nothing"
BY DEF Resuming, Activation

\* A Resume that received its flag.
LEMMA GotFlag ==
  ASSUME NEW a \in Activation, IsResume(a), NEW flag \in {"nothing", "true", "false"}
  PROVE  /\ [a EXCEPT !.got = flag] \in Activation
         /\ IsResume([a EXCEPT !.got = flag])
         /\ [a EXCEPT !.got = flag].th = a.th
         /\ [a EXCEPT !.got = flag].co = a.co
         /\ [a EXCEPT !.got = flag].got = flag
<1>1. a \in [kind : {"Resume"}, th : Threads, co : Threads, got : {"nothing", "true", "false"}]
  BY DEF Activation, IsResume
<1> QED
  BY <1>1 DEF Activation, IsResume

\* The same activation, but for the flag of a Resume.
Alike(a, b) ==
  /\ a.kind = b.kind /\ a.th = b.th
  /\ IF IsResume(a) THEN a.co = b.co ELSE a = b

-----------------------------------------------------------------------------
\* When the Go stack unwinds, what is left is a chain.
LEMMA PrefixChained ==
  ASSUME NEW g \in Seq(Activation), NEW h \in Seq(Activation), Chained(g), Len(h) <= Len(g),
         \A i \in 1 .. Len(h) : Alike(h[i], g[i])
  PROVE  Chained(h)
<1> DEFINE m == Len(h)
<1>1. m \in Nat /\ Len(g) \in Nat /\ \A i \in 1 .. m : i \in 1 .. Len(g)
  BY LenProperties
<1>2. \A i \in 1 .. m : /\ h[i].th = g[i].th /\ h[i].kind = g[i].kind
                        /\ IsResume(h[i]) <=> IsResume(g[i])
                        /\ IsResume(g[i]) => h[i].co = g[i].co
                        /\ ~IsResume(g[i]) => h[i] = g[i]
  BY DEF Alike, IsResume
<1> HIDE DEF m
<1>3. FromHost(h)
  <2>1. h # <<>> => 1 \in 1 .. m /\ g # <<>>
    BY <1>1, EmptySeq DEF m
  <2> QED
    BY <1>2, <2>1 DEF Chained, FromHost
<1>4. AllFollow(h)
  <2> SUFFICES ASSUME NEW i \in 1 .. m, NEW k \in 1 .. m, k = i + 1
               PROVE  Follows(h[i], h[k])
    BY DEF AllFollow, m
  <2>1. Follows(g[i], g[k])
    BY <1>1 DEF Chained, AllFollow
  <2>2. RunsAbove(h[i]) = RunsAbove(g[i])
    BY <1>2 DEF RunsAbove
  <2>3. ~IsResume(g[k]) => h[k] = g[k]
    BY <1>2
  <2> QED
    BY <1>2, <2>1, <2>2, <2>3 DEF Follows, IsResume
<1>5. WaitersWait(h)
  BY <1>1, <1>2 DEF Chained, WaitersWait, m
<1>6. OthersResumed(h)
  <2> SUFFICES ASSUME NEW i \in 1 .. m, NEW k \in 1 .. m, h[i].th # h[k].th, i < k
               PROVE  \E j \in i .. k - 1 : IsResume(h[j]) /\ h[j].th = h[i].th
    BY DEF OthersResumed, m
  <2>1. PICK j \in i .. k - 1 : IsResume(g[j]) /\ g[j].th = g[i].th
    BY <1>1, <1>2 DEF Chained, OthersResumed
  <2>2. j \in 1 .. m
    BY <1>1
  <2> QED
    BY <1>2, <2>1, <2>2
<1>7. ResumedFresh(h)
  BY <1>1, <1>2 DEF Chained, ResumedFresh, m
<1>8. Resumed(h)
  <2> SUFFICES ASSUME NEW k \in 1 .. m, h[k].th # Main
               PROVE  \E j \in 1 .. m : j < k /\ IsResume(h[j]) /\ h[j].co = h[k].th
    BY DEF Resumed, m
  <2>1. PICK j \in 1 .. Len(g) : j < k /\ IsResume(g[j]) /\ g[j].co = g[k].th
    BY <1>1, <1>2 DEF Chained, Resumed
  <2>2. j \in 1 .. m
    BY <1>1, <2>1
  <2> QED
    BY <1>2, <2>1, <2>2
<1> QED
  BY <1>3, <1>4, <1>5, <1>6, <1>7, <1>8 DEF Chained

\* A call, a PCall or a Resume adds a link.
LEMMA PushChained ==
  ASSUME NEW g \in Seq(Activation), NEW a \in Activation, Chained(g), g # <<>>,
         Follows(g[Len(g)], a),
         IsResume(a) => a.co # a.th /\ \A i \in 1 .. Len(g) : a.co # g[i].th
  PROVE  Chained(Append(g, a))
<1> DEFINE n == Len(g)
           h == Append(g, a)
           t == g[n]
<1>1. /\ n \in Nat \ {0} /\ h \in Seq(Activation) /\ Len(h) = n + 1 /\ h[n + 1] = a
      /\ \A i \in 1 .. n : h[i] = g[i]
      /\ h # <<>>
  BY AppendProperties, EmptySeq
<1>2. \A i \in 1 .. n + 1 : i \in 1 .. n \/ i = n + 1
  BY <1>1
<1>3. n \in 1 .. n /\ 1 \in 1 .. n
  BY <1>1
<1> HIDE DEF n, h
<1>4. a.th = RunsAbove(t)
  BY DEF Follows, n
<1>5. FromHost(h)
  BY <1>1, <1>3 DEF Chained, FromHost
<1>6. AllFollow(h)
  <2> SUFFICES ASSUME NEW i \in 1 .. n + 1, NEW k \in 1 .. n + 1, k = i + 1
               PROVE  Follows(h[i], h[k])
    BY <1>1 DEF AllFollow
  <2>1. CASE k \in 1 .. n
    <3>1. i \in 1 .. n
      BY <1>1, <2>1
    <3> QED
      BY <1>1, <2>1, <3>1 DEF Chained, AllFollow, n
  <2>2. CASE k = n + 1
    <3>1. i = n
      BY <1>1, <2>2
    <3> QED
      BY <1>1, <1>3, <2>2, <3>1 DEF n
  <2> QED
    BY <1>2, <2>1, <2>2
<1>7. \A i \in 1 .. n : IsResume(g[i]) => a.th # g[i].th
  <2> SUFFICES ASSUME NEW i \in 1 .. n, IsResume(g[i])
               PROVE  a.th # g[i].th
    OBVIOUS
  <2>1. CASE IsResume(t)
    BY <1>1, <1>3, <1>4, <2>1 DEF RunsAbove, Chained, ResumedFresh, n
  <2>2. CASE ~IsResume(t)
    <3>1. i < n /\ a.th = t.th
      BY <1>1, <1>4, <2>2 DEF RunsAbove
    <3> QED
      BY <1>3, <3>1 DEF Chained, WaitersWait, n
  <2> QED
    BY <2>1, <2>2
<1>8. WaitersWait(h)
  <2> SUFFICES ASSUME NEW i \in 1 .. n + 1, NEW k \in 1 .. n + 1, i < k, IsResume(h[i])
               PROVE  h[k].th # h[i].th
    BY <1>1 DEF WaitersWait
  <2>1. i \in 1 .. n
    BY <1>1
  <2>2. CASE k \in 1 .. n
    BY <1>1, <2>1, <2>2 DEF Chained, WaitersWait, n
  <2>3. CASE k = n + 1
    BY <1>1, <1>7, <2>1, <2>3
  <2> QED
    BY <1>2, <2>2, <2>3
<1>9. OthersResumed(h)
  <2> SUFFICES ASSUME NEW i \in 1 .. n + 1, NEW k \in 1 .. n + 1, h[i].th # h[k].th, i < k
               PROVE  \E j \in i .. k - 1 : IsResume(h[j]) /\ h[j].th = h[i].th
    BY <1>1 DEF OthersResumed
  <2>1. i \in 1 .. n
    BY <1>1
  <2>2. CASE k \in 1 .. n
    <3>1. PICK j \in i .. k - 1 : IsResume(g[j]) /\ g[j].th = g[i].th
      BY <1>1, <2>1, <2>2 DEF Chained, OthersResumed, n
    <3>2. j \in 1 .. n
      BY <1>1, <2>2
    <3> QED
      BY <1>1, <2>1, <3>1, <3>2
  <2>3. CASE k = n + 1 /\ g[i].th = t.th
    <3>1. IsResume(t)
      BY <1>1, <1>4, <2>1, <2>3 DEF RunsAbove
    <3>2. n \in i .. k - 1
      BY <1>1, <2>1, <2>3
    <3> QED
      BY <1>1, <1>3, <2>1, <2>3, <3>1, <3>2
  <2>4. CASE k = n + 1 /\ g[i].th # t.th
    <3>1. i < n
      BY <1>1, <2>1, <2>4
    <3>2. PICK j \in i .. n - 1 : IsResume(g[j]) /\ g[j].th = g[i].th
      BY <1>3, <2>1, <2>4, <3>1 DEF Chained, OthersResumed, n
    <3>3. j \in 1 .. n /\ j \in i .. k - 1
      BY <1>1, <2>4
    <3> QED
      BY <1>1, <2>1, <3>2, <3>3
  <2> QED
    BY <1>2, <2>2, <2>3, <2>4
<1>10. ResumedFresh(h)
  <2> SUFFICES ASSUME NEW i \in 1 .. n + 1, NEW k \in 1 .. n + 1, i <= k, IsResume(h[k])
               PROVE  h[k].co # h[i].th
    BY <1>1 DEF ResumedFresh
  <2>1. CASE k \in 1 .. n
    <3>1. i \in 1 .. n
      BY <1>1, <2>1
    <3> QED
      BY <1>1, <2>1, <3>1 DEF Chained, ResumedFresh, n
  <2>2. CASE k = n + 1
    BY <1>1, <1>2, <2>2 DEF n
  <2> QED
    BY <1>2, <2>1, <2>2
<1>11. Resumed(h)
  <2> SUFFICES ASSUME NEW k \in 1 .. n + 1, h[k].th # Main
               PROVE  \E j \in 1 .. n + 1 : j < k /\ IsResume(h[j]) /\ h[j].co = h[k].th
    BY <1>1 DEF Resumed
  <2>1. \A j \in 1 .. n : j \in 1 .. n + 1 /\ j < n + 1
    BY <1>1
  <2>2. CASE k \in 1 .. n
    <3>1. PICK j \in 1 .. n : j < k /\ IsResume(g[j]) /\ g[j].co = g[k].th
      BY <1>1, <2>2 DEF Chained, Resumed, n
    <3> QED
      BY <1>1, <2>1, <2>2, <3>1
  <2>3. CASE k = n + 1 /\ IsResume(t)
    BY <1>1, <1>3, <1>4, <2>1, <2>3 DEF RunsAbove
  <2>4. CASE k = n + 1 /\ ~IsResume(t)
    <3>1. h[k].th = t.th
      BY <1>1, <1>4, <2>4 DEF RunsAbove
    <3>2. PICK j \in 1 .. n : j < n /\ IsResume(g[j]) /\ g[j].co = t.th
      BY <1>3, <3>1 DEF Chained, Resumed, n
    <3> QED
      BY <1>1, <2>1, <2>4, <3>1, <3>2
  <2> QED
    BY <1>2, <2>2, <2>3, <2>4
<1> QED
  BY <1>5, <1>6, <1>8, <1>9, <1>10, <1>11 DEF Chained, h

\* What the host does first.
LEMMA StartChained ==
  ASSUME NEW a \in Activation, a.th = Main, a.kind \in {"PCall", "Resume"},
         IsResume(a) => a.co # Main
  PROVE  Chained(<<a>>)
<1>1. Len(<<a>>) = 1 /\ <<a>>[1] = a /\ \A i \in 1 .. 1 : i = 1
  OBVIOUS
<1> QED
  BY <1>1 DEF Chained, FromHost, AllFollow, WaitersWait, OthersResumed, ResumedFresh, Resumed

-----------------------------------------------------------------------------
\* The frames of its thread below an activation.
Low(a, s) ==
  IF a.kind = "PCall" THEN a.sp
  ELSE IF a.kind = "mainLoop" THEN (IF a.base = 0 THEN 0 ELSE a.base - 1)
  ELSE IF a.kind = "GFunction" THEN a.at - 1
  ELSE Len(s[a.th])

\* The frames of its thread that are not of activations above it.
Up(g, s, i) ==
  IF i = Len(g) \/ IsResume(g[i]) THEN Len(s[g[i].th]) ELSE Low(g[i + 1], s)

\* A PCall has no frame, a mainLoop the Lua frames from its base on, a Go function one.
Owns(a, s, up) ==
  /\ a.kind = "PCall" => a.sp = up
  /\ a.kind = "mainLoop" => /\ Low(a, s) < up
                            /\ \A j \in Low(a, s) + 1 .. up : s[a.th][j] = "Lua"
  /\ a.kind = "GFunction" => a.at = up /\ s[a.th][a.at] = "G"

AllOwn(g, s) == \A i \in 1 .. Len(g) : Owns(g[i], s, Up(g, s, i))

\* The frames of a thread's activations are in the order of the Go stack.
Rising(g, s) ==
  \A i, k \in 1 .. Len(g) : i < k /\ g[i].th = g[k].th => Up(g, s, i) <= Low(g[k], s)

Grounded(g, s) == IF g = <<>> THEN Len(s[Main]) = 0 ELSE Low(g[1], s) = 0

Framed(g, s) == AllOwn(g, s) /\ Rising(g, s) /\ Grounded(g, s)

LEMMA LowTypes ==
  ASSUME NEW a \in Activation, NEW s \in Stacks
  PROVE  /\ Low(a, s) \in Nat /\ Len(s[a.th]) \in Nat
         /\ a.kind = "mainLoop" /\ a.base = 0 => Low(a, s) = 0
BY ActivationTypes DEF Low, Stacks

LEMMA UpTypes ==
  ASSUME NEW g \in Seq(Activation), NEW s \in Stacks, NEW i \in 1 .. Len(g)
  PROVE  Up(g, s, i) \in Nat
<1>1. i = Len(g) \/ i + 1 \in 1 .. Len(g)
  BY LenProperties
<1> QED
  BY <1>1, LowTypes, ElementOfSeq DEF Up

\* What an activation owns is above what is below it.
LEMMA OwnedIsAbove ==
  ASSUME NEW a \in Activation, NEW s \in Stacks, NEW up \in Nat, Owns(a, s, up), ~IsResume(a)
  PROVE  Low(a, s) <= up
BY ActivationTypes, LowTypes DEF Owns, Low, IsResume

\* Only the frames of the same thread matter.
LEMMA OwnsKept ==
  ASSUME NEW a \in Activation, NEW s \in Stacks, NEW r \in Stacks, NEW up \in Nat,
         Owns(a, s, up), \A j \in 1 .. up : r[a.th][j] = s[a.th][j],
         IsResume(a) => Len(r[a.th]) = Len(s[a.th])
  PROVE  Owns(a, r, up) /\ Low(a, r) = Low(a, s)
<1>1. Low(a, r) = Low(a, s) /\ Low(a, s) \in Nat
  BY LowTypes, ActivationTypes DEF Low, IsResume
<1>2. ASSUME a.kind = "mainLoop"
      PROVE  \A j \in Low(a, r) + 1 .. up : r[a.th][j] = "Lua"
  BY <1>1, <1>2 DEF Owns
<1>3. ASSUME a.kind = "GFunction"
      PROVE  r[a.th][a.at] = "G"
  <2>1. a.at \in 1 .. up
    BY <1>3, ActivationTypes DEF Owns
  <2> QED
    BY <1>3, <2>1 DEF Owns
<1> QED
  BY <1>1, <1>2, <1>3 DEF Owns

LEMMA AlikeSame ==
  ASSUME NEW a, NEW b, Alike(b, a), NEW s \in Stacks, NEW up, a \in Activation
  PROVE  Low(b, s) = Low(a, s) /\ (Owns(a, s, up) => Owns(b, s, up)) /\ b.th = a.th
         /\ (IsResume(b) <=> IsResume(a))
<1>1. CASE IsResume(b)
  BY <1>1 DEF Alike, IsResume, Low, Owns
<1>2. CASE ~IsResume(b)
  BY <1>2 DEF Alike
<1> QED
  BY <1>1, <1>2

\* The Go stack unwinds to its m-th activation; the frames of threads that still
\* have activations stay, but for those the m-th itself had.
LEMMA PrefixFramed ==
  ASSUME NEW g \in Seq(Activation), NEW h \in Seq(Activation), Chained(g),
         NEW s \in Stacks, NEW r \in Stacks, Framed(g, s),
         NEW m \in 1 .. Len(g), Len(h) = m,
         \A i \in 1 .. m : Alike(h[i], g[i]),
         \A i \in 1 .. m : g[i].th # g[m].th => r[g[i].th] = s[g[i].th],
         \A j \in 1 .. Low(g[m], s) : r[g[m].th][j] = s[g[m].th][j],
         IsResume(g[m]) => r[g[m].th] = s[g[m].th],
         Owns(g[m], r, Len(r[g[m].th]))
  PROVE  Framed(h, r)
<1>1. /\ m \in Nat \ {0} /\ Len(g) \in Nat /\ \A i \in 1 .. m : i \in 1 .. Len(g)
      /\ \A i \in 1 .. m : i < m => i + 1 \in 1 .. m
      /\ 1 \in 1 .. m /\ m \in 1 .. m
  BY LenProperties
<1>2. \A i \in 1 .. m : g[i] \in Activation /\ h[i] \in Activation
  BY <1>1, ElementOfSeq
<1>3. ASSUME NEW i \in 1 .. m, i < m, IsResume(g[i])
      PROVE  r[g[i].th] = s[g[i].th]
  <2>1. g[m].th # g[i].th
    BY <1>1, <1>3 DEF Chained, WaitersWait
  <2> QED
    BY <2>1
<1>4. ASSUME NEW i \in 1 .. m
      PROVE  /\ h[i].th = g[i].th /\ (IsResume(h[i]) <=> IsResume(g[i]))
             /\ Low(h[i], r) = Low(g[i], r) /\ Low(g[i], r) = Low(g[i], s)
  <2>1. IsResume(g[i]) => r[g[i].th] = s[g[i].th]
    <3>1. CASE i = m
      BY <3>1
    <3>2. CASE i # m
      BY <1>1, <1>3, <3>2
    <3> QED
      BY <3>1, <3>2
  <2>2. Low(g[i], r) = Low(g[i], s)
    BY <1>2, <2>1, ActivationTypes DEF Low, IsResume
  <2> QED
    BY <1>2, <2>2, AlikeSame
<1>5. ASSUME NEW i \in 1 .. m, i < m
      PROVE  Up(h, r, i) = Up(g, s, i)
  <2>1. i # Len(g) /\ i # Len(h)
    BY <1>1, <1>5
  <2>2. CASE IsResume(g[i])
    BY <1>3, <1>4, <1>5, <2>2 DEF Up
  <2>3. CASE ~IsResume(g[i])
    BY <1>1, <1>4, <1>5, <2>1, <2>3 DEF Up
  <2> QED
    BY <2>2, <2>3
<1>6. Up(h, r, m) = Len(r[g[m].th])
  BY <1>1, <1>4 DEF Up
<1>7. AllOwn(h, r)
  <2> SUFFICES ASSUME NEW i \in 1 .. m
               PROVE  Owns(h[i], r, Up(h, r, i))
    BY DEF AllOwn
  <2>1. CASE i = m
    BY <1>1, <1>2, <1>6, <2>1, AlikeSame
  <2>2. CASE i # m
    <3> DEFINE u == Up(g, s, i)
    <3>1. i < m /\ u \in Nat /\ Owns(g[i], s, u)
      BY <1>1, <2>2, UpTypes DEF Framed, AllOwn
    <3>2. \A j \in 1 .. u : r[g[i].th][j] = s[g[i].th][j]
      <4>1. CASE g[i].th = g[m].th
        <5>1. u <= Low(g[m], s) /\ Low(g[m], s) \in Nat
          BY <1>1, <1>2, <3>1, <4>1, LowTypes DEF Framed, Rising
        <5> QED
          BY <3>1, <4>1, <5>1
      <4>2. CASE g[i].th # g[m].th
        BY <4>2
      <4> QED
        BY <4>1, <4>2
    <3>3. IsResume(g[i]) => Len(r[g[i].th]) = Len(s[g[i].th])
      BY <1>3, <3>1
    <3> HIDE DEF u
    <3>4. Owns(g[i], r, u)
      BY <1>2, <3>1, <3>2, <3>3, OwnsKept
    <3>5. Owns(h[i], r, u)
      BY <1>2, <3>4, AlikeSame
    <3> QED
      BY <1>5, <3>1, <3>5 DEF u
  <2> QED
    BY <2>1, <2>2
<1>8. Rising(h, r)
  <2> SUFFICES ASSUME NEW i \in 1 .. m, NEW k \in 1 .. m, i < k, h[i].th = h[k].th
               PROVE  Up(h, r, i) <= Low(h[k], r)
    BY DEF Rising
  <2>1. i < m
    BY <1>1
  <2> QED
    BY <1>1, <1>4, <1>5, <2>1 DEF Framed, Rising
<1>9. Grounded(h, r)
  <2>1. g # <<>> /\ h # <<>>
    BY <1>1
  <2> QED
    BY <1>1, <1>4, <2>1 DEF Framed, Grounded
<1> QED
  BY <1>7, <1>8, <1>9 DEF Framed

\* An activation is added, on the frames of its thread there are.
LEMMA PushFramed ==
  ASSUME NEW g \in Seq(Activation), NEW a \in Activation, Chained(g), g # <<>>,
         Chained(Append(g, a)), NEW s \in Stacks, NEW r \in Stacks, Framed(g, s),
         \A t \in Threads : t # a.th => r[t] = s[t],
         IF IsResume(g[Len(g)]) THEN Low(a, r) = 0
         ELSE /\ Low(a, r) = Len(s[a.th])
              /\ \A j \in 1 .. Len(s[a.th]) : r[a.th][j] = s[a.th][j],
         Owns(a, r, Len(r[a.th]))
  PROVE  Framed(Append(g, a), r)
<1> DEFINE n == Len(g)
           h == Append(g, a)
<1>1. /\ n \in Nat \ {0} /\ h \in Seq(Activation) /\ Len(h) = n + 1 /\ h[n + 1] = a
      /\ \A i \in 1 .. n : h[i] = g[i]
      /\ h # <<>>
  BY AppendProperties, EmptySeq
<1>2. /\ \A i \in 1 .. n + 1 : i \in 1 .. n \/ i = n + 1
      /\ \A i \in 1 .. n : i \in 1 .. n + 1 /\ i < n + 1 /\ (i < n => i + 1 \in 1 .. n)
      /\ n \in 1 .. n /\ 1 \in 1 .. n
  BY <1>1
<1>3. \A i \in 1 .. n : g[i] \in Activation /\ g[i].th \in Threads
  BY ElementOfSeq, ActivationTypes
<1>4. a.th = RunsAbove(g[n]) /\ Len(s[a.th]) \in Nat
  <2>1. Follows(h[n], h[n + 1])
    BY <1>1, <1>2 DEF Chained, AllFollow
  <2> QED
    BY <1>1, <1>2, <2>1, LowTypes DEF Follows
<1> HIDE DEF n, h
<1>5. ASSUME NEW i \in 1 .. n, IsResume(g[i])
      PROVE  r[g[i].th] = s[g[i].th]
  <2>1. a.th # g[i].th
    BY <1>1, <1>2, <1>5 DEF Chained, WaitersWait, h
  <2> QED
    BY <1>3, <2>1
<1>6. ASSUME NEW i \in 1 .. n
      PROVE  Low(h[i], r) = Low(g[i], s)
  BY <1>1, <1>3, <1>5, ActivationTypes DEF Low, IsResume
<1>7. ASSUME NEW i \in 1 .. n
      PROVE  Up(h, r, i) = Up(g, s, i)
  <2>1. i # n + 1 /\ Len(h) = n + 1 /\ h[i] = g[i]
    BY <1>1, <1>2
  <2>2. CASE IsResume(g[i])
    BY <1>5, <2>1, <2>2 DEF Up
  <2>3. CASE ~IsResume(g[i]) /\ i = n
    <3>1. a.th = g[n].th /\ Low(a, r) = Len(s[a.th])
      BY <1>4, <2>3 DEF RunsAbove, n
    <3> QED
      BY <1>1, <2>1, <2>3, <3>1 DEF Up, n
  <2>4. CASE ~IsResume(g[i]) /\ i # n
    <3>1. i < n /\ i + 1 \in 1 .. n
      BY <1>1, <1>2, <2>4
    <3> QED
      BY <1>1, <1>6, <2>1, <2>4, <3>1 DEF Up, n
  <2> QED
    BY <2>2, <2>3, <2>4
<1>8. Up(h, r, n + 1) = Len(r[a.th])
  BY <1>1 DEF Up
<1>9. ASSUME NEW i \in 1 .. n, g[i].th = a.th
      PROVE  ~IsResume(g[n]) /\ Up(g, s, i) <= Len(s[a.th])
  <2>1. ~IsResume(g[n])
    <3>1. ASSUME IsResume(g[n])
          PROVE  FALSE
      <4>1. a.th = g[n].co
        BY <1>4, <3>1 DEF RunsAbove
      <4>2. g[n].co # g[i].th
        BY <1>1, <1>2, <3>1 DEF Chained, ResumedFresh, n
      <4> QED
        BY <1>9, <4>1, <4>2
    <3> QED
      BY <3>1
  <2>2. a.th = g[n].th
    BY <1>4, <2>1 DEF RunsAbove
  <2>3. CASE i = n
    BY <1>4, <2>1, <2>2, <2>3 DEF Up, n
  <2>4. CASE i # n
    <3>1. Up(g, s, i) <= Low(g[n], s)
      BY <1>1, <1>2, <1>9, <2>2, <2>4 DEF Framed, Rising, n
    <3>2. Up(g, s, n) = Len(s[a.th])
      BY <2>2 DEF Up, n
    <3>3. Low(g[n], s) <= Len(s[a.th])
      BY <1>2, <1>3, <1>4, <2>1, <3>2, OwnedIsAbove DEF Framed, AllOwn, n
    <3>4. Low(g[n], s) \in Nat /\ Up(g, s, i) \in Nat
      BY <1>2, <1>3, LowTypes, UpTypes DEF n
    <3> QED
      BY <1>4, <2>1, <3>1, <3>3, <3>4
  <2> QED
    BY <2>1, <2>3, <2>4
<1>10. AllOwn(h, r)
  <2> SUFFICES ASSUME NEW i \in 1 .. n + 1
               PROVE  Owns(h[i], r, Up(h, r, i))
    BY <1>1 DEF AllOwn
  <2>1. CASE i = n + 1
    BY <1>1, <1>8, <2>1
  <2>2. CASE i \in 1 .. n
    <3> DEFINE u == Up(g, s, i)
    <3>1. u \in Nat /\ Owns(g[i], s, u)
      BY <2>2, UpTypes DEF Framed, AllOwn, n
    <3>2. \A j \in 1 .. u : r[g[i].th][j] = s[g[i].th][j]
      <4>1. CASE g[i].th = a.th
        <5>1. ~IsResume(g[n]) /\ u <= Len(s[a.th])
          BY <1>9, <2>2, <4>1
        <5> QED
          BY <1>4, <3>1, <4>1, <5>1 DEF n
      <4>2. CASE g[i].th # a.th
        BY <1>3, <2>2, <4>2
      <4> QED
        BY <4>1, <4>2
    <3>3. IsResume(g[i]) => Len(r[g[i].th]) = Len(s[g[i].th])
      BY <1>5, <2>2
    <3> HIDE DEF u
    <3>4. Owns(g[i], r, u)
      BY <1>3, <2>2, <3>1, <3>2, <3>3, OwnsKept
    <3> QED
      BY <1>1, <1>7, <2>2, <3>4 DEF u
  <2> QED
    BY <1>2, <2>1, <2>2
<1>11. Rising(h, r)
  <2> SUFFICES ASSUME NEW i \in 1 .. n + 1, NEW k \in 1 .. n + 1, i < k, h[i].th = h[k].th
               PROVE  Up(h, r, i) <= Low(h[k], r)
    BY <1>1 DEF Rising
  <2>1. i \in 1 .. n
    BY <1>1
  <2>2. CASE k \in 1 .. n
    BY <1>1, <1>6, <1>7, <2>1, <2>2 DEF Framed, Rising, n
  <2>3. CASE k = n + 1
    <3>1. g[i].th = a.th
      BY <1>1, <2>1, <2>3
    <3>2. ~IsResume(g[n]) /\ Up(g, s, i) <= Len(s[a.th])
      BY <1>9, <2>1, <3>1
    <3>3. Low(a, r) = Len(s[a.th])
      BY <3>2 DEF n
    <3> QED
      BY <1>1, <1>7, <2>1, <2>3, <3>2, <3>3
  <2> QED
    BY <1>2, <2>2, <2>3
<1>12. Grounded(h, r)
  <2>1. h[1] = g[1]
    BY <1>1, <1>2
  <2> QED
    BY <1>1, <1>2, <1>6, <2>1 DEF Framed, Grounded
<1> QED
  BY <1>10, <1>11, <1>12 DEF Framed, h

LEMMA StartFramed ==
  ASSUME NEW a \in Activation, NEW s \in Stacks, Low(a, s) = 0,
         Owns(a, s, Len(s[a.th]))
  PROVE  Framed(<<a>>, s)
<1>1. Len(<<a>>) = 1 /\ <<a>>[1] = a /\ \A i \in 1 .. 1 : i = 1
  OBVIOUS
<1> QED
  BY <1>1 DEF Framed, AllOwn, Rising, Grounded, Up

\* Frames of threads without activations do not matter.
LEMMA IdleFramed ==
  ASSUME NEW g \in Seq(Activation), NEW s \in Stacks, NEW r \in Stacks, Framed(g, s),
         r[Main] = s[Main], \A i \in 1 .. Len(g) : r[g[i].th] = s[g[i].th]
  PROVE  Framed(g, r)
<1>1. /\ Len(g) \in Nat /\ \A i \in 1 .. Len(g) : g[i] \in Activation
      /\ \A i \in 1 .. Len(g) : i # Len(g) => i + 1 \in 1 .. Len(g)
      /\ g # <<>> => 1 \in 1 .. Len(g)
  BY LenProperties, EmptySeq, ElementOfSeq
<1>2. \A i \in 1 .. Len(g) : Low(g[i], r) = Low(g[i], s)
  BY DEF Low
<1>3. \A i \in 1 .. Len(g) : Up(g, r, i) = Up(g, s, i)
  BY <1>1, <1>2 DEF Up
<1>4. AllOwn(g, r)
  BY <1>2, <1>3 DEF Framed, AllOwn, Owns
<1>5. Rising(g, r) /\ Grounded(g, r)
  BY <1>1, <1>2, <1>3 DEF Framed, Rising, Grounded
<1> QED
  BY <1>4, <1>5 DEF Framed

-----------------------------------------------------------------------------
\* t has Go activations and is not waiting to be resumed.
Active(g, t) ==
  t = Main \/ \E i \in 1 .. Len(g) : i < Len(g) /\ IsResume(g[i]) /\ g[i].co = t

AllLua(fs) == \A j \in 1 .. Len(fs) : fs[j] = "Lua"

Typed ==
  /\ go \in Seq(Activation)
  /\ stack \in Stacks
  /\ \A t \in Threads : Depth(t) <= MaxDepth
  /\ currentFrame \in [Threads -> 0 .. MaxDepth]
  /\ Parent \in [Threads -> Threads \cup {None}]
  /\ Dead \in [Threads -> BOOLEAN]
  /\ begun \subseteq Threads

\* Threads that run or wait are alive; the others wait for nobody and, when they
\* may be resumed, go on in a Lua function.
ThreadsFit ==
  \A t \in Threads :
    /\ Active(go, t) => ~Dead[t]
    /\ ~Active(go, t) => Parent[t] = None /\ (Dead[t] \/ AllLua(stack[t]))
    /\ ~Dead[t] => currentFrame[t] = Depth(t)

\* A Resume in progress is who its thread gives control back to; one that was
\* given control back has its flag and is on top.
ResumesFit ==
  \A i \in 1 .. Len(go) : IsResume(go[i]) =>
    IF i < Len(go) THEN go[i].got = "nothing" /\ Parent[go[i].co] = go[i].th
    ELSE go[i].got # "nothing"

Status ==
  /\ ThreadsFit /\ ResumesFit
  /\ Parent[Main] = None /\ MainThread = Main /\ CurrentThread = Executing

IInv == Typed /\ Chained(go) /\ Framed(go, stack) /\ Status

-----------------------------------------------------------------------------
\* The thread of the activation on top.
LEMMA TopFacts ==
  ASSUME IInv, go # <<>>
  PROVE  /\ Len(go) \in Nat \ {0} /\ Len(go) \in 1 .. Len(go)
         /\ Top \in Activation /\ Top.th \in Threads /\ Executing = Top.th
         /\ Active(go, Top.th) /\ ~Dead[Top.th]
         /\ stack[Top.th] \in Seq(Kinds) /\ Depth(Top.th) \in Nat
         /\ currentFrame[Top.th] = Depth(Top.th)
         /\ Owns(Top, stack, Depth(Top.th))
         /\ Low(Top, stack) \in Nat
<1>1. Len(go) \in Nat \ {0} /\ Len(go) \in 1 .. Len(go)
  BY LenProperties, EmptySeq DEF IInv, Typed
<1>2. Top \in Activation /\ Top.th \in Threads /\ Executing = Top.th
  BY <1>1, ElementOfSeq, ActivationTypes DEF IInv, Typed, Top, Executing
<1>3. Active(go, Top.th)
  BY <1>1 DEF IInv, Chained, Resumed, Active, Top
<1>4. ~Dead[Top.th] /\ currentFrame[Top.th] = Depth(Top.th)
  BY <1>2, <1>3 DEF IInv, Status, ThreadsFit
<1>5. stack[Top.th] \in Seq(Kinds) /\ Depth(Top.th) \in Nat
  BY <1>2, LenProperties DEF IInv, Typed, Stacks, Depth
<1>6. Owns(Top, stack, Depth(Top.th))
  BY <1>1 DEF IInv, Framed, AllOwn, Up, Top, Depth
<1>7. Low(Top, stack) \in Nat
  BY <1>2, LowTypes DEF IInv, Typed
<1> QED
  BY <1>1, <1>2, <1>3, <1>4, <1>5, <1>6, <1>7

LEMMA LoopOnTop ==
  ASSUME IInv, Running("mainLoop")
  PROVE  /\ go # <<>> /\ Depth(Top.th) \in Nat \ {0} /\ Kind(Top.th) = "Lua"
         /\ Low(Top, stack) < Depth(Top.th)
         /\ \A j \in Low(Top, stack) + 1 .. Depth(Top.th) : stack[Top.th][j] = "Lua"
         /\ Top.base \in Nat
<1>1. go # <<>> /\ Top.kind = "mainLoop"
  BY DEF Running
<1>2. /\ Low(Top, stack) \in Nat /\ Depth(Top.th) \in Nat /\ Low(Top, stack) < Depth(Top.th)
      /\ \A j \in Low(Top, stack) + 1 .. Depth(Top.th) : stack[Top.th][j] = "Lua"
  BY <1>1, TopFacts DEF Owns
<1>3. currentFrame[Top.th] = Depth(Top.th)
  BY <1>1, TopFacts
<1>4. Top.base \in Nat
  BY <1>1, TopFacts, ActivationTypes
<1> QED
  BY <1>1, <1>2, <1>3, <1>4 DEF Kind

LEMMA GoOnTop ==
  ASSUME IInv, Running("GFunction")
  PROVE  /\ go # <<>> /\ Depth(Top.th) \in Nat \ {0} /\ Kind(Top.th) = "G"
         /\ Top.at = Depth(Top.th) /\ Low(Top, stack) = Depth(Top.th) - 1
         /\ Top.via \in {"OP_CALL", "OP_TAILCALL", "mainLoop"}
<1>1. go # <<>> /\ Top.kind = "GFunction"
  BY DEF Running
<1>2. Top.at \in Nat \ {0} /\ Top.via \in {"OP_CALL", "OP_TAILCALL", "mainLoop"}
  BY <1>1, TopFacts, ActivationTypes
<1>3. Top.at = Depth(Top.th) /\ stack[Top.th][Top.at] = "G"
  BY <1>1, TopFacts DEF Owns
<1>4. currentFrame[Top.th] = Depth(Top.th)
  BY <1>1, TopFacts
<1> QED
  BY <1>1, <1>2, <1>3, <1>4 DEF Kind, Low

\* The activation below the one on top.
LEMMA BelowTop ==
  ASSUME IInv, NEW i \in 1 .. Len(go), NEW k \in 1 .. Len(go), k = i + 1
  PROVE  /\ go[i] \in Activation /\ go[k] \in Activation
         /\ Follows(go[i], go[k])
         /\ ~IsResume(go[i]) => Owns(go[i], stack, Low(go[k], stack))
         /\ IsResume(go[i]) => Parent[go[k].th] = go[i].th /\ Parent[go[k].th] # None
<1>1. i < Len(go) /\ Len(go) \in Nat /\ i + 1 = k /\ i # Len(go)
  BY LenProperties DEF IInv, Typed
<1>2. go[i] \in Activation /\ go[k] \in Activation /\ Follows(go[i], go[k])
  BY ElementOfSeq DEF IInv, Typed, Chained, AllFollow
<1>3. ~IsResume(go[i]) => Owns(go[i], stack, Low(go[k], stack))
  BY <1>1 DEF IInv, Framed, AllOwn, Up
<1>4. ASSUME IsResume(go[i])
      PROVE  Parent[go[k].th] = go[i].th /\ Parent[go[k].th] # None
  <2>1. go[k].th = go[i].co /\ go[i].th \in Threads
    BY <1>2, <1>4, ActivationTypes DEF Follows, RunsAbove
  <2>2. Parent[go[i].co] = go[i].th
    BY <1>1, <1>4 DEF IInv, Status, ResumesFit
  <2>3. None \notin Threads
    BY CoroutinesAssumption DEF CoroutinesAssumption, Threads
  <2> QED
    BY <2>1, <2>2, <2>3
<1> QED
  BY <1>2, <1>3, <1>4

\* A mainLoop that has all the frames of its thread was entered by a Resume or
\* by the host.
LEMMA FirstLoop ==
  ASSUME IInv, NEW i \in 1 .. Len(go), NEW k \in 1 .. Len(go), k = i + 1,
         Low(go[k], stack) = 0, ~IsResume(go[i])
  PROVE  go[k].th = Main /\ go[i].kind = "PCall"
<1>1. go[i] \in Activation /\ Follows(go[i], go[k]) /\ Owns(go[i], stack, 0)
  BY BelowTop
<1>2. Low(go[i], stack) \in Nat
  BY <1>1, LowTypes DEF IInv, Typed
<1>3. go[i].kind = "PCall" /\ go[i].sp = 0
  BY <1>1, <1>2, ActivationTypes DEF Owns, IsResume
<1>4. CASE i = 1
  <2>1. go # <<>>
    BY LenProperties DEF IInv, Typed
  <2> QED
    BY <1>1, <1>3, <1>4, <2>1 DEF IInv, Chained, FromHost, Follows, RunsAbove, IsResume
<1>5. CASE i # 1
  <2>1. PICK j \in 1 .. Len(go) : i = j + 1
    <3>1. i - 1 \in 1 .. Len(go) /\ i = (i - 1) + 1
      BY <1>5, LenProperties DEF IInv, Typed
    <3> QED
      BY <3>1
  <2>2. go[j] \in Activation /\ go[j].kind = "GFunction"
    BY <1>3, <2>1, BelowTop DEF Follows
  <2>3. Owns(go[j], stack, Low(go[i], stack))
    BY <2>1, <2>2, BelowTop DEF IsResume
  <2>4. Low(go[i], stack) = 0
    BY <1>3 DEF Low
  <2> QED
    BY <2>2, <2>3, <2>4, ActivationTypes DEF Owns
<1> QED
  BY <1>4, <1>5

-----------------------------------------------------------------------------
\* The same Resumes, none of them on top.
SameResumes(g, h) ==
  /\ \A i \in 1 .. Len(h) : IsResume(h[i]) =>
       i < Len(h) /\ i \in 1 .. Len(g) /\ i < Len(g) /\ h[i] = g[i]
  /\ \A i \in 1 .. Len(g) : IsResume(g[i]) =>
       i < Len(g) /\ i \in 1 .. Len(h) /\ i < Len(h) /\ h[i] = g[i]

LEMMA SameActive ==
  ASSUME NEW g, NEW h, SameResumes(g, h), NEW t
  PROVE  Active(g, t) <=> Active(h, t)
BY DEF SameResumes, Active

LEMMA PushSame ==
  ASSUME NEW g \in Seq(Activation), NEW a \in Activation, ~IsResume(a),
         g # <<>> => ~IsResume(g[Len(g)])
  PROVE  SameResumes(g, Append(g, a))
<1>1. /\ Len(g) \in Nat /\ Len(Append(g, a)) = Len(g) + 1
      /\ Append(g, a)[Len(g) + 1] = a
      /\ \A i \in 1 .. Len(g) : Append(g, a)[i] = g[i]
  BY AppendProperties, LenProperties
<1>2. \A i \in 1 .. Len(g) : IsResume(g[i]) => i < Len(g)
  BY <1>1
<1>3. \A i \in 1 .. Len(g) + 1 : i \in 1 .. Len(g) \/ i = Len(g) + 1
  BY <1>1
<1> QED
  BY <1>1, <1>2, <1>3 DEF SameResumes

LEMMA SameTwice ==
  ASSUME NEW g, NEW h, NEW k, SameResumes(g, h), SameResumes(h, k)
  PROVE  SameResumes(g, k)
BY DEF SameResumes

LEMMA CutSame ==
  ASSUME NEW g \in Seq(Activation), NEW h \in Seq(Activation), NEW m \in 0 .. Len(g),
         Len(h) = m, \A i \in 1 .. m : h[i] = g[i],
         \A i \in 1 .. Len(g) : m <= i => ~IsResume(g[i])
  PROVE  SameResumes(g, h)
<1>1. Len(g) \in Nat /\ m \in Nat
  BY LenProperties
<1>2. \A i \in 1 .. Len(g) : IsResume(g[i]) => i < m /\ i \in 1 .. m /\ i < Len(g)
  BY <1>1
<1>3. \A i \in 1 .. m : i \in 1 .. Len(g)
  BY <1>1
<1> QED
  BY <1>1, <1>2, <1>3 DEF SameResumes

\* The running thread goes on: it calls, returns, fails inside of a PCall.
Goes(t) ==
  /\ t \in Threads /\ Active(go, t)
  /\ UNCHANGED <<Parent, Dead, CurrentThread>>
  /\ SameResumes(go, go')
  /\ begun' \subseteq begun \cup {t}
  /\ \A x \in Threads : x # t /\ stack[x] # <<>> => stack'[x] # <<>>

LEMMA GoesInv ==
  ASSUME IInv, NEW t \in Threads, t = Executing, Active(go, t),
         NEW fs \in Seq(Kinds), Len(fs) <= MaxDepth, SetFrames(t, fs),
         UNCHANGED <<Parent, Dead, MainThread, CurrentThread>>,
         begun' \subseteq begun \cup {t},
         go' \in Seq(Activation), Chained(go'), Framed(go', stack'),
         SameResumes(go, go'), Executing' = t
  PROVE  IInv' /\ Goes(t)
<1>1. /\ stack' \in Stacks /\ stack'[t] = fs
      /\ \A x \in Threads : x # t => stack'[x] = stack[x] /\ currentFrame'[x] = currentFrame[x]
      /\ currentFrame'[t] = Len(fs)
      /\ currentFrame' \in [Threads -> 0 .. MaxDepth]
  <2>1. Len(fs) \in 0 .. MaxDepth
    BY LenProperties, CoroutinesAssumption DEF CoroutinesAssumption
  <2> QED
    BY <2>1 DEF IInv, Typed, Stacks, SetFrames
<1>2. Typed'
  BY <1>1 DEF IInv, Typed, Depth
<1>3. ThreadsFit'
  <2> SUFFICES ASSUME NEW x \in Threads
               PROVE  /\ Active(go', x) => ~Dead'[x]
                      /\ ~Active(go', x) => Parent'[x] = None /\ (Dead'[x] \/ AllLua(stack'[x]))
                      /\ ~Dead'[x] => currentFrame'[x] = Len(stack'[x])
    BY DEF ThreadsFit, Depth
  <2>1. Active(go, x) <=> Active(go', x)
    BY SameActive
  <2>2. x # t => stack'[x] = stack[x] /\ currentFrame'[x] = currentFrame[x]
    BY <1>1
  <2> QED
    BY <1>1, <2>1, <2>2 DEF IInv, Status, ThreadsFit, Depth
<1>4. ResumesFit'
  BY DEF IInv, Status, ResumesFit, SameResumes
<1>5. Status'
  BY <1>3, <1>4 DEF IInv, Status
<1>6. \A x \in Threads : x # t /\ stack[x] # <<>> => stack'[x] # <<>>
  BY <1>1
<1> QED
  BY <1>2, <1>5, <1>6 DEF IInv, Goes

-----------------------------------------------------------------------------
LEMMA FrontProperties ==
  ASSUME NEW S, NEW s \in Seq(S), s # <<>>
  PROVE  /\ Len(s) \in Nat \ {0} /\ Len(s) - 1 \in 0 .. Len(s)
         /\ Front(s) = SubSeq(s, 1, Len(s) - 1)
         /\ Front(s) \in Seq(S) /\ Len(Front(s)) = Len(s) - 1
         /\ \A i \in 1 .. Len(s) - 1 : Front(s)[i] = s[i]
<1>1. Len(s) \in Nat \ {0}
  BY LenProperties, EmptySeq
<1>2. Len(s) - 1 \in 0 .. Len(s)
  BY <1>1
<1> QED
  BY <1>1, <1>2, PrefixProperties DEF Front

\* The frames of t become fs.
Reframed(t, fs) == fs \in Seq(Kinds) /\ Len(fs) <= MaxDepth /\ SetFrames(t, fs)

LEMMA ReframedStacks ==
  ASSUME IInv, NEW t \in Threads, NEW fs, Reframed(t, fs)
  PROVE  /\ stack \in Stacks /\ stack' \in Stacks /\ stack'[t] = fs
         /\ \A x \in Threads : x # t => stack'[x] = stack[x]
BY DEF IInv, Typed, Stacks, Reframed, SetFrames

\* The Go stack unwinds to its first m activations.
UnwindsTo(m) == go' \in Seq(Activation) /\ Len(go') = m /\ \A i \in 1 .. m : go'[i] = go[i]

NoResumeFrom(m) == \A i \in 1 .. Len(go) : m <= i => ~IsResume(go[i])

\* No thread was resumed since.
LEMMA SameThread ==
  ASSUME IInv, go # <<>>, NEW m \in 1 .. Len(go), NoResumeFrom(m)
  PROVE  go[m].th = Top.th
<1>1. Len(go) \in Nat \ {0} /\ Len(go) \in 1 .. Len(go)
  BY TopFacts
<1> SUFFICES ASSUME go[m].th # Top.th
             PROVE  FALSE
  OBVIOUS
<1>2. m < Len(go)
  BY <1>1 DEF Top
<1>3. PICK j \in m .. Len(go) - 1 : IsResume(go[j]) /\ go[j].th = go[m].th
  BY <1>1, <1>2 DEF IInv, Chained, OthersResumed, Top
<1> QED
  BY <1>1, <1>3 DEF NoResumeFrom

\* What is common to calls, returns and errors inside of a PCall.
Stays == UNCHANGED <<Parent, Dead, MainThread, CurrentThread>> /\ begun' \subseteq begun \cup {Executing}

\* Returns and errors.
LEMMA Unwinds ==
  ASSUME IInv, go # <<>>, NEW m \in 1 .. Len(go), NoResumeFrom(m), UnwindsTo(m), Stays,
         NEW fs, Reframed(Top.th, fs),
         \A j \in 1 .. Low(go[m], stack) : fs[j] = stack[Top.th][j],
         Owns(go[m], stack', Len(fs))
  PROVE  IInv' /\ Goes(Top.th)
<1> DEFINE t == Top.th
<1>1. /\ Len(go) \in Nat \ {0} /\ t \in Threads /\ t = Executing /\ Active(go, t)
      /\ go \in Seq(Activation) /\ m \in Nat \ {0}
  BY TopFacts DEF IInv, Typed
<1>2. go[m].th = t /\ ~IsResume(go[m])
  BY <1>1, SameThread DEF NoResumeFrom
<1>3. /\ stack \in Stacks /\ stack' \in Stacks /\ stack'[t] = fs
      /\ \A x \in Threads : x # t => stack'[x] = stack[x]
  BY <1>1, ReframedStacks
<1>4. go' \in Seq(Activation) /\ Len(go') = m /\ \A i \in 1 .. m : Alike(go'[i], go[i])
  BY DEF UnwindsTo, Alike
<1>5. Chained(go')
  BY <1>1, <1>4, PrefixChained DEF IInv
<1>6. Framed(go', stack')
  <2>1. \A i \in 1 .. m : go[i].th \in Threads
    BY <1>1, ElementOfSeq, ActivationTypes
  <2>2. Chained(go) /\ Framed(go, stack)
    BY DEF IInv
  <2>3. \A i \in 1 .. m : go[i].th # go[m].th => stack'[go[i].th] = stack[go[i].th]
    BY <1>2, <1>3, <2>1
  <2>4. \A j \in 1 .. Low(go[m], stack) : stack'[go[m].th][j] = stack[go[m].th][j]
    BY <1>2, <1>3
  <2>5. Owns(go[m], stack', Len(stack'[go[m].th]))
    BY <1>2, <1>3
  <2> QED
    BY <1>1, <1>2, <1>3, <1>4, <2>2, <2>3, <2>4, <2>5, PrefixFramed
<1>7. SameResumes(go, go')
  BY <1>1, CutSame DEF NoResumeFrom, UnwindsTo
<1>8. Executing' = t
  <2>1. go' # <<>> /\ go'[m] = go[m]
    BY <1>1, EmptySeq DEF UnwindsTo
  <2> QED
    BY <1>2, <2>1 DEF Executing, Top, UnwindsTo
<1> HIDE DEF t
<1>9. fs \in Seq(Kinds) /\ Len(fs) <= MaxDepth /\ SetFrames(t, fs)
  BY DEF Reframed, t
<1> QED
  BY <1>1, <1>4, <1>5, <1>6, <1>7, <1>8, <1>9, GoesInv DEF Stays, t

\* The frames of what has returned are gone, all others are left.
LEMMA UnwindsBelow ==
  ASSUME IInv, go # <<>>, NEW m \in 1 .. Len(go), m + 1 \in 1 .. Len(go),
         NoResumeFrom(m), UnwindsTo(m), Stays, NEW fs, Reframed(Top.th, fs),
         Len(fs) = Low(go[m + 1], stack),
         \A j \in 1 .. Len(fs) : fs[j] = stack[Top.th][j]
  PROVE  IInv' /\ Goes(Top.th)
<1> DEFINE k == m + 1
<1>1. k \in 1 .. Len(go) /\ k = m + 1
  OBVIOUS
<1> HIDE DEF k
<1>2. go[m] \in Activation /\ ~IsResume(go[m]) /\ Owns(go[m], stack, Low(go[k], stack))
  <2>1. m <= m
    BY LenProperties DEF IInv, Typed
  <2>2. ~IsResume(go[m])
    BY <2>1 DEF NoResumeFrom
  <2> QED
    BY <1>1, <2>2, BelowTop
<1>3. go[m].th = Top.th /\ Top.th \in Threads
  BY SameThread, TopFacts
<1>4. stack \in Stacks /\ stack' \in Stacks /\ stack'[Top.th] = fs
  BY <1>3, ReframedStacks
<1>5. Len(fs) \in Nat /\ Len(fs) = Low(go[k], stack)
  BY <1>1, LenProperties DEF Reframed
<1>6. Owns(go[m], stack', Len(fs))
  BY <1>2, <1>3, <1>4, <1>5, OwnsKept
<1>7. Low(go[m], stack) <= Len(fs) /\ Low(go[m], stack) \in Nat
  BY <1>2, <1>4, <1>5, OwnedIsAbove, LowTypes
<1>8. \A j \in 1 .. Low(go[m], stack) : fs[j] = stack[Top.th][j]
  BY <1>5, <1>7
<1> QED
  BY <1>6, <1>8, Unwinds

\* Nothing is left: the host's call has returned.
LEMMA UnwindsAll ==
  ASSUME IInv, go # <<>>, NoResumeFrom(0), UnwindsTo(0), Stays, NEW fs, Reframed(Top.th, fs),
         Len(fs) = 0
  PROVE  IInv' /\ Goes(Top.th)
<1>1. /\ Len(go) \in Nat \ {0} /\ Top.th \in Threads /\ Top.th = Executing
      /\ Active(go, Top.th) /\ go \in Seq(Activation) /\ 1 \in 1 .. Len(go)
  BY TopFacts DEF IInv, Typed
<1>2. Top.th = Main
  BY <1>1, SameThread DEF IInv, Chained, FromHost, NoResumeFrom
<1>3. go' = <<>> /\ go' \in Seq(Activation) /\ Len(go') = 0
  BY EmptySeq DEF UnwindsTo
<1>4. stack'[Main] = fs
  BY <1>1, <1>2, ReframedStacks
<1>5. Chained(go')
  BY <1>3 DEF Chained, FromHost, AllFollow, WaitersWait, OthersResumed, ResumedFresh, Resumed
<1>6. Framed(go', stack')
  BY <1>3, <1>4 DEF Framed, AllOwn, Rising, Grounded
<1>7. SameResumes(go, go')
  <2>1. 0 \in 0 .. Len(go) /\ \A i \in 1 .. 0 : go'[i] = go[i]
    BY <1>1
  <2>2. \A i \in 1 .. Len(go) : 0 <= i => ~IsResume(go[i])
    BY DEF NoResumeFrom
  <2> QED
    BY <1>1, <1>3, <2>1, <2>2, CutSame
<1>8. Executing' = Top.th
  BY <1>2, <1>3 DEF Executing
<1> DEFINE t == Top.th
<1> HIDE DEF t
<1>9. fs \in Seq(Kinds) /\ Len(fs) <= MaxDepth /\ SetFrames(t, fs)
  BY DEF Reframed, t
<1> QED
  BY <1>1, <1>3, <1>5, <1>6, <1>7, <1>8, <1>9, GoesInv DEF Stays, t

\* A call: an activation is added to g, the Go stack or what PCall made of it.
LEMMA Pushes ==
  ASSUME IInv, NEW t \in Threads, t = Executing, Active(go, t), Stays,
         NEW g \in Seq(Activation), g # <<>>, Chained(g), Framed(g, stack), SameResumes(go, g),
         g[Len(g)].th = t, ~IsResume(g[Len(g)]),
         NEW a \in Activation, ~IsResume(a), Follows(g[Len(g)], a), go' = Append(g, a),
         NEW fs, Reframed(t, fs), \A j \in 1 .. Depth(t) : fs[j] = stack[t][j],
         Low(a, stack') = Depth(t), Owns(a, stack', Len(fs))
  PROVE  IInv' /\ Goes(t)
<1>1. /\ stack \in Stacks /\ stack' \in Stacks /\ stack'[t] = fs
      /\ \A x \in Threads : x # t => stack'[x] = stack[x]
  BY ReframedStacks
<1>2. a.th = t
  BY DEF Follows, RunsAbove
<1>3. go' \in Seq(Activation) /\ Len(go') = Len(g) + 1 /\ go'[Len(go')] = a /\ go' # <<>>
  BY AppendProperties
<1>4. Chained(Append(g, a))
  BY PushChained
<1>5. Framed(Append(g, a), stack')
  BY <1>1, <1>2, <1>4, PushFramed DEF Depth
<1>6. SameResumes(go, go')
  BY PushSame, SameTwice
<1>7. Executing' = t
  BY <1>2, <1>3 DEF Executing, Top
<1>8. fs \in Seq(Kinds) /\ Len(fs) <= MaxDepth /\ SetFrames(t, fs)
  BY DEF Reframed
<1> QED
  BY <1>3, <1>4, <1>5, <1>6, <1>7, <1>8, GoesInv DEF Stays

\* callR.
LEMMA CallRKeeps ==
  ASSUME IInv, NEW t \in Threads, t = Executing, Active(go, t),
         NEW g \in Seq(Activation), g # <<>>, Chained(g), Framed(g, stack), SameResumes(go, g),
         g[Len(g)].th = t, ~IsResume(g[Len(g)]), NEW kind \in Kinds, CallR(t, kind, g)
  PROVE  IInv' /\ Goes(t)
<1> DEFINE d == Depth(t)
           fs == Append(stack[t], kind)
           a == Enter(t, kind, d + 1, d + 1)
<1>1. /\ stack[t] \in Seq(Kinds) /\ d \in Nat /\ d < MaxDepth /\ d = Len(stack[t])
      /\ fs \in Seq(Kinds) /\ Len(fs) = d + 1 /\ fs[d + 1] = kind
      /\ \A j \in 1 .. d : fs[j] = stack[t][j]
  <2>1. stack[t] \in Seq(Kinds) /\ HasRoom(t)
    BY DEF IInv, Typed, Stacks, CallR
  <2> QED
    BY <2>1, LenProperties, AppendProperties DEF HasRoom, Depth
<1>2. Reframed(t, fs)
  BY <1>1, CoroutinesAssumption DEF CallR, Reframed, CoroutinesAssumption
<1>3. MainThread = Main /\ Main # None
  BY CoroutinesAssumption DEF IInv, Status, CoroutinesAssumption
<1>4. go' = Append(g, a) /\ Stays
  BY <1>3 DEF CallR, Stays
<1> HIDE DEF d, fs
<1>5. /\ a \in Activation /\ ~IsResume(a) /\ a.th = t
      /\ a.kind = IF kind = "G" THEN "GFunction" ELSE "mainLoop"
      /\ kind = "G" => a.at = d + 1 /\ a.via = "mainLoop"
      /\ kind # "G" => a.base = d + 1
  BY <1>1, MadeLoop, MadeGFn DEF Enter, IsResume
<1> HIDE DEF a
<1>6. Follows(g[Len(g)], a)
  BY <1>5 DEF Follows, RunsAbove
<1>7. stack' \in Stacks /\ stack'[t] = fs
  BY <1>2, ReframedStacks
<1>8. Low(a, stack') = d
  BY <1>1, <1>5 DEF Low
<1>9. Owns(a, stack', Len(fs))
  <2>1. CASE kind = "G"
    BY <1>1, <1>5, <1>7, <1>8, <2>1 DEF Owns
  <2>2. CASE kind # "G"
    <3>1. kind = "Lua" /\ \A j \in d + 1 .. d + 1 : j = d + 1
      BY <1>1, <2>2 DEF Kinds
    <3> QED
      BY <1>1, <1>5, <1>7, <1>8, <2>2, <3>1 DEF Owns
  <2> QED
    BY <2>1, <2>2
<1>10. d = Depth(t)
  BY DEF d
<1> QED
  BY <1>1, <1>2, <1>4, <1>5, <1>6, <1>8, <1>9, <1>10, Pushes

\* A call by an instruction or by a Go function.
LEMMA CallRStep ==
  ASSUME IInv, go # <<>>, ~IsResume(Top), NEW kind \in Kinds, CallR(Top.th, kind, go)
  PROVE  IInv' /\ Goes(Top.th)
<1>1. /\ Top.th \in Threads /\ Top.th = Executing /\ Active(go, Top.th)
      /\ go \in Seq(Activation) /\ Chained(go) /\ Framed(go, stack)
  BY TopFacts DEF IInv, Typed
<1>2. SameResumes(go, go)
  <2>1. \A i \in 1 .. Len(go) : IsResume(go[i]) => i < Len(go)
    BY LenProperties DEF IInv, Typed, Top
  <2> QED
    BY <2>1 DEF SameResumes
<1>3. go[Len(go)].th = Top.th /\ ~IsResume(go[Len(go)])
  BY DEF Top
<1> QED
  BY <1>1, <1>2, <1>3, CallRKeeps

LEMMA OpMetamethodStep ==
  ASSUME IInv, OpMetamethod
  PROVE  IInv' /\ Goes(Top.th)
BY CallRStep, LoopOnTop DEF OpMetamethod, InLua, Running, IsResume

LEMMA GoCallStep ==
  ASSUME IInv, GoCall
  PROVE  IInv' /\ Goes(Top.th)
BY CallRStep, GoOnTop DEF GoCall, InGo, Running, IsResume

\* PCall by a Go function.
LEMMA GoPCallStep ==
  ASSUME IInv, GoPCall
  PROVE  IInv' /\ Goes(Top.th)
<1> DEFINE t == Top.th
           a == Protected(t, Depth(t))
           g == Append(go, a)
<1>1. PICK kind \in Kinds : CallR(t, kind, g)
  BY DEF GoPCall, PCall
<1>2. go # <<>> /\ Top.kind = "GFunction" /\ ~IsResume(Top) /\ Running("GFunction")
  BY DEF GoPCall, InGo, Running, IsResume
<1>3. /\ Len(go) \in Nat \ {0} /\ t \in Threads /\ t = Executing /\ Active(go, t)
      /\ go \in Seq(Activation) /\ Chained(go) /\ Framed(go, stack)
      /\ Depth(t) \in Nat /\ stack \in Stacks
  BY <1>2, TopFacts DEF IInv, Typed
<1>4. /\ a \in Activation /\ a.kind = "PCall" /\ ~IsResume(a) /\ a.th = t /\ a.sp = Depth(t)
  BY <1>3, MadeProtected DEF IsResume
<1> HIDE DEF a
<1>5. g \in Seq(Activation) /\ g # <<>> /\ g[Len(g)] = a
  BY <1>3, <1>4, AppendProperties
<1>6. Follows(go[Len(go)], a)
  BY <1>2, <1>4 DEF Follows, RunsAbove, Top
<1>7. Chained(g)
  BY <1>2, <1>3, <1>4, <1>6, PushChained
<1>8. Framed(g, stack)
  <2>1. Low(a, stack) = Len(stack[a.th]) /\ Owns(a, stack, Len(stack[a.th]))
    BY <1>4 DEF Low, Owns, Depth
  <2>2. ~IsResume(go[Len(go)])
    BY <1>2 DEF Top
  <2> QED
    BY <1>2, <1>3, <1>4, <1>7, <2>1, <2>2, PushFramed
<1>9. SameResumes(go, g)
  BY <1>2, <1>3, <1>4, PushSame DEF Top
<1> HIDE DEF g, t
<1>10. IInv' /\ Goes(t)
  BY <1>1, <1>3, <1>4, <1>5, <1>7, <1>8, <1>9, CallRKeeps
<1> QED
  BY <1>10 DEF t

\* PCall by the host.
LEMMA HostCallsStep ==
  ASSUME IInv, HostCalls
  PROVE  IInv' /\ Goes(Main)
<1> DEFINE a == Protected(Main, Depth(Main))
           g == <<a>>
<1>1. go = <<>> /\ Append(<<>>, a) = <<a>>
  BY DEF HostCalls
<1>2. PICK kind \in Kinds : CallR(Main, kind, g)
  BY <1>1 DEF HostCalls, PCall
<1>3. /\ Main \in Threads /\ Main = Executing /\ Active(go, Main) /\ stack \in Stacks
      /\ Depth(Main) = 0
  BY <1>1 DEF IInv, Typed, Framed, Grounded, Threads, Executing, Active, Depth
<1>4. /\ a \in Activation /\ a.kind = "PCall" /\ ~IsResume(a) /\ a.th = Main /\ a.sp = 0
  BY <1>3, MadeProtected DEF IsResume
<1> HIDE DEF a
<1>5. g \in Seq(Activation) /\ g # <<>> /\ g[Len(g)] = a /\ Len(g) = 1 /\ g[1] = a
  BY <1>4
<1>6. Chained(g)
  BY <1>4, StartChained
<1>7. Framed(g, stack)
  BY <1>3, <1>4, StartFramed DEF Low, Owns, Depth
<1>8. SameResumes(go, g)
  <2>1. \A i \in 1 .. 1 : i = 1
    OBVIOUS
  <2> QED
    BY <1>1, <1>4, <1>5, <2>1 DEF SameResumes
<1> HIDE DEF g
<1> QED
  BY <1>2, <1>3, <1>4, <1>5, <1>6, <1>7, <1>8, CallRKeeps

\* OP_CALL.
LEMMA OpCallStep ==
  ASSUME IInv, OpCall
  PROVE  IInv' /\ Goes(Top.th)
<1> DEFINE t == Top.th
           n == Len(go)
           d == Depth(t)
<1>1. PICK kind \in Kinds : /\ SetFrames(t, Append(stack[t], kind))
                            /\ go' = IF kind = "G" THEN Append(go, GFn(t, "OP_CALL", d + 1)) ELSE go
  BY DEF OpCall
<1>2. HasRoom(t) /\ Running("mainLoop") /\ Stays
  BY DEF OpCall, InLua, Stays
<1>3. /\ go # <<>> /\ n \in Nat \ {0} /\ n \in 1 .. n /\ t \in Threads /\ t = Executing
      /\ Active(go, t) /\ go \in Seq(Activation) /\ Chained(go) /\ Framed(go, stack)
      /\ stack[t] \in Seq(Kinds) /\ d \in Nat \ {0} /\ d = Len(stack[t])
      /\ Top \in Activation /\ Top.kind = "mainLoop" /\ ~IsResume(Top) /\ Top = go[n]
  BY <1>2, LoopOnTop, TopFacts DEF IInv, Typed, Running, Top, Depth, IsResume
<1> DEFINE fs == Append(stack[t], kind)
<1>4. /\ fs \in Seq(Kinds) /\ Len(fs) = d + 1 /\ fs[d + 1] = kind
      /\ \A j \in 1 .. d : fs[j] = stack[t][j]
  BY <1>3, AppendProperties
<1>5. Reframed(t, fs)
  BY <1>1, <1>2, <1>3, <1>4, CoroutinesAssumption DEF Reframed, HasRoom, CoroutinesAssumption
<1>6. stack \in Stacks /\ stack' \in Stacks /\ stack'[t] = fs
  BY <1>3, <1>5, ReframedStacks
<1>7. ~IsResume(go[n]) /\ go[n].th = t /\ \A i \in 1 .. n : IsResume(go[i]) => i < n
  BY <1>3
<1>8. CASE kind = "G"
  <2> DEFINE a == GFn(t, "OP_CALL", d + 1)
  <2>1. /\ a \in Activation /\ ~IsResume(a) /\ a.th = t /\ a.kind = "GFunction"
        /\ a.at = d + 1 /\ a.via = "OP_CALL"
    BY <1>3, MadeGFn DEF IsResume
  <2>2. go' = Append(go, a)
    BY <1>1, <1>8
  <2> HIDE DEF a, fs, n, d
  <2>3. Follows(Top, a)
    BY <1>3, <2>1 DEF Follows, RunsAbove, IsResume
  <2>4. Low(a, stack') = d /\ Owns(a, stack', Len(fs))
    BY <1>3, <1>4, <1>6, <1>8, <2>1 DEF Low, Owns
  <2>5. SameResumes(go, go)
    BY <1>7 DEF SameResumes, n
  <2> HIDE DEF t
  <2>6. IInv' /\ Goes(t)
    BY <1>2, <1>3, <1>4, <1>5, <1>7, <2>1, <2>2, <2>3, <2>4, <2>5, Pushes DEF n, d
  <2> QED
    BY <2>6 DEF t
<1>9. CASE kind # "G"
  <2>1. UnwindsTo(n) /\ NoResumeFrom(n)
    BY <1>1, <1>3, <1>7, <1>9 DEF UnwindsTo, NoResumeFrom
  <2>2. /\ Low(Top, stack) \in Nat /\ Low(Top, stack) < d
        /\ \A j \in Low(Top, stack) + 1 .. d : stack[t][j] = "Lua"
    BY <1>2, <1>3, LoopOnTop, TopFacts
  <2>3. Low(Top, stack') = Low(Top, stack)
    BY <1>3 DEF Low
  <2>4. kind = "Lua"
    BY <1>9 DEF Kinds
  <2>5. Owns(Top, stack', Len(fs))
    BY <1>3, <1>4, <1>6, <2>2, <2>3, <2>4, SMTT(40) DEF Owns
  <2>6. \A j \in 1 .. Low(Top, stack) : fs[j] = stack[t][j]
    BY <1>3, <1>4, <2>2
  <2> HIDE DEF fs, d
  <2> QED
    BY <1>2, <1>3, <1>5, <2>1, <2>5, <2>6, Unwinds
<1> QED
  BY <1>8, <1>9

\* OP_TAILCALL of a Go function.
LEMMA OpTailCallStep ==
  ASSUME IInv, OpTailCall
  PROVE  IInv' /\ Goes(Top.th)
<1> DEFINE t == Top.th
           n == Len(go)
           d == Depth(t)
           fs == Append(stack[t], "G")
           a == GFn(t, "OP_TAILCALL", d + 1)
<1>1. SetFrames(t, fs) /\ go' = Append(go, a)
  BY DEF OpTailCall
<1>2. HasRoom(t) /\ Running("mainLoop") /\ Stays
  BY DEF OpTailCall, InLua, Stays
<1>3. /\ go # <<>> /\ n \in Nat \ {0} /\ n \in 1 .. n /\ t \in Threads /\ t = Executing
      /\ Active(go, t) /\ go \in Seq(Activation) /\ Chained(go) /\ Framed(go, stack)
      /\ stack[t] \in Seq(Kinds) /\ d \in Nat \ {0} /\ d = Len(stack[t])
      /\ Top \in Activation /\ Top.kind = "mainLoop" /\ ~IsResume(Top) /\ Top = go[n]
  BY <1>2, LoopOnTop, TopFacts DEF IInv, Typed, Running, Top, Depth, IsResume
<1>4. /\ fs \in Seq(Kinds) /\ Len(fs) = d + 1 /\ fs[d + 1] = "G"
      /\ \A j \in 1 .. d : fs[j] = stack[t][j]
  BY <1>3, AppendProperties DEF Kinds
<1>5. Reframed(t, fs)
  BY <1>1, <1>2, <1>3, <1>4, CoroutinesAssumption DEF Reframed, HasRoom, CoroutinesAssumption
<1>6. stack \in Stacks /\ stack' \in Stacks /\ stack'[t] = fs
  BY <1>3, <1>5, ReframedStacks
<1>7. ~IsResume(go[n]) /\ go[n].th = t /\ \A i \in 1 .. n : IsResume(go[i]) => i < n
  BY <1>3
<1>8. /\ a \in Activation /\ ~IsResume(a) /\ a.th = t /\ a.kind = "GFunction"
      /\ a.at = d + 1 /\ a.via = "OP_TAILCALL"
  BY <1>3, MadeGFn DEF IsResume
<1> HIDE DEF a, fs, n, d
<1>9. Follows(Top, a)
  BY <1>3, <1>8 DEF Follows, RunsAbove, IsResume
<1>10. Low(a, stack') = d /\ Owns(a, stack', Len(fs))
  BY <1>3, <1>4, <1>6, <1>8 DEF Low, Owns
<1>11. SameResumes(go, go)
  BY <1>7 DEF SameResumes, n
<1> HIDE DEF t
<1>12. IInv' /\ Goes(t)
  BY <1>1, <1>2, <1>3, <1>4, <1>5, <1>7, <1>8, <1>9, <1>10, <1>11, Pushes DEF n, d
<1> QED
  BY <1>12 DEF t

-----------------------------------------------------------------------------
\* What is below the mainLoop or the Go function on top.
LEMMA BelowLoop ==
  ASSUME IInv, NEW k \in 1 .. Len(go), go[k].kind \in {"mainLoop", "GFunction"}
  PROVE  /\ k - 1 \in 1 .. Len(go) /\ k = (k - 1) + 1
         /\ go[k].kind = "mainLoop" /\ Low(go[k], stack) = 0 /\ Parent[go[k].th] = None
              => ~IsResume(go[k - 1])
         /\ go[k].kind = "mainLoop" /\ Low(go[k], stack) # 0 => ~IsResume(go[k - 1])
         /\ go[k].kind = "GFunction" => ~IsResume(go[k - 1])
<1>1. k # 1
  BY EmptySeq DEF IInv, Chained, FromHost, Typed
<1>2. k - 1 \in 1 .. Len(go) /\ k = (k - 1) + 1
  BY <1>1, LenProperties DEF IInv, Typed
<1> DEFINE i == k - 1
<1>3. i \in 1 .. Len(go) /\ k = i + 1
  BY <1>2
<1> HIDE DEF i
<1>4. Follows(go[i], go[k]) /\ (IsResume(go[i]) => Parent[go[k].th] # None)
  BY <1>3, BelowTop
<1>5. IsResume(go[i]) => go[k].kind = "mainLoop" /\ Low(go[k], stack) = 0
  BY <1>4 DEF Follows, Low
<1>6. /\ go[k].kind = "mainLoop" /\ Low(go[k], stack) = 0 /\ Parent[go[k].th] = None
           => ~IsResume(go[i])
      /\ go[k].kind = "mainLoop" /\ Low(go[k], stack) # 0 => ~IsResume(go[i])
      /\ go[k].kind = "GFunction" => ~IsResume(go[i])
  BY <1>4, <1>5
<1> QED
  BY <1>2, <1>6 DEF i

\* The first mainLoop of a coroutine is right above the Resume.
LEMMA FirstOfCoroutine ==
  ASSUME IInv, NEW k \in 1 .. Len(go), go[k].kind = "mainLoop", Low(go[k], stack) = 0
  PROVE  IF Parent[go[k].th] = None THEN ~IsResume(go[k - 1])
         ELSE IsResume(go[k - 1]) /\ go[k - 1].co = go[k].th
<1> DEFINE i == k - 1
<1>1. i \in 1 .. Len(go) /\ k = i + 1
  BY BelowLoop
<1> HIDE DEF i
<1>2. CASE Parent[go[k].th] = None
  BY <1>2, BelowLoop
<1>3. CASE Parent[go[k].th] # None
  <2>1. IsResume(go[i])
    BY <1>1, <1>3, FirstLoop DEF IInv, Status
  <2>2. go[i].co = go[k].th
    BY <1>1, <2>1, BelowTop DEF Follows, RunsAbove
  <2> QED
    BY <1>3, <2>1, <2>2 DEF i
<1> QED
  BY <1>2, <1>3

\* A mainLoop with a Go function below its last frame has no other frame, as has
\* the one that was entered for the last frame.
LEMMA LoopEnds ==
  ASSUME NEW a \in Activation, a.kind = "mainLoop", NEW s \in Stacks, NEW n \in Nat \ {0},
         Low(a, s) < n, \A j \in Low(a, s) + 1 .. n : s[a.th][j] = "Lua"
  PROVE  Low(a, s) = n - 1 <=> a.base = n \/ n = 1 \/ s[a.th][n - 1] = "G"
<1>1. Low(a, s) \in Nat /\ a.base \in Nat /\ Low(a, s) = (IF a.base = 0 THEN 0 ELSE a.base - 1)
  BY LowTypes, ActivationTypes DEF Low
<1>2. ASSUME s[a.th][n - 1] = "G", Low(a, s) # n - 1
      PROVE  FALSE
  <2>1. n - 1 \in Low(a, s) + 1 .. n
    BY <1>1, <1>2
  <2> QED
    BY <1>2, <2>1
<1>3. Low(a, s) = n - 1 /\ a.base # n => n = 1
  BY <1>1
<1>4. a.base = n => Low(a, s) = n - 1
  BY <1>1
<1>5. n = 1 => Low(a, s) = n - 1
  BY <1>1
<1> QED
  BY <1>2, <1>3, <1>4, <1>5

\* OP_RETURN, but for the first function of a coroutine.
LEMMA OpReturnStep ==
  ASSUME IInv, OpReturn, ~EndsThread(Top.th, stack[Top.th])
  PROVE  IInv' /\ Goes(Top.th)
<1> DEFINE t == Top.th
           n == Len(go)
           d == Depth(t)
           rest == Front(stack[t])
<1>1. /\ SetFrames(t, rest) /\ Stays /\ Running("mainLoop")
      /\ go' = IF IsLast(Top.base, stack[t]) \/ Last(rest) = "G" THEN Front(go) ELSE go
  BY DEF OpReturn, InLua, Stays
<1>2. /\ go # <<>> /\ n \in Nat \ {0} /\ n \in 1 .. n /\ t \in Threads /\ go \in Seq(Activation)
      /\ stack[t] \in Seq(Kinds) /\ d \in Nat \ {0} /\ d = Len(stack[t]) /\ d <= MaxDepth
      /\ Top \in Activation /\ Top.kind = "mainLoop" /\ ~IsResume(Top) /\ Top = go[n]
      /\ stack \in Stacks
  BY <1>1, LoopOnTop, TopFacts DEF IInv, Typed, Running, Top, Depth, IsResume
<1>d. d \in Nat /\ d # 0
  BY <1>2
<1>3. /\ Low(Top, stack) \in Nat /\ Low(Top, stack) < d
      /\ \A j \in Low(Top, stack) + 1 .. d : stack[t][j] = "Lua"
  BY <1>1, <1>2, LoopOnTop, TopFacts
<1>4. /\ rest \in Seq(Kinds) /\ Len(rest) = d - 1
      /\ \A j \in 1 .. d - 1 : rest[j] = stack[t][j]
  BY <1>2, FrontProperties, EmptySeq
<1>5. Reframed(t, rest)
  BY <1>1, <1>2, <1>4, CoroutinesAssumption DEF Reframed, CoroutinesAssumption
<1> HIDE DEF n, d, rest
<1>6. Low(Top, stack) = d - 1 <=> IsLast(Top.base, stack[t]) \/ Last(rest) = "G"
  <2>1. d # 1 => Last(rest) = stack[t][d - 1]
    <3>1. d # 1 => d - 1 \in 1 .. d - 1
      BY <1>d
    <3> QED
      BY <1>4, <3>1 DEF Last
  <2>2. Low(Top, stack) = d - 1 <=> Top.base = d \/ d = 1 \/ stack[t][d - 1] = "G"
    <3>1. /\ Top \in Activation /\ Top.kind = "mainLoop" /\ stack \in Stacks /\ d \in Nat \ {0}
          /\ Low(Top, stack) < d
          /\ \A j \in Low(Top, stack) + 1 .. d : stack[Top.th][j] = "Lua"
      BY <1>2, <1>3
    <3> QED
      BY ONLY <3>1, LoopEnds
  <2> QED
    BY <1>2, <2>1, <2>2 DEF IsLast, d
<1>7. CASE Low(Top, stack) = d - 1
  <2> DEFINE m == n - 1
  <2>1. m \in 1 .. n /\ m + 1 \in 1 .. n /\ m + 1 = n /\ m \in Nat
    BY <1>2, BelowLoop DEF n
  <2>2. ~IsResume(go[m])
    <3>1. Low(Top, stack) = 0 => d = 1
      BY <1>d, <1>7
    <3>2. d = 1 => Parent[t] = None
      BY <1>2 DEF EndsThread
    <3> QED
      BY <1>2, <3>1, <3>2, BelowLoop DEF n
  <2>3. NoResumeFrom(m)
    <3> HIDE DEF m
    <3>1. n = m + 1
      BY <2>1
    <3>2. \A i \in 1 .. n : m <= i => i = m \/ i = n
      BY ONLY <2>1, <3>1
    <3> QED
      BY <1>2, <2>2, <3>2 DEF NoResumeFrom, n
  <2>4. UnwindsTo(m)
    BY <1>1, <1>2, <1>6, <1>7, FrontProperties DEF UnwindsTo, n, rest
  <2>5. Len(rest) = Low(go[m + 1], stack)
    BY <1>2, <1>4, <1>7, <2>1
  <2>6. \A j \in 1 .. Len(rest) : rest[j] = stack[t][j]
    BY <1>4
  <2> HIDE DEF m
  <2> QED
    BY <1>1, <1>2, <1>5, <2>1, <2>3, <2>4, <2>5, <2>6, UnwindsBelow DEF n
<1>8. CASE Low(Top, stack) # d - 1
  <2>1. UnwindsTo(n)
    BY <1>1, <1>2, <1>6, <1>8 DEF UnwindsTo, n, rest
  <2>2. NoResumeFrom(n)
    BY <1>2 DEF NoResumeFrom, n
  <2>3. stack' \in Stacks /\ stack'[t] = rest
    BY <1>2, <1>5, ReframedStacks
  <2>4. Low(Top, stack') = Low(Top, stack)
    BY <1>2 DEF Low
  <2>5. Low(Top, stack) < d - 1
    BY <1>2, <1>3, <1>8, SMTT(40)
  <2>6. Owns(Top, stack', Len(rest))
    <3>1. \A j \in Low(Top, stack) + 1 .. d - 1 : rest[j] = "Lua"
      BY <1>d, <1>3, <1>4
    <3> QED
      BY <1>2, <1>4, <2>3, <2>4, <2>5, <3>1 DEF Owns
  <2>7. \A j \in 1 .. Low(Top, stack) : rest[j] = stack[t][j]
    BY <1>2, <1>3, <1>4
  <2> QED
    BY <1>1, <1>2, <1>5, <2>1, <2>2, <2>6, <2>7, Unwinds DEF n
<1> QED
  BY <1>7, <1>8

\* The deferred function of PCall, nothing raised.
LEMMA PCallReturnsStep ==
  ASSUME IInv, PCallReturns
  PROVE  IInv' /\ Goes(Top.th)
<1> DEFINE t == Top.th
           n == Len(go)
           d == Depth(t)
           fs == SubSeq(stack[t], 1, Top.sp)
<1>1. /\ stack' = [stack EXCEPT ![t] = fs]
      /\ currentFrame' = IF Top.sp = 0 THEN [currentFrame EXCEPT ![t] = 0] ELSE currentFrame
      /\ go' = Front(go) /\ Stays /\ go # <<>> /\ Top.kind = "PCall"
  BY DEF PCallReturns, Running, Stays, IInv, Typed, Stacks
<1>2. /\ n \in Nat \ {0} /\ n \in 1 .. n /\ t \in Threads /\ go \in Seq(Activation)
      /\ stack[t] \in Seq(Kinds) /\ d \in Nat /\ d = Len(stack[t]) /\ d <= MaxDepth
      /\ Top \in Activation /\ ~IsResume(Top) /\ Top = go[n] /\ currentFrame[t] = d
      /\ Owns(Top, stack, d) /\ currentFrame \in [Threads -> 0 .. MaxDepth]
  BY <1>1, TopFacts DEF IInv, Typed, Top, Depth, IsResume
<1>3. Top.sp = d /\ Low(go[n], stack) = d
  BY <1>1, <1>2 DEF Owns, Low
<1>4. /\ fs \in Seq(Kinds) /\ Len(fs) = d /\ \A j \in 1 .. d : fs[j] = stack[t][j]
  BY <1>2, <1>3, PrefixProperties
<1> HIDE DEF fs
<1>5. Reframed(t, fs)
  <2>1. currentFrame' = [currentFrame EXCEPT ![t] = d]
    BY <1>1, <1>2, <1>3
  <2> QED
    BY <1>1, <1>2, <1>4, <2>1 DEF Reframed, SetFrames
<1>6. UnwindsTo(n - 1)
  BY <1>1, <1>2, FrontProperties DEF UnwindsTo
<1> HIDE DEF n, d
<1>7. CASE n = 1
  <2>1. d = 0
    BY <1>1, <1>2, <1>3, <1>7 DEF IInv, Framed, Grounded
  <2>2. \A i \in 1 .. n : i = n
    BY <1>7
  <2>3. NoResumeFrom(0)
    BY <1>2, <2>2 DEF NoResumeFrom, n
  <2>4. UnwindsTo(0) /\ Len(fs) = 0
    BY <1>4, <1>6, <1>7, <2>1
  <2> QED
    BY <1>1, <1>5, <2>3, <2>4, UnwindsAll
<1>8. CASE n # 1
  <2> DEFINE m == n - 1
  <2>0. n \in Nat /\ n # 0
    BY <1>2
  <2>1. m \in 1 .. n /\ n = m + 1 /\ n \in 1 .. n
    BY <1>8, <2>0
  <2> HIDE DEF m
  <2>2. Follows(go[m], go[n])
    BY <2>1, BelowTop DEF n
  <2>3. ~IsResume(go[m])
    BY <1>1, <1>2, <2>2 DEF Follows, IsResume
  <2>4. \A i \in 1 .. n : m <= i => i = m \/ i = n
    BY <2>1
  <2>5. NoResumeFrom(m)
    BY <1>2, <2>3, <2>4 DEF NoResumeFrom, n
  <2>6. UnwindsTo(m)
    BY <1>6 DEF m
  <2>7. Len(fs) = Low(go[m + 1], stack) /\ \A j \in 1 .. Len(fs) : fs[j] = stack[t][j]
    BY <1>3, <1>4, <2>1
  <2> QED
    BY <1>1, <1>5, <2>1, <2>5, <2>6, <2>7, UnwindsBelow DEF n
<1> QED
  BY <1>7, <1>8

LEMMA MaxProperties ==
  ASSUME NEW n \in Nat, NEW T, T \subseteq 1 .. n, T # {}
  PROVE  Max(T) \in T /\ \A x \in T : x <= Max(T)
<1>1. \E x \in T : \A y \in T : x >= y
  <2> DEFINE U == {n - x : x \in T}
  <2>1. U \subseteq Nat /\ U # {}
    <3>1. \A x \in T : n - x \in Nat
      OBVIOUS
    <3> QED
      BY <3>1
  <2>2. PICK u \in U : \A v \in U : u <= v
    BY <2>1, SmallestExists
  <2>3. PICK x \in T : u = n - x
    BY <2>2
  <2>4. \A y \in T : n - x <= n - y
    BY <2>2, <2>3
  <2>5. \A y \in T : x >= y
    BY <2>4
  <2> QED
    BY <2>5
<1>2. Max(T) \in T /\ \A y \in T : Max(T) >= y
  BY <1>1 DEF Max
<1> QED
  BY <1>2

\* An error is recovered by a PCall of the thread that runs.
LEMMA RaiseToPCall ==
  ASSUME IInv, go # <<>>, Top.kind \in {"mainLoop", "GFunction"}, Raise,
         Recovering # {}, go[Max(Recovering)].kind = "PCall"
  PROVE  IInv' /\ Goes(Top.th)
<1> DEFINE n == Len(go)
           i == Max(Recovering)
           a == go[i]
           t == Top.th
           d == Depth(t)
           fs == SubSeq(stack[t], 1, a.sp)
<1>1. /\ n \in Nat \ {0} /\ n \in 1 .. n /\ t \in Threads /\ go \in Seq(Activation)
      /\ stack[t] \in Seq(Kinds) /\ d \in Nat /\ d = Len(stack[t]) /\ d <= MaxDepth
      /\ Top \in Activation /\ ~IsResume(Top) /\ Top = go[n] /\ stack \in Stacks
      /\ Owns(Top, stack, d)
  BY TopFacts DEF IInv, Typed, Top, Depth, IsResume
<1>2. i \in 1 .. n /\ \A x \in Recovering : x <= i
  <2>1. Recovering \subseteq 1 .. n
    BY DEF Recovering
  <2> QED
    BY <1>1, <2>1, MaxProperties
<1>3. /\ SetFrames(a.th, SubSeq(stack[a.th], 1, a.sp)) /\ go' = SubSeq(go, 1, i - 1) /\ Stays
  BY DEF Raise, Stays
<1>4. a \in Activation /\ a.kind = "PCall"
  BY <1>1, <1>2, ElementOfSeq
<1> HIDE DEF n, i, d
<1>5. \A j \in 1 .. n : i <= j => ~IsResume(go[j])
  <2> SUFFICES ASSUME NEW j \in 1 .. n, i <= j, IsResume(go[j])
               PROVE  FALSE
    OBVIOUS
  <2>1. j # i /\ j # n
    BY <1>1, <1>4, IsResume(go[j]) DEF IsResume
  <2>2. j < n
    BY <1>1, <2>1
  <2>3. Parent[go[j].co] = go[j].th /\ go[j] \in Activation
    BY <1>1, <2>2, ElementOfSeq DEF IInv, Status, ResumesFit, n
  <2>4. Parent[go[j].co] # None
    BY <2>3, ActivationTypes, CoroutinesAssumption DEF CoroutinesAssumption, Threads
  <2>5. j \in Recovering
    BY <2>4 DEF Recovering, IsResume, n
  <2>6. j <= i
    BY <1>2, <2>5
  <2> QED
    BY <1>1, <1>2, <2>1, <2>6
<1>6. a.th = t
  BY <1>2, <1>5, SameThread DEF NoResumeFrom, n
<1>7. a.sp \in Nat /\ a.sp <= d
  <2>1. i < n
    <3>1. i # n
      BY <1>1, <1>4
    <3> QED
      BY <1>1, <1>2, <3>1
  <2>2. Up(go, stack, i) <= Low(Top, stack)
    BY <1>1, <1>2, <1>6, <2>1 DEF IInv, Framed, Rising, n
  <2>3. a.sp = Up(go, stack, i)
    BY <1>2, <1>4 DEF IInv, Framed, AllOwn, Owns, n
  <2>4. Low(Top, stack) <= d /\ Low(Top, stack) \in Nat
    BY <1>1, OwnedIsAbove, LowTypes
  <2>5. a.sp \in Nat
    BY <1>4, ActivationTypes
  <2> QED
    BY <1>1, <2>2, <2>3, <2>4, <2>5
<1>8. fs \in Seq(Kinds) /\ Len(fs) = a.sp /\ \A j \in 1 .. a.sp : fs[j] = stack[t][j]
  <2>1. a.sp \in 0 .. Len(stack[t])
    BY <1>1, <1>7
  <2> QED
    BY <1>1, <2>1, PrefixProperties, SMTT(40)
<1>9. Reframed(t, fs)
  <2>1. a.sp <= MaxDepth
    BY <1>1, <1>7, CoroutinesAssumption DEF CoroutinesAssumption
  <2> QED
    BY <1>3, <1>6, <1>8, <2>1 DEF Reframed
<1> HIDE DEF fs
<1>10. Low(a, stack) = a.sp
  BY <1>4 DEF Low
<1>11. UnwindsTo(i - 1)
  <2>1. i - 1 \in 0 .. n
    BY <1>1, <1>2
  <2> QED
    BY <1>1, <1>3, <2>1, PrefixProperties DEF UnwindsTo, n
<1>12. CASE i = 1
  <2>1. Len(fs) = 0
    BY <1>8, <1>10, <1>12 DEF IInv, Framed, Grounded
  <2>2. NoResumeFrom(0)
    BY <1>5, <1>12 DEF NoResumeFrom, n
  <2>3. UnwindsTo(0)
    BY <1>11, <1>12
  <2> QED
    BY <1>3, <1>9, <2>1, <2>2, <2>3, UnwindsAll
<1>13. CASE i # 1
  <2> DEFINE m == i - 1
  <2>1. m \in 1 .. n /\ i = m + 1
    BY <1>1, <1>2, <1>13
  <2> HIDE DEF m
  <2>2. Follows(go[m], go[i])
    BY <1>2, <2>1, BelowTop DEF n
  <2>3. ~IsResume(go[m])
    BY <1>4, <2>2 DEF Follows, IsResume
  <2>4. \A j \in 1 .. n : m <= j => j = m \/ i <= j
    BY <1>2, <2>1
  <2>5. NoResumeFrom(m)
    BY <1>5, <2>3, <2>4 DEF NoResumeFrom, n
  <2>6. UnwindsTo(m)
    BY <1>11 DEF m
  <2>7. Len(fs) = Low(go[m + 1], stack) /\ \A j \in 1 .. Len(fs) : fs[j] = stack[t][j]
    BY <1>8, <1>10, <2>1
  <2>8. m + 1 \in 1 .. n
    BY <1>2, <2>1
  <2> QED
    BY <1>3, <1>9, <2>1, <2>5, <2>6, <2>7, <2>8, UnwindsBelow DEF n
<1> QED
  BY <1>12, <1>13

-----------------------------------------------------------------------------
\* A thread gives control back: the i-th activation is the Resume it runs in, no
\* Resume lies above it, and acts are the activations up to there.
GivesBack(i, acts, fs, flag, kill) ==
  /\ i \in 1 .. Len(go) /\ i < Len(go) /\ IsResume(go[i])
  /\ \A j \in 1 .. Len(go) : i < j => ~IsResume(go[j])
  /\ acts \in Seq(Activation) /\ Len(acts) = i /\ \A j \in 1 .. i : acts[j] = go[j]
  /\ fs # <<>> /\ Front(fs) \in Seq(Kinds) /\ Len(Front(fs)) <= MaxDepth
  /\ flag \in {"true", "false"} /\ kill \in BOOLEAN
  /\ ~kill => AllLua(Front(fs))
  /\ Habits = {} => (kill <=> ~(flag = "true" /\ Front(fs) # <<>>))
  /\ SwitchToParentThread(go[i].co, fs, acts, flag, kill)

\* The Resumes of t without a flag.
Waits(acts, t) ==
  {i \in 1 .. Len(acts) : acts[i].kind = "Resume" /\ acts[i].th = t /\ acts[i].got = "nothing"}

\* The Resume that gets its flag is the one that waits.
LEMMA DeliveredToTop ==
  ASSUME NEW acts \in Seq(Activation), acts # <<>>, NEW t,
         acts[Len(acts)].kind = "Resume", acts[Len(acts)].th = t,
         acts[Len(acts)].got = "nothing"
  PROVE  Waits(acts, t) # {} /\ Max(Waits(acts, t)) = Len(acts)
<1> DEFINE waits == Waits(acts, t)
<1>1. Len(acts) \in Nat \ {0} /\ Len(acts) \in 1 .. Len(acts)
  BY EmptySeq
<1>2. waits \subseteq 1 .. Len(acts) /\ Len(acts) \in waits
  BY <1>1 DEF Waits
<1> HIDE DEF waits
<1>3. Max(waits) \in waits /\ \A x \in waits : x <= Max(waits)
  BY <1>1, <1>2, MaxProperties
<1>4. Max(waits) = Len(acts)
  <2>1. Max(waits) \in 1 .. Len(acts) /\ Len(acts) <= Max(waits)
    BY <1>2, <1>3
  <2> QED
    BY <1>1, <2>1
<1> QED
  BY <1>2, <1>4 DEF waits

\* What the Go stack looks like then.
LEMMA GivesBackGo ==
  ASSUME IInv, NEW i, NEW acts, NEW fs, NEW flag, NEW kill, GivesBack(i, acts, fs, flag, kill)
  PROVE  /\ i \in Nat \ {0} /\ Len(go) \in Nat /\ i \in 1 .. i
         /\ go' \in Seq(Activation) /\ Len(go') = i /\ go' # <<>>
         /\ \A j \in 1 .. i : j < i => go'[j] = go[j]
         /\ IsResume(go'[i]) /\ go'[i].th = go[i].th /\ go'[i].co = go[i].co /\ go'[i].got = flag
         /\ \A j \in 1 .. i : Alike(go'[j], go[j])
         /\ go[i] \in Activation /\ Parent[go[i].co] = go[i].th
<1>1. /\ go \in Seq(Activation) /\ i \in 1 .. Len(go) /\ i < Len(go) /\ IsResume(go[i])
      /\ acts \in Seq(Activation) /\ Len(acts) = i /\ \A j \in 1 .. i : acts[j] = go[j]
      /\ flag \in {"nothing", "true", "false"}
      /\ go' = Delivered(acts, Parent[go[i].co], flag)
  BY DEF GivesBack, IInv, Typed, SwitchToParentThread
<1>2. i \in Nat \ {0} /\ Len(go) \in Nat /\ i \in 1 .. i /\ acts[i] = go[i]
  BY <1>1, LenProperties
<1>3. go[i] \in Activation /\ Parent[go[i].co] = go[i].th /\ go[i].got = "nothing"
  BY <1>1, <1>2, ElementOfSeq DEF IInv, Status, ResumesFit
<1> DEFINE b == [go[i] EXCEPT !.got = flag]
<1>5. go' = [acts EXCEPT ![i] = b]
  <2> DEFINE p == Parent[go[i].co]
             waits == Waits(acts, p)
  <2>1. /\ acts # <<>> /\ acts[Len(acts)].kind = "Resume"
        /\ acts[Len(acts)].th = p /\ acts[Len(acts)].got = "nothing"
    BY <1>1, <1>2, <1>3, EmptySeq DEF IsResume
  <2>2. go' = IF waits = {} THEN acts ELSE [acts EXCEPT ![Max(waits)].got = flag]
    BY <1>1 DEF Delivered, Waits
  <2>3. waits # {} /\ Max(waits) = Len(acts)
    BY <1>1, <2>1, DeliveredToTop
  <2> HIDE DEF p, waits
  <2> QED
    BY <1>1, <1>2, <2>2, <2>3
<1>6. /\ b \in Activation /\ IsResume(b) /\ b.th = go[i].th /\ b.co = go[i].co /\ b.got = flag
  BY <1>1, <1>3, GotFlag
<1> HIDE DEF b
<1>7. go' \in Seq(Activation) /\ Len(go') = i /\ go'[i] = b
      /\ \A j \in 1 .. i : j # i => go'[j] = acts[j]
  BY <1>1, <1>2, <1>5, <1>6, ExceptSeq
<1>8. go' # <<>>
  BY <1>2, <1>7, EmptySeq
<1>9. \A j \in 1 .. i : j < i => go'[j] = go[j]
  BY <1>1, <1>2, <1>7
<1>10. ASSUME NEW j \in 1 .. i
       PROVE  Alike(go'[j], go[j])
  <2>1. CASE j = i
    BY <1>1, <1>6, <1>7, <2>1 DEF Alike, IsResume
  <2>2. CASE j # i
    BY <1>1, <1>7, <2>2 DEF Alike
  <2> QED
    BY <2>1, <2>2
<1> QED
  BY <1>2, <1>3, <1>6, <1>7, <1>8, <1>9, <1>10

\* The thread that gives control back runs, and has no other activations.
LEMMA GivesBackThread ==
  ASSUME IInv, NEW i, NEW acts, NEW fs, NEW flag, NEW kill, GivesBack(i, acts, fs, flag, kill)
  PROVE  LET co == go[i].co IN
         /\ co \in Threads /\ co = CurrentThread /\ co # Main
         /\ Active(go, co) /\ ~Active(go', co)
         /\ \A j \in 1 .. i : go[j].th # co
         /\ \A j \in 1 .. i : IsResume(go[j]) /\ j # i => go[j].co # co
         /\ \A x \in Threads : x # co => (Active(go', x) <=> Active(go, x))
<1> DEFINE co == go[i].co
           n == Len(go)
<1>1. /\ i \in Nat \ {0} /\ n \in Nat /\ i \in 1 .. i /\ i \in 1 .. n /\ i < n
      /\ IsResume(go[i]) /\ go[i] \in Activation /\ go # <<>>
      /\ \A j \in 1 .. n : i < j => ~IsResume(go[j])
  BY GivesBackGo, EmptySeq DEF GivesBack
<1>2. co \in Threads
  BY <1>1, ActivationTypes DEF IsResume
<1>3. n \in 1 .. n /\ i + 1 \in 1 .. n /\ 1 \in 1 .. n /\ 1 <= i
  BY <1>1
<1>4. co = CurrentThread
  <2>1. go[i + 1].th = co
    BY <1>1, <1>3, BelowTop DEF Follows, RunsAbove
  <2>2. go[n].th = co
    <3> SUFFICES ASSUME go[n].th # co
                 PROVE  FALSE
      OBVIOUS
    <3>1. i + 1 < n
      BY <1>1, <2>1
    <3>2. PICK j \in i + 1 .. n - 1 : IsResume(go[j])
      BY <1>3, <2>1, <3>1 DEF IInv, Chained, OthersResumed
    <3>3. j \in 1 .. n /\ i < j
      BY <1>1, <3>2
    <3> QED
      BY <1>1, <3>2, <3>3
  <2> QED
    BY <1>1, <2>2 DEF IInv, Status, Executing, Top
<1>5. \A j \in 1 .. i : j \in 1 .. n /\ j <= i
  BY <1>1
<1>6. \A j \in 1 .. i : go[j].th # co
  BY <1>1, <1>5 DEF IInv, Chained, ResumedFresh
<1>7. co # Main
  BY <1>1, <1>3, <1>6 DEF IInv, Chained, FromHost
<1>8. \A j \in 1 .. i : IsResume(go[j]) /\ j # i => go[j].co # co
  <2> SUFFICES ASSUME NEW j \in 1 .. i, IsResume(go[j]), j # i
               PROVE  go[j].co # co
    OBVIOUS
  <2>1. j + 1 \in 1 .. i /\ j \in 1 .. n /\ j + 1 \in 1 .. n
    BY <1>1
  <2>2. go[j + 1].th = go[j].co
    BY <2>1, BelowTop DEF Follows, RunsAbove
  <2> QED
    BY <1>6, <2>1, <2>2
<1>9. Active(go, co)
  BY <1>1 DEF Active
<1>10. /\ Len(go') = i /\ \A j \in 1 .. i : j < i => go'[j] = go[j]
  BY GivesBackGo
<1>11. ~Active(go', co)
  <2>1. \A j \in 1 .. i : j < i => j # i
    BY <1>1
  <2> QED
    BY <1>7, <1>8, <1>10, <2>1 DEF Active
<1>12. ASSUME NEW x \in Threads, x # co
       PROVE  Active(go', x) <=> Active(go, x)
  <2>1. ASSUME NEW j \in 1 .. n, IsResume(go[j]), go[j].co = x
        PROVE  j \in 1 .. i /\ j < i
    <3>1. ~(i < j) /\ j # i
      BY <1>1, <1>12, <2>1
    <3> QED
      BY <1>1, <3>1
  <2>2. \A j \in 1 .. i : j < i => j \in 1 .. n /\ j < n
    BY <1>1
  <2> QED
    BY <1>10, <2>1, <2>2 DEF Active
<1> QED
  BY <1>2, <1>4, <1>6, <1>7, <1>8, <1>9, <1>11, <1>12

LEMMA GivesBackInv ==
  ASSUME IInv, NEW i, NEW acts, NEW fs, NEW flag, NEW kill, GivesBack(i, acts, fs, flag, kill)
  PROVE  IInv'
<1> DEFINE co == go[i].co
           up == go[i].th
<1>1. /\ i \in Nat \ {0} /\ Len(go) \in Nat /\ i \in 1 .. i
      /\ go' \in Seq(Activation) /\ Len(go') = i /\ go' # <<>>
      /\ \A j \in 1 .. i : j < i => go'[j] = go[j]
      /\ IsResume(go'[i]) /\ go'[i].th = up /\ go'[i].co = co /\ go'[i].got = flag
      /\ \A j \in 1 .. i : Alike(go'[j], go[j])
      /\ go[i] \in Activation /\ Parent[co] = up
  BY GivesBackGo
<1>2. /\ co \in Threads /\ co # Main /\ ~Active(go', co)
      /\ \A j \in 1 .. i : go[j].th # co
      /\ \A j \in 1 .. i : IsResume(go[j]) /\ j # i => go[j].co # co
      /\ \A x \in Threads : x # co => (Active(go', x) <=> Active(go, x))
  BY GivesBackThread
<1>3. /\ CurrentThread' = Parent[co] /\ Parent' = [Parent EXCEPT ![co] = None]
      /\ SetFrames(co, Front(fs)) /\ Dead' = [Dead EXCEPT ![co] = @ \/ kill]
      /\ MainThread' = MainThread /\ begun' = begun
      /\ i \in 1 .. Len(go) /\ i < Len(go) /\ IsResume(go[i])
      /\ Front(fs) \in Seq(Kinds) /\ Len(Front(fs)) <= MaxDepth
      /\ flag \in {"true", "false"} /\ kill \in BOOLEAN
      /\ ~kill => AllLua(Front(fs))
  BY DEF GivesBack, SwitchToParentThread
<1>4. Len(Front(fs)) \in 0 .. MaxDepth
  BY <1>3, LenProperties, CoroutinesAssumption DEF CoroutinesAssumption
<1> DEFINE gs == Front(fs)
<1> HIDE DEF co, up, gs
<1>5. /\ stack' = [stack EXCEPT ![co] = gs]
      /\ currentFrame' = [currentFrame EXCEPT ![co] = Len(gs)]
  BY <1>3 DEF SetFrames, gs
<1>6. stack' \in Stacks /\ stack'[co] = gs /\ \A x \in Threads : x # co => stack'[x] = stack[x]
  BY <1>2, <1>3, <1>5 DEF IInv, Typed, Stacks, gs
<1>7. /\ currentFrame' \in [Threads -> 0 .. MaxDepth] /\ currentFrame'[co] = Len(gs)
      /\ \A x \in Threads : x # co => currentFrame'[x] = currentFrame[x]
  BY <1>2, <1>4, <1>5 DEF IInv, Typed, gs
<1>8. /\ Parent' \in [Threads -> Threads \cup {None}] /\ Parent'[co] = None
      /\ \A x \in Threads : x # co => Parent'[x] = Parent[x]
  BY <1>2, <1>3 DEF IInv, Typed
<1>9. /\ Dead' \in [Threads -> BOOLEAN] /\ (kill => Dead'[co])
      /\ \A x \in Threads : x # co => Dead'[x] = Dead[x]
  BY <1>2, <1>3 DEF IInv, Typed
<1>10. Typed'
  BY <1>1, <1>3, <1>6, <1>7, <1>8, <1>9 DEF IInv, Typed, Depth, gs
<1>11. Chained(go')
  BY <1>1, <1>3, PrefixChained DEF IInv, Typed
<1>12. Framed(go', stack')
  <2>1. /\ go \in Seq(Activation) /\ Chained(go) /\ Framed(go, stack) /\ stack \in Stacks
        /\ \A j \in 1 .. i : go[j].th \in Threads
    BY <1>3, ElementOfSeq, ActivationTypes DEF IInv, Typed
  <2>2. \A j \in 1 .. i : stack'[go[j].th] = stack[go[j].th]
    BY <1>2, <1>6, <2>1
  <2>3. stack'[go[i].th] = stack[go[i].th]
    BY <1>1, <2>2
  <2>4. Owns(go[i], stack', Len(stack'[go[i].th]))
    BY <1>3 DEF Owns, IsResume
  <2>5. /\ go' \in Seq(Activation) /\ stack' \in Stacks /\ i \in 1 .. Len(go) /\ Len(go') = i
        /\ \A j \in 1 .. i : Alike(go'[j], go[j])
        /\ \A j \in 1 .. i : go[j].th # go[i].th => stack'[go[j].th] = stack[go[j].th]
        /\ \A j \in 1 .. Low(go[i], stack) : stack'[go[i].th][j] = stack[go[i].th][j]
    BY <1>1, <1>3, <1>6, <2>2, <2>3
  <2> QED
    BY ONLY <2>1, <2>3, <2>4, <2>5, PrefixFramed
<1>13. ThreadsFit'
  <2> SUFFICES ASSUME NEW x \in Threads
               PROVE  /\ Active(go', x) => ~Dead'[x]
                      /\ ~Active(go', x) => Parent'[x] = None /\ (Dead'[x] \/ AllLua(stack'[x]))
                      /\ ~Dead'[x] => currentFrame'[x] = Len(stack'[x])
    BY DEF ThreadsFit, Depth
  <2>1. CASE x = co
    BY <1>2, <1>3, <1>6, <1>7, <1>8, <1>9, <2>1 DEF gs
  <2>2. CASE x # co
    BY <1>2, <1>6, <1>7, <1>8, <1>9, <2>2 DEF IInv, Status, ThreadsFit, Depth
  <2> QED
    BY <2>1, <2>2
<1>14. ResumesFit'
  <2> SUFFICES ASSUME NEW j \in 1 .. i, IsResume(go'[j])
               PROVE  IF j < i THEN go'[j].got = "nothing" /\ Parent'[go'[j].co] = go'[j].th
                      ELSE go'[j].got # "nothing"
    BY <1>1 DEF ResumesFit
  <2>1. CASE j < i
    <3>1. /\ go'[j] = go[j] /\ j # i /\ j \in 1 .. Len(go) /\ j < Len(go) /\ go[j] \in Activation
      BY <1>1, <1>3, <2>1, ElementOfSeq, SMTT(40) DEF IInv, Typed
    <3>2. go[j].got = "nothing" /\ Parent[go[j].co] = go[j].th
      BY <3>1 DEF IInv, Status, ResumesFit
    <3>3. go[j].co # co /\ go[j].co \in Threads
      BY <1>2, <3>1, ActivationTypes DEF IsResume
    <3> QED
      BY <1>8, <2>1, <3>1, <3>2, <3>3
  <2>2. CASE ~(j < i)
    <3>1. j = i
      BY <1>1, <2>2
    <3> QED
      BY <1>1, <1>3, <2>2, <3>1
  <2> QED
    BY <2>1, <2>2
<1>15. CurrentThread' = Executing'
  BY <1>1, <1>3 DEF Executing, Top
<1>16. Parent'[Main] = None /\ MainThread' = Main
  BY <1>2, <1>3, <1>8 DEF IInv, Status, Threads
<1> QED
  BY <1>10, <1>11, <1>12, <1>13, <1>14, <1>15, <1>16 DEF IInv, Status

-----------------------------------------------------------------------------
\* A thread that ends, in OP_RETURN.
LEMMA OpReturnEnds ==
  ASSUME IInv, OpReturn, EndsThread(Top.th, stack[Top.th])
  PROVE  GivesBack(Len(go) - 1, Front(go), stack[Top.th], "true", TRUE)
<1> DEFINE t == Top.th
           n == Len(go)
           m == n - 1
           fs == stack[t]
<1>1. SwitchToParentThread(t, fs, Front(go), "true", TRUE) /\ Running("mainLoop")
  BY DEF OpReturn, InLua
<1>2. /\ go # <<>> /\ n \in Nat \ {0} /\ n \in 1 .. n /\ t \in Threads /\ go \in Seq(Activation)
      /\ fs \in Seq(Kinds) /\ Len(fs) = 1 /\ Depth(t) = 1 /\ Parent[t] # None
      /\ Top \in Activation /\ Top.kind = "mainLoop" /\ ~IsResume(Top) /\ Top = go[n]
  BY <1>1, LoopOnTop, TopFacts DEF IInv, Typed, Running, Top, Depth, IsResume, EndsThread
<1>3. Low(go[n], stack) = 0
  <2>1. Low(Top, stack) < 1 /\ Low(Top, stack) \in Nat
    BY <1>1, <1>2, LoopOnTop, TopFacts
  <2> QED
    BY <1>2, <2>1
<1>4. m \in 1 .. n /\ n = m + 1
  BY <1>2, BelowLoop
<1>5. IsResume(go[m]) /\ go[m].co = t
  BY <1>2, <1>3, FirstOfCoroutine
<1>6. /\ Front(go) \in Seq(Activation) /\ Len(Front(go)) = m
      /\ \A j \in 1 .. m : Front(go)[j] = go[j]
  BY <1>2, FrontProperties
<1>7. /\ fs # <<>> /\ Front(fs) \in Seq(Kinds) /\ Len(Front(fs)) = 0
  <2>1. fs # <<>>
    BY <1>2
  <2> QED
    BY <1>2, <2>1, FrontProperties
<1> HIDE DEF m, n, fs, t
<1>8. \A j \in 1 .. n : m < j => j = n
  BY <1>2, <1>4
<1>9. m < n
  BY <1>2, <1>4
<1>10. Front(fs) = <<>> /\ Len(Front(fs)) <= MaxDepth
  BY <1>7, EmptySeq, CoroutinesAssumption DEF CoroutinesAssumption
<1>11. GivesBack(m, Front(go), fs, "true", TRUE)
  BY <1>1, <1>2, <1>4, <1>5, <1>6, <1>7, <1>8, <1>9, <1>10 DEF GivesBack, n
<1> QED
  BY <1>11 DEF m, n, fs, t

\* The mainLoop that called a Go function by OP_CALL or OP_TAILCALL.
LEMMA CallerOfGo ==
  ASSUME IInv, Running("GFunction"), Top.via # "mainLoop"
  PROVE  LET m == Len(go) - 1
             d == Depth(Top.th)
         IN  /\ m \in 1 .. Len(go) /\ m + 1 = Len(go)
             /\ go[m] \in Activation /\ go[m].kind = "mainLoop" /\ go[m].th = Top.th
             /\ d - 1 \in Nat \ {0} /\ Low(go[m], stack) \in Nat /\ Low(go[m], stack) < d - 1
             /\ \A j \in Low(go[m], stack) + 1 .. d - 1 : stack[Top.th][j] = "Lua"
<1> DEFINE n == Len(go)
           m == n - 1
           d == Depth(Top.th)
<1>1. /\ n \in Nat \ {0} /\ n \in 1 .. n /\ Top = go[n] /\ Top.kind = "GFunction"
      /\ d \in Nat \ {0} /\ Low(Top, stack) = d - 1
  BY GoOnTop, TopFacts DEF Running, Top
<1>2. m \in 1 .. n /\ n = m + 1 /\ m + 1 = n /\ ~IsResume(go[m])
  BY <1>1, BelowLoop
<1> HIDE DEF m, n, d
<1>3. go[m] \in Activation /\ Follows(go[m], go[n]) /\ Owns(go[m], stack, d - 1)
  BY <1>1, <1>2, BelowTop DEF n
<1>4. go[m].kind = "mainLoop" /\ go[m].th = Top.th
  BY <1>1, <1>2, <1>3 DEF Follows, RunsAbove
<1>5. Low(go[m], stack) \in Nat
  BY <1>3, LowTypes DEF IInv, Typed
<1>6. /\ Low(go[m], stack) < d - 1
      /\ \A j \in Low(go[m], stack) + 1 .. d - 1 : stack[Top.th][j] = "Lua"
  BY <1>3, <1>4 DEF Owns
<1>7. d - 1 \in Nat \ {0}
  BY <1>1, <1>5, <1>6
<1> QED
  BY <1>2, <1>3, <1>4, <1>5, <1>6, <1>7 DEF m, n, d

\* RemoveCallerFrame.
LEMMA WithoutCallerProperties ==
  ASSUME NEW S, NEW s \in Seq(S), Len(s) >= 2
  PROVE  /\ WithoutCaller(s) \in Seq(S) /\ WithoutCaller(s) # <<>>
         /\ Len(WithoutCaller(s)) = Len(s) - 1
         /\ \A j \in 1 .. Len(s) - 2 : WithoutCaller(s)[j] = s[j]
<1> DEFINE n == Len(s)
           k == n - 2
           p == SubSeq(s, 1, k)
           a == Last(s)
<1>1. n \in Nat /\ n >= 2
  BY LenProperties
<1>2. k \in 0 .. n /\ k \in Nat /\ k + 1 = n - 1 /\ n \in 1 .. n
  BY <1>1
<1> HIDE DEF k
<1>3. p \in Seq(S) /\ Len(p) = k /\ \A j \in 1 .. k : p[j] = s[j]
  BY <1>2, PrefixProperties
<1>4. a \in S
  BY <1>2, ElementOfSeq DEF Last
<1> HIDE DEF p, a
<1>5. /\ Append(p, a) \in Seq(S) /\ Append(p, a) # <<>> /\ Len(Append(p, a)) = k + 1
      /\ \A j \in 1 .. k : Append(p, a)[j] = s[j]
  <2>1. /\ Append(p, a) \in Seq(S) /\ Append(p, a) # <<>> /\ Len(Append(p, a)) = Len(p) + 1
        /\ \A j \in 1 .. Len(p) : Append(p, a)[j] = p[j]
    BY <1>3, <1>4, AppendProperties
  <2> QED
    BY <1>3, <2>1
<1> QED
  BY <1>2, <1>5 DEF WithoutCaller, p, a, k

\* The frames a Go function leaves to callGFunction, without the one it pops.
LEMMA FramesAfterProperties ==
  ASSUME IInv, Running("GFunction")
  PROVE  LET fs == FramesAfter(Top)
             k == Depth(Top.th) - (IF Top.via = "OP_TAILCALL" THEN 2 ELSE 1)
         IN  /\ fs \in Seq(Kinds) /\ fs # <<>> /\ Len(fs) = k + 1 /\ k \in 0 .. MaxDepth
             /\ Front(fs) \in Seq(Kinds) /\ Len(Front(fs)) = k
             /\ \A j \in 1 .. k : Front(fs)[j] = stack[Top.th][j]
<1> DEFINE s == stack[Top.th]
           d == Depth(Top.th)
           fs == FramesAfter(Top)
           k == d - (IF Top.via = "OP_TAILCALL" THEN 2 ELSE 1)
<1>1. /\ s \in Seq(Kinds) /\ d = Len(s) /\ d \in Nat \ {0} /\ d <= MaxDepth /\ MaxDepth \in Nat
      /\ Top.via # "mainLoop" => d - 1 \in Nat \ {0}
  BY GoOnTop, TopFacts, CallerOfGo, CoroutinesAssumption
     DEF Depth, IInv, Typed, CoroutinesAssumption, Running
<1> HIDE DEF s, d
<1>2. CASE Top.via = "OP_TAILCALL"
  <2>1. fs = WithoutCaller(s) /\ k = d - 2
    BY <1>2 DEF FramesAfter, s
  <2>2. d >= 2
    BY <1>1, <1>2
  <2>3. /\ fs \in Seq(Kinds) /\ fs # <<>> /\ Len(fs) = d - 1
        /\ \A j \in 1 .. d - 2 : fs[j] = s[j]
    BY <1>1, <2>1, <2>2, WithoutCallerProperties
  <2> HIDE DEF fs, k
  <2>4. /\ Front(fs) \in Seq(Kinds) /\ Len(Front(fs)) = d - 2
        /\ \A j \in 1 .. d - 2 : Front(fs)[j] = s[j]
    <3> DEFINE h == d - 2
    <3>1. Len(fs) - 1 = h
      BY <1>1, <2>3
    <3> HIDE DEF h
    <3>2. /\ Front(fs) \in Seq(Kinds) /\ Len(Front(fs)) = h
          /\ \A j \in 1 .. h : Front(fs)[j] = fs[j]
      BY <2>3, <3>1, FrontProperties
    <3> QED
      BY <2>3, <3>2 DEF h
  <2>5. d - 2 \in 0 .. MaxDepth /\ d - 1 = d - 2 + 1
    BY <1>1, <2>2
  <2> QED
    BY <2>1, <2>3, <2>4, <2>5 DEF fs, k, s, d
<1>3. CASE Top.via # "OP_TAILCALL"
  <2>1. fs = s /\ k = d - 1 /\ s # <<>>
    BY <1>1, <1>3 DEF FramesAfter, s
  <2>2. /\ Front(s) \in Seq(Kinds) /\ Len(Front(s)) = d - 1
        /\ \A j \in 1 .. d - 1 : Front(s)[j] = s[j]
    BY <1>1, <2>1, FrontProperties
  <2>3. d - 1 \in 0 .. MaxDepth /\ d = d - 1 + 1
    BY <1>1
  <2> HIDE DEF fs, k
  <2> QED
    BY <1>1, <2>1, <2>2, <2>3 DEF fs, k, s, d
<1> QED
  BY <1>2, <1>3

LEMMA FrontTwice ==
  ASSUME NEW S, NEW s \in Seq(S), Len(s) >= 2
  PROVE  /\ Front(Front(s)) \in Seq(S) /\ Len(Front(Front(s))) = Len(s) - 2
         /\ \A j \in 1 .. Len(s) - 2 : Front(Front(s))[j] = s[j]
<1> DEFINE n == Len(s)
           f == Front(s)
           k == n - 2
<1>1. n \in Nat /\ n >= 2
  BY LenProperties
<1>2. s # <<>>
  BY EmptySeq
<1>3. f \in Seq(S) /\ Len(f) = n - 1 /\ \A j \in 1 .. n - 1 : f[j] = s[j]
  BY <1>2, FrontProperties
<1> HIDE DEF f, n
<1>4. n - 1 = k + 1 /\ k \in Nat
  BY <1>1
<1> HIDE DEF k
<1>5. Len(f) = k + 1 /\ \A j \in 1 .. k : f[j] = s[j]
  BY <1>3, <1>4
<1>6. f # <<>> /\ Len(f) - 1 = k
  BY <1>4, <1>5, EmptySeq
<1>7. /\ Front(f) \in Seq(S) /\ Len(Front(f)) = k
      /\ \A j \in 1 .. k : Front(f)[j] = f[j]
  BY <1>3, <1>6, FrontProperties
<1> QED
  BY <1>5, <1>7 DEF f, k, n

\* callGFunction, but for a tail call in the first function of a coroutine.
LEMMA GoReturnsStep ==
  ASSUME IInv, GoReturns, ~(Top.via = "OP_TAILCALL" /\ EndsThread(Top.th, FramesAfter(Top)))
  PROVE  IInv' /\ Goes(Top.th)
<1> DEFINE t == Top.th
           n == Len(go)
           d == Depth(t)
           rest == Front(FramesAfter(Top))
           caller == go[n - 1]
           endsLoop == /\ Top.via = "OP_TAILCALL"
                       /\ rest = <<>> \/ Last(rest) = "G" \/ caller.base = Top.at - 1
<1>1. /\ SetFrames(t, rest) /\ Stays /\ Running("GFunction")
      /\ go' = IF endsLoop THEN Abandoned(Top) ELSE Front(go)
  BY DEF GoReturns, InGo, Stays
<1>2. /\ go # <<>> /\ n \in Nat \ {0} /\ n \in 1 .. n /\ t \in Threads /\ go \in Seq(Activation)
      /\ stack[t] \in Seq(Kinds) /\ d \in Nat \ {0} /\ d = Len(stack[t]) /\ d <= MaxDepth
      /\ Top \in Activation /\ Top.kind = "GFunction" /\ ~IsResume(Top) /\ Top = go[n]
      /\ Top.at = d /\ Low(Top, stack) = d - 1 /\ stack \in Stacks
  BY <1>1, GoOnTop, TopFacts DEF IInv, Typed, Running, Top, Depth, IsResume
<1>3. n - 1 \in 1 .. n /\ n - 1 + 1 = n /\ ~IsResume(go[n - 1])
  BY <1>2, BelowLoop
<1>4. /\ Front(go) \in Seq(Activation) /\ Len(Front(go)) = n - 1
      /\ \A j \in 1 .. n - 1 : Front(go)[j] = go[j]
  BY <1>2, FrontProperties
<1>5. /\ rest \in Seq(Kinds) /\ Len(rest) = d - (IF Top.via = "OP_TAILCALL" THEN 2 ELSE 1)
      /\ Len(rest) <= MaxDepth
      /\ \A j \in 1 .. Len(rest) : rest[j] = stack[t][j]
  <2> DEFINE k == d - (IF Top.via = "OP_TAILCALL" THEN 2 ELSE 1)
  <2>1. /\ rest \in Seq(Kinds) /\ Len(rest) = k /\ k \in 0 .. MaxDepth
        /\ \A j \in 1 .. k : rest[j] = stack[t][j]
    BY <1>1, FramesAfterProperties
  <2> HIDE DEF k, rest
  <2>2. Len(rest) <= MaxDepth
    BY <2>1, CoroutinesAssumption DEF CoroutinesAssumption
  <2>3. k = d - (IF Top.via = "OP_TAILCALL" THEN 2 ELSE 1)
    BY DEF k
  <2> QED
    BY <2>1, <2>2, <2>3
<1>6. Reframed(t, rest)
  <2>1. SetFrames(t, rest)
    BY <1>1
  <2>2. rest \in Seq(Kinds) /\ Len(rest) <= MaxDepth
    BY <1>5
  <2> HIDE DEF t, rest
  <2> QED
    BY <2>1, <2>2 DEF Reframed
<1>7. NoResumeFrom(n - 1)
  <2> DEFINE m == n - 1
  <2>1. n = m + 1 /\ m \in 1 .. n /\ n \in Nat
    BY <1>2, <1>3
  <2> HIDE DEF m, n
  <2>2. \A j \in 1 .. n : m <= j => j = m \/ j = n
    BY <2>1
  <2> QED
    BY <1>2, <1>3, <2>2 DEF NoResumeFrom, m, n
<1> HIDE DEF n, d, rest
<1>8. CASE Top.via # "OP_TAILCALL"
  <2>1. UnwindsTo(n - 1)
    BY <1>1, <1>4, <1>8 DEF UnwindsTo
  <2>2. Len(rest) = Low(go[n - 1 + 1], stack)
    BY <1>2, <1>3, <1>5, <1>8
  <2>3. n - 1 + 1 \in 1 .. n
    BY <1>2, <1>3
  <2> QED
    BY <1>1, <1>2, <1>3, <1>5, <1>6, <1>7, <2>1, <2>2, <2>3, UnwindsBelow DEF n
<1>9. CASE Top.via = "OP_TAILCALL"
  <2>1. /\ caller \in Activation /\ caller.kind = "mainLoop" /\ caller.th = t
        /\ d - 1 \in Nat \ {0} /\ Low(caller, stack) \in Nat /\ Low(caller, stack) < d - 1
        /\ \A j \in Low(caller, stack) + 1 .. d - 1 : stack[t][j] = "Lua"
    BY <1>1, <1>9, CallerOfGo DEF n, d
  <2> DEFINE k == d - 1
             m == n - 1
  <2>2. k \in Nat \ {0} /\ d - 2 = k - 1 /\ Len(rest) = k - 1 /\ k # d
    BY <1>2, <1>5, <1>9, <2>1, SMTT(40)
  <2>3. m \in 1 .. n /\ m + 1 = n /\ go[m] = caller /\ m \in Nat
    BY <1>3
  <2> HIDE DEF caller, k, m
  <2>4. /\ Low(caller, stack) < k
        /\ \A j \in Low(caller, stack) + 1 .. k : stack[caller.th][j] = "Lua"
    BY <2>1 DEF k
  <2>5. Low(caller, stack) = k - 1 <=> caller.base = k \/ k = 1 \/ stack[caller.th][k - 1] = "G"
    BY <1>2, <2>1, <2>2, <2>4, LoopEnds
  <2>6. Low(caller, stack) = k - 1 <=> endsLoop
    <3>1. caller.base = Top.at - 1 <=> caller.base = k
      BY <1>2 DEF k
    <3>2. rest = <<>> <=> k = 1
      <4>1. rest = <<>> <=> Len(rest) = 0
        BY <1>5, EmptySeq
      <4>2. k - 1 = 0 <=> k = 1
        BY <2>2
      <4> QED
        BY <2>2, <4>1, <4>2
    <3>3. k # 1 => Last(rest) = stack[caller.th][k - 1]
      <4>1. k # 1 => k - 1 \in 1 .. k - 1
        BY <2>2
      <4> QED
        BY <1>5, <2>1, <2>2, <4>1 DEF Last
    <3> QED
      BY <1>9, <2>5, <3>1, <3>2, <3>3
  <2> HIDE DEF endsLoop
  <2>7. CASE endsLoop
    <3>1. Low(go[m], stack) = k - 1
      BY <2>3, <2>6, <2>7
    <3> DEFINE l == m - 1
    <3>2. l \in 1 .. n /\ l + 1 = m /\ m \in 1 .. n
      BY <2>1, <2>3, BelowLoop DEF n
    <3>3. ~IsResume(go[l])
      <4>1. Low(go[m], stack) = 0 => Parent[t] = None
        <5>1. Low(go[m], stack) = 0 => k = 1
          BY <2>2, <3>1
        <5>2. k = 1 => Len(FramesAfter(Top)) = 1
          <6>1. k = 1 => d - 2 = 0
            BY <2>2
          <6>2. Len(FramesAfter(Top)) = d - 2 + 1
            BY <1>1, <1>9, FramesAfterProperties DEF d
          <6> QED
            BY <6>1, <6>2
        <5> QED
          BY <1>9, <5>1, <5>2 DEF EndsThread
      <4>2. go[m].kind = "mainLoop" /\ go[m].th = t /\ m \in 1 .. Len(go)
        BY <2>1, <2>3 DEF n
      <4> QED
        BY <4>1, <4>2, BelowLoop
    <3> HIDE DEF l
    <3>4. NoResumeFrom(l)
      <4>1. \A j \in 1 .. n : l <= j => j = l \/ m <= j
        BY <2>3, <3>2
      <4> QED
        BY <1>7, <3>3, <4>1 DEF NoResumeFrom, m, n
    <3>5. go' = Front(Front(go)) /\ l = n - 2 /\ n >= 2
      <4>1. go' = Abandoned(Top)
        BY <1>1, <2>7
      <4>2. l = n - 2 /\ n >= 2
        BY <1>2, <2>3, <3>2
      <4> QED
        BY <1>9, <4>1, <4>2 DEF Abandoned
    <3>6. UnwindsTo(l)
      BY <1>2, <3>5, FrontTwice DEF UnwindsTo, n
    <3>7. Len(rest) = Low(go[l + 1], stack)
      BY <2>2, <3>1, <3>2
    <3>8. l + 1 \in 1 .. n
      BY <3>2
    <3> QED
      BY <1>1, <1>2, <1>5, <1>6, <3>2, <3>4, <3>6, <3>7, <3>8, UnwindsBelow DEF n
  <2>8. CASE ~endsLoop
    <3>1. UnwindsTo(m)
      BY <1>1, <1>4, <2>8 DEF UnwindsTo, m
    <3>2. stack' \in Stacks /\ stack'[t] = rest
      BY <1>2, <1>6, ReframedStacks
    <3>3. Low(caller, stack') = Low(caller, stack) /\ Low(caller, stack) < k - 1
      <4>1. Low(caller, stack') = Low(caller, stack)
        BY <2>1 DEF Low
      <4>2. Low(caller, stack) # k - 1 /\ Low(caller, stack) \in Nat
        BY <2>1, <2>6, <2>8
      <4> QED
        BY <2>2, <2>4, <4>1, <4>2
    <3>4. \A j \in Low(caller, stack) + 1 .. k - 1 : rest[j] = "Lua"
      BY <1>5, <2>1, <2>2, <2>4, SMTT(40)
    <3>5. Owns(go[m], stack', Len(rest))
      BY <2>1, <2>2, <2>3, <3>2, <3>3, <3>4 DEF Owns
    <3>6. \A j \in 1 .. Low(go[m], stack) : rest[j] = stack[t][j]
      BY <1>5, <2>1, <2>2, <2>3, <3>3, SMTT(40)
    <3>7. NoResumeFrom(m)
      BY <1>7 DEF m
    <3> QED
      BY <1>1, <1>2, <1>6, <2>3, <3>1, <3>5, <3>6, <3>7, Unwinds DEF n
  <2> QED
    BY <2>7, <2>8
<1> QED
  BY <1>8, <1>9

\* A thread that ends by a tail call of a Go function.
LEMMA GoReturnsEnds ==
  ASSUME IInv, GoReturns, Top.via = "OP_TAILCALL", EndsThread(Top.th, FramesAfter(Top))
  PROVE  GivesBack(Len(go) - 2, Abandoned(Top), FramesAfter(Top), "true", TRUE)
<1> DEFINE t == Top.th
           n == Len(go)
           m == n - 1
           i == n - 2
           fs == FramesAfter(Top)
<1>1. SwitchToParentThread(t, fs, Abandoned(Top), "true", TRUE) /\ Running("GFunction")
  BY DEF GoReturns, InGo
<1>2. /\ go # <<>> /\ n \in Nat \ {0} /\ n \in 1 .. n /\ t \in Threads /\ go \in Seq(Activation)
      /\ Top.kind = "GFunction" /\ ~IsResume(Top) /\ Top = go[n]
      /\ Parent[t] # None /\ Len(fs) = 1
  BY <1>1, GoOnTop, TopFacts DEF IInv, Typed, Running, Top, IsResume, EndsThread
<1>3. /\ fs # <<>> /\ Front(fs) \in Seq(Kinds) /\ Len(Front(fs)) = Depth(t) - 2
      /\ 1 = Depth(t) - 2 + 1 /\ Depth(t) \in Nat
  BY <1>1, <1>2, FramesAfterProperties, GoOnTop
<1>4. /\ m \in 1 .. n /\ m + 1 = n /\ go[m].kind = "mainLoop" /\ go[m].th = t
      /\ Low(go[m], stack) \in Nat /\ Low(go[m], stack) < Depth(t) - 1
  BY <1>1, CallerOfGo
<1>5. Low(go[m], stack) = 0 /\ Len(Front(fs)) = 0
  BY <1>3, <1>4, SMTT(40)
<1>6. i \in 1 .. n /\ m = i + 1
  <2>1. m - 1 \in 1 .. n /\ m = m - 1 + 1
    BY <1>4, BelowLoop
  <2>2. m - 1 = i
    BY <1>2
  <2> QED
    BY <2>1, <2>2
<1>7. IsResume(go[i]) /\ go[i].co = t
  <2>1. go[m - 1] = go[i]
    BY <1>2
  <2> QED
    BY <1>2, <1>4, <1>5, <2>1, FirstOfCoroutine
<1>8. /\ Abandoned(Top) \in Seq(Activation) /\ Len(Abandoned(Top)) = i
      /\ \A j \in 1 .. i : Abandoned(Top)[j] = go[j]
  <2>1. n >= 2
    BY <1>2, <1>4, <1>6
  <2> QED
    BY <1>2, <2>1, FrontTwice DEF Abandoned
<1> HIDE DEF i, m, n, fs, t
<1>9. \A j \in 1 .. n : i < j => ~IsResume(go[j])
  <2>1. \A j \in 1 .. n : i < j => j = m \/ j = n
    BY <1>2, <1>4, <1>6
  <2> QED
    BY <1>2, <1>4, <2>1 DEF IsResume
<1>10. i < n
  BY <1>2, <1>4, <1>6
<1>11. Front(fs) = <<>> /\ Len(Front(fs)) <= MaxDepth
  BY <1>3, <1>5, EmptySeq, CoroutinesAssumption DEF CoroutinesAssumption
<1>12. GivesBack(i, Abandoned(Top), fs, "true", TRUE)
  BY <1>1, <1>3, <1>6, <1>7, <1>8, <1>9, <1>10, <1>11 DEF GivesBack, n
<1> QED
  BY <1>12 DEF i, n, fs, t

\* A yield comes from a Go function the first mainLoop of the coroutine called.
LEMMA GoYieldsStep ==
  ASSUME MayNest, IInv, GoYields, Parent[Top.th] # None
  PROVE  GivesBack(Len(go) - 2, Abandoned(Top), FramesAfter(Top), "true", FALSE)
<1> DEFINE t == Top.th
           n == Len(go)
           m == n - 1
           i == n - 2
           fs == FramesAfter(Top)
           d == Depth(t)
<1>1. /\ SwitchToParentThread(t, fs, Abandoned(Top), "true", FALSE) /\ Running("GFunction")
      /\ DirectlyResumed /\ (Habits = {} => Len(fs) # 1)
  BY DEF GoYields, InGo, MayNest, FirstFunction
<1>2. /\ go # <<>> /\ n \in Nat \ {0} /\ n \in 1 .. n /\ t \in Threads /\ go \in Seq(Activation)
      /\ Top.kind = "GFunction" /\ ~IsResume(Top) /\ Top = go[n] /\ d \in Nat \ {0}
  BY <1>1, GoOnTop, TopFacts DEF IInv, Typed, Running, Top, IsResume
<1>3. ~IsResume(go[m])
  BY <1>2, BelowLoop
<1>4. Top.via # "mainLoop" /\ i > 0 /\ IsResume(go[i]) /\ go[i].co = t
  BY <1>1, <1>3 DEF DirectlyResumed, IsResume
<1>5. /\ m \in 1 .. n /\ m + 1 = n /\ go[m].kind = "mainLoop" /\ go[m].th = t
      /\ Low(go[m], stack) \in Nat /\ Low(go[m], stack) < d - 1 /\ d - 1 \in Nat
      /\ \A j \in Low(go[m], stack) + 1 .. d - 1 : stack[t][j] = "Lua"
  BY <1>1, <1>4, CallerOfGo
<1>6. i \in 1 .. n /\ m = i + 1 /\ i < n
  BY <1>2, <1>4
<1>7. Low(go[m], stack) = 0
  BY <1>4, <1>5, <1>6, BelowTop DEF Follows, Low
<1> DEFINE k == d - (IF Top.via = "OP_TAILCALL" THEN 2 ELSE 1)
<1>8. /\ fs # <<>> /\ Front(fs) \in Seq(Kinds) /\ Len(Front(fs)) = k
      /\ Len(fs) = k + 1 /\ k \in 0 .. MaxDepth
      /\ \A j \in 1 .. k : Front(fs)[j] = stack[t][j]
  BY <1>1, FramesAfterProperties
<1>9. k <= d - 1
  BY <1>2
<1>10. /\ Abandoned(Top) \in Seq(Activation) /\ Len(Abandoned(Top)) = i
       /\ \A j \in 1 .. i : Abandoned(Top)[j] = go[j]
  <2>1. n >= 2
    BY <1>2, <1>4
  <2> QED
    BY <1>2, <1>4, <2>1, FrontTwice DEF Abandoned
<1> HIDE DEF i, m, n, fs, t, k, d
<1>11. \A j \in 1 .. n : i < j => ~IsResume(go[j])
  <2>1. \A j \in 1 .. n : i < j => j = m \/ j = n
    BY <1>2, <1>5, <1>6
  <2> QED
    BY <1>2, <1>5, <2>1 DEF IsResume
<1>12. AllLua(Front(fs))
  BY <1>5, <1>7, <1>8, <1>9 DEF AllLua
<1>13. Habits = {} => Front(fs) # <<>>
  <2>1. Habits = {} => k # 0
    BY <1>1, <1>8
  <2> QED
    BY <1>8, <2>1
<1>14. Len(Front(fs)) <= MaxDepth
  BY <1>8, CoroutinesAssumption DEF CoroutinesAssumption
<1>15. GivesBack(i, Abandoned(Top), fs, "true", FALSE)
  BY <1>1, <1>4, <1>6, <1>8, <1>10, <1>11, <1>12, <1>13, <1>14 DEF GivesBack, n
<1> QED
  BY <1>15 DEF i, n, fs, t

\* An error is recovered by the Resume of a coroutine.
LEMMA RaiseToResume ==
  ASSUME IInv, go # <<>>, Top.kind \in {"mainLoop", "GFunction"}, Raise,
         Recovering # {}, go[Max(Recovering)].kind # "PCall"
  PROVE  LET i == Max(Recovering)
         IN  GivesBack(i, SubSeq(go, 1, i), stack[go[i].co], "false", TRUE)
<1> DEFINE n == Len(go)
           i == Max(Recovering)
           co == go[i].co
           fs == stack[co]
<1>1. /\ n \in Nat \ {0} /\ n \in 1 .. n /\ go \in Seq(Activation) /\ ~IsResume(Top)
      /\ Top = go[n] /\ stack \in Stacks /\ Owns(Top, stack, Depth(Top.th)) /\ Top \in Activation
  BY TopFacts DEF IInv, Typed, Top, IsResume
<1>2. i \in Recovering /\ i \in 1 .. n /\ \A x \in Recovering : x <= i
  <2>1. Recovering \subseteq 1 .. n
    BY DEF Recovering
  <2> QED
    BY <1>1, <2>1, MaxProperties
<1>3. SwitchToParentThread(co, fs, SubSeq(go, 1, i), "false", TRUE)
  BY DEF Raise
<1>4. IsResume(go[i]) /\ go[i] \in Activation
  BY <1>1, <1>2, ElementOfSeq DEF Recovering, IsResume
<1>5. co \in Threads
  BY <1>4, ActivationTypes DEF IsResume
<1> HIDE DEF n, i
<1>6. i < n
  <2>1. i # n
    BY <1>1, <1>4
  <2> QED
    BY <1>1, <1>2, <2>1
<1>7. \A j \in 1 .. n : i < j => ~IsResume(go[j])
  <2> SUFFICES ASSUME NEW j \in 1 .. n, i < j, IsResume(go[j])
               PROVE  FALSE
    OBVIOUS
  <2>1. j < n
    <3>1. j # n
      BY <1>1
    <3> QED
      BY <1>1, <3>1
  <2>2. Parent[go[j].co] = go[j].th /\ go[j] \in Activation
    BY <1>1, <2>1, ElementOfSeq DEF IInv, Status, ResumesFit, n
  <2>3. Parent[go[j].co] # None
    BY <2>2, ActivationTypes, CoroutinesAssumption DEF CoroutinesAssumption, Threads
  <2>4. j \in Recovering
    BY <2>3 DEF Recovering, IsResume, n
  <2> QED
    BY <1>2, <2>4
<1>8. /\ SubSeq(go, 1, i) \in Seq(Activation) /\ Len(SubSeq(go, 1, i)) = i
      /\ \A j \in 1 .. i : SubSeq(go, 1, i)[j] = go[j]
  <2>1. i \in 0 .. n
    BY <1>2
  <2> QED
    BY <1>1, <2>1, PrefixProperties DEF n
<1>9. fs \in Seq(Kinds) /\ Len(fs) <= MaxDepth /\ Len(fs) \in Nat
  BY <1>5 DEF IInv, Typed, Stacks, Depth
<1>10. fs # <<>>
  <2> DEFINE k == i + 1
  <2>1. k \in 1 .. n /\ k = i + 1 /\ NoResumeFrom(k)
    BY <1>1, <1>2, <1>6, <1>7 DEF NoResumeFrom, n
  <2> HIDE DEF k
  <2>2. Follows(go[i], go[k]) /\ go[k] \in Activation
    BY <1>2, <2>1, BelowTop DEF n
  <2>3. go[k].kind = "mainLoop" /\ go[k].th = co
    BY <1>4, <2>2 DEF Follows, RunsAbove
  <2>4. Top.th = co
    BY <2>1, <2>3, SameThread DEF n
  <2>5. Low(go[k], stack) \in Nat /\ Low(go[k], stack) < Up(go, stack, k)
    BY <1>1, <2>1, <2>2, <2>3, LowTypes DEF IInv, Framed, AllOwn, Owns, n
  <2>6. Up(go, stack, k) <= Len(fs)
    <3>1. CASE k = n
      BY <1>1, <1>9, <2>4, <3>1 DEF Up, n
    <3>2. CASE k # n
      <4>1. k < n
        BY <1>1, <2>1, <3>2
      <4>2. Up(go, stack, k) <= Low(Top, stack)
        BY <1>1, <2>1, <2>3, <2>4, <4>1 DEF IInv, Framed, Rising, n
      <4>3. Low(Top, stack) <= Len(fs) /\ Low(Top, stack) \in Nat
        <5>1. Depth(Top.th) = Len(fs) /\ Depth(Top.th) \in Nat
          BY <1>9, <2>4 DEF Depth
        <5>2. Low(Top, stack) <= Depth(Top.th)
          BY <1>1, <5>1, OwnedIsAbove
        <5> QED
          BY <1>1, <5>1, <5>2, LowTypes
      <4>4. Up(go, stack, k) \in Nat
        BY <1>1, <2>1, UpTypes DEF n
      <4> QED
        BY <1>9, <4>2, <4>3, <4>4
    <3> QED
      BY <3>1, <3>2
  <2>7. Up(go, stack, k) \in Nat
    BY <1>1, <2>1, UpTypes DEF n
  <2>8. Len(fs) # 0
    BY <1>9, <2>5, <2>6, <2>7
  <2> QED
    BY <2>8
<1>11. Front(fs) \in Seq(Kinds) /\ Len(Front(fs)) <= MaxDepth
  <2>1. Front(fs) \in Seq(Kinds) /\ Len(Front(fs)) = Len(fs) - 1
    BY <1>9, <1>10, FrontProperties
  <2> QED
    BY <1>9, <2>1, CoroutinesAssumption DEF CoroutinesAssumption
<1> HIDE DEF co, fs
<1>12. GivesBack(i, SubSeq(go, 1, i), fs, "false", TRUE)
  BY <1>2, <1>3, <1>4, <1>6, <1>7, <1>8, <1>10, <1>11 DEF GivesBack, n, co
<1> QED
  BY <1>12 DEF i, fs, co

\* Every error is recovered, and there is none outside of all calls.
LEMMA AlwaysRecovered ==
  ASSUME IInv, go # <<>>, Top.kind \in {"mainLoop", "GFunction"}
  PROVE  Recovering # {}
<1>1. Len(go) \in Nat \ {0} /\ 1 \in 1 .. Len(go) /\ Len(go) \in 1 .. Len(go)
      /\ ~IsResume(go[Len(go)])
  BY TopFacts DEF Top, IsResume
<1>2. go[1].kind \in {"PCall", "Resume"}
  BY DEF IInv, Chained, FromHost
<1>3. go[1].kind = "Resume" => Parent[go[1].co] # None
  <2> SUFFICES ASSUME IsResume(go[1])
               PROVE  Parent[go[1].co] # None
    BY DEF IsResume
  <2>1. 1 < Len(go) /\ go[1] \in Activation
    BY <1>1, ElementOfSeq DEF IInv, Typed
  <2>2. Parent[go[1].co] = go[1].th
    BY <1>1, <2>1 DEF IInv, Status, ResumesFit
  <2> QED
    BY <2>1, <2>2, ActivationTypes, CoroutinesAssumption DEF CoroutinesAssumption, Threads
<1> QED
  BY <1>1, <1>2, <1>3 DEF Recovering

\* Raise, in all cases.
LEMMA RaiseStep ==
  ASSUME IInv, go = <<>> \/ Top.kind \in {"mainLoop", "GFunction"}, Raise
  PROVE  \/ UNCHANGED vars
         \/ IInv' /\ Goes(Top.th)
         \/ \E i, acts, fs, flag, kill : GivesBack(i, acts, fs, flag, kill)
<1>1. CASE go = <<>>
  <2>1. Recovering = {}
    BY <1>1 DEF Recovering
  <2> QED
    BY <1>1, <2>1 DEF Raise, vars, lstate
<1>2. CASE go # <<>>
  <2>1. Recovering # {}
    BY <1>2, AlwaysRecovered
  <2>2. CASE go[Max(Recovering)].kind = "PCall"
    BY <1>2, <2>1, <2>2, RaiseToPCall
  <2>3. CASE go[Max(Recovering)].kind # "PCall"
    BY <1>2, <2>1, <2>3, RaiseToResume
  <2> QED
    BY <2>2, <2>3
<1> QED
  BY <1>1, <1>2

-----------------------------------------------------------------------------
\* Who may call Resume.
Asks(t, co) ==
  \/ go = <<>> /\ t = Main /\ co \in Cos
  \/ Running("GFunction") /\ t = Top.th /\ co \in Threads

LEMMA AsksFacts ==
  ASSUME IInv, NEW t, NEW co, Asks(t, co)
  PROVE  /\ t \in Threads /\ co \in Threads /\ t = Executing /\ t = CurrentThread
         /\ Active(go, t) /\ ~Dead[t] /\ Len(go) \in Nat
         /\ \A i \in 1 .. Len(go) : IsResume(go[i]) => i < Len(go)
         /\ go # <<>> => Top.kind = "GFunction" /\ t = Top.th /\ currentFrame[t] # 0
         /\ go = <<>> => t = Main /\ co # Main /\ Len(stack[Main]) = 0
<1>1. CurrentThread = Executing
  BY DEF IInv, Status
<1>2. CASE go = <<>>
  <2>1. t = Main /\ co \in Cos /\ Main \notin Cos /\ Len(go) = 0 /\ Len(stack[Main]) = 0
    BY <1>2, CoroutinesAssumption
       DEF Asks, Running, CoroutinesAssumption, IInv, Framed, Grounded
  <2>2. Main \in Threads /\ co \in Threads /\ Active(go, Main) /\ Executing = Main
    BY <1>2, <2>1 DEF Threads, Active, Executing
  <2>3. ~Dead[Main]
    BY <2>2 DEF IInv, Status, ThreadsFit
  <2> QED
    BY <1>1, <1>2, <2>1, <2>2, <2>3
<1>3. CASE go # <<>>
  <2>1. Running("GFunction") /\ t = Top.th /\ co \in Threads
    BY <1>3 DEF Asks
  <2>2. Top.kind = "GFunction" /\ ~IsResume(go[Len(go)])
    BY <2>1 DEF Running, IsResume, Top
  <2>3. currentFrame[t] # 0
    BY <1>3, <2>1, GoOnTop, TopFacts
  <2> QED
    BY <1>1, <1>3, <2>1, <2>2, <2>3, TopFacts
<1> QED
  BY <1>2, <1>3

\* A thread that neither runs nor waits has no activations.
LEMMA NoActivations ==
  ASSUME IInv, NEW t, NEW co, Asks(t, co), co # t, ~OnGoStack(co)
  PROVE  /\ co # Main /\ ~Active(go, co)
         /\ \A i \in 1 .. Len(go) : go[i].th # co
         /\ \A i \in 1 .. Len(go) : IsResume(go[i]) => go[i].co # co
<1>1. ASSUME NEW i \in 1 .. Len(go), IsResume(go[i])
      PROVE  go[i].co # co /\ go[i].th # co
  BY <1>1 DEF OnGoStack, IsResume
<1>2. ASSUME NEW i \in 1 .. Len(go), go[i].th = co
      PROVE  FALSE
  <2> DEFINE n == Len(go)
  <2>1. n \in Nat /\ n \in 1 .. n /\ go # <<>> /\ Top = go[n]
    BY EmptySeq, AsksFacts DEF Top
  <2>2. go[n].th = t
    BY <2>1, AsksFacts
  <2>3. i < n
    BY <1>2, <2>1, <2>2
  <2>4. PICK j \in i .. n - 1 : IsResume(go[j]) /\ go[j].th = co
    BY <1>2, <2>1, <2>2, <2>3 DEF IInv, Chained, OthersResumed
  <2>5. j \in 1 .. n
    BY <2>1
  <2> QED
    BY <1>1, <2>4, <2>5
<1>3. co # Main
  <2>1. CASE go = <<>>
    BY <2>1, AsksFacts
  <2>2. CASE go # <<>>
    BY <1>2, <2>2, EmptySeq, AsksFacts DEF IInv, Chained, FromHost
  <2> QED
    BY <2>1, <2>2
<1>4. ~Active(go, co)
  BY <1>1, <1>3 DEF Active
<1> QED
  BY <1>1, <1>2, <1>3, <1>4

\* The frames a coroutine goes on with.
LEMMA FreshFrames ==
  ASSUME IInv, NEW co \in Threads, ~Active(go, co), ~Dead[co], NEW kind, kind = "Lua"
  PROVE  LET fs == Frames0(co, kind)
         IN  fs \in Seq(Kinds) /\ fs # <<>> /\ Len(fs) \in Nat \ {0} /\ AllLua(fs)
             /\ Last(fs) = "Lua"
<1> DEFINE s == stack[co]
           fs == Frames0(co, kind)
<1>1. s \in Seq(Kinds) /\ Len(s) \in Nat /\ AllLua(s) /\ currentFrame[co] = Len(s)
  BY LenProperties DEF IInv, Typed, Stacks, Status, ThreadsFit, Depth
<1>2. "Lua" \in Kinds
  BY DEF Kinds
<1>3. fs \in Seq(Kinds) /\ Len(fs) \in Nat \ {0} /\ AllLua(fs)
  <2>1. CASE currentFrame[co] = 0
    <3>1. fs = Append(s, "Lua")
      BY <2>1 DEF Frames0
    <3>2. /\ Append(s, "Lua") \in Seq(Kinds) /\ Len(Append(s, "Lua")) = 1
          /\ Append(s, "Lua")[1] = "Lua"
      <4>1. s \in Seq(Kinds) /\ Len(s) = 0
        BY <1>1, <2>1
      <4> HIDE DEF s
      <4>2. /\ Append(s, "Lua") \in Seq(Kinds) /\ Len(Append(s, "Lua")) = Len(s) + 1
            /\ Append(s, "Lua")[Len(s) + 1] = "Lua"
        BY <1>2, <4>1, AppendProperties
      <4> QED
        BY <4>1, <4>2
    <3>3. \A j \in 1 .. 1 : j = 1
      OBVIOUS
    <3> HIDE DEF fs
    <3> QED
      BY <3>1, <3>2, <3>3 DEF AllLua
  <2>2. CASE currentFrame[co] # 0
    <3>1. fs = s
      BY <2>2 DEF Frames0
    <3> QED
      BY <1>1, <2>2, <3>1
  <2> QED
    BY <2>1, <2>2
<1> HIDE DEF fs
<1>4. Last(fs) = "Lua" /\ fs # <<>>
  BY <1>3, EmptySeq DEF AllLua, Last
<1> QED
  BY <1>3, <1>4 DEF fs

\* A thread that is not on the Go stack is resumed.
Resumes(t, co) ==
  /\ t \in Threads /\ co \in Threads /\ co # t /\ co # Main
  /\ t = CurrentThread /\ ~Dead[co] /\ Parent[co] = None
  /\ CurrentThread' = co /\ Parent' = [Parent EXCEPT ![co] = t]
  /\ Dead' = Dead /\ begun' = begun \cup {co}
  /\ \A x \in Threads : x # co => stack'[x] = stack[x]
  /\ \A x \in Threads : Active(go', x) <=> Active(go, x) \/ x = co
  /\ go' # <<>> /\ ~IsResume(go'[Len(go')])

\* The Go stack with the Resume and the mainLoop it enters.
LEMMA ResumedGo ==
  ASSUME IInv, NEW t, NEW co, Asks(t, co), co # t, ~OnGoStack(co),
         go' = Append(Append(go, Resuming(t, co)), Loop(co, 0)),
         stack' \in Stacks, \A x \in Threads : x # co => stack'[x] = stack[x],
         stack'[co] # <<>>, AllLua(stack'[co])
  PROVE  /\ go' \in Seq(Activation) /\ Chained(go') /\ Framed(go', stack')
         /\ Len(go') = Len(go) + 2 /\ go' # <<>>
         /\ go'[Len(go) + 1] = Resuming(t, co) /\ go'[Len(go) + 2] = Loop(co, 0)
         /\ \A i \in 1 .. Len(go) : go'[i] = go[i]
<1> DEFINE n == Len(go)
           a == Resuming(t, co)
           b == Loop(co, 0)
           g == Append(go, a)
<1>1. /\ t \in Threads /\ co \in Threads /\ n \in Nat /\ go \in Seq(Activation)
      /\ go # <<>> => Top.kind = "GFunction" /\ t = Top.th
      /\ go = <<>> => t = Main /\ Len(stack[Main]) = 0
      /\ Chained(go) /\ Framed(go, stack) /\ stack \in Stacks
  BY AsksFacts DEF IInv, Typed
<1>2. co # Main /\ \A i \in 1 .. n : go[i].th # co
  BY NoActivations
<1>3. a \in Activation /\ a.kind = "Resume" /\ IsResume(a) /\ a.th = t /\ a.co = co
  BY <1>1, MadeResuming DEF IsResume
<1>4. /\ b \in Activation /\ b.kind = "mainLoop" /\ ~IsResume(b) /\ b.th = co /\ b.base = 0
  BY <1>1, MadeLoop DEF IsResume
<1> HIDE DEF a, b
<1>5. g \in Seq(Activation) /\ Len(g) = n + 1 /\ g[n + 1] = a /\ \A i \in 1 .. n : g[i] = go[i]
  BY <1>1, <1>3, AppendProperties
<1>6. g # <<>> /\ g[Len(g)] = a /\ IsResume(g[Len(g)])
  BY <1>1, <1>3, <1>5, EmptySeq
<1>7. Chained(g)
  <2>1. CASE go = <<>>
    <3>1. g = <<a>>
      BY <2>1
    <3>2. Chained(<<a>>)
      BY <1>1, <1>2, <1>3, <2>1, StartChained
    <3> QED
      BY <3>1, <3>2
  <2>2. CASE go # <<>>
    <3>1. Follows(go[n], a)
      BY <1>1, <1>3, <2>2 DEF Follows, RunsAbove, IsResume, Top
    <3> QED
      BY <1>1, <1>2, <1>3, <2>2, <3>1, PushChained
  <2> QED
    BY <2>1, <2>2
<1>8. Framed(g, stack)
  <2>1. Low(a, stack) = Len(stack[t]) /\ Owns(a, stack, Len(stack[t]))
    BY <1>3 DEF Low, Owns
  <2>2. CASE go = <<>>
    <3>1. g = <<a>>
      BY <2>2
    <3>2. Framed(<<a>>, stack)
      BY <1>1, <1>3, <2>1, <2>2, StartFramed
    <3> QED
      BY <3>1, <3>2
  <2>3. CASE go # <<>>
    <3>1. ~IsResume(go[Len(go)])
      BY <1>1, <2>3 DEF Top, IsResume
    <3>2. Low(a, stack) = Len(stack[a.th]) /\ Owns(a, stack, Len(stack[a.th]))
      BY <1>3, <2>1
    <3> QED
      BY <1>1, <1>3, <1>7, <2>3, <3>1, <3>2, PushFramed
  <2> QED
    BY <2>2, <2>3
<1> HIDE DEF g, n
<1>9. Follows(g[Len(g)], b)
  BY <1>3, <1>4, <1>6 DEF Follows, RunsAbove
<1>10. Chained(Append(g, b))
  BY <1>4, <1>5, <1>6, <1>7, <1>9, PushChained
<1>11. Low(b, stack') = 0
  BY <1>4 DEF Low
<1>12. Owns(b, stack', Len(stack'[b.th]))
  <2>1. stack'[co] \in Seq(Kinds) /\ Len(stack'[co]) \in Nat \ {0}
    BY <1>1, LenProperties, EmptySeq DEF Stacks
  <2> QED
    BY <1>4, <1>11, <2>1 DEF Owns, AllLua
<1>13. Framed(Append(g, b), stack')
  BY <1>1, <1>4, <1>5, <1>6, <1>7, <1>8, <1>10, <1>11, <1>12, PushFramed, SMTT(40)
<1>14. go' = Append(g, b)
  BY DEF g, a, b
<1>15. /\ go' \in Seq(Activation) /\ Len(go') = n + 1 + 1 /\ go' # <<>> /\ go'[n + 1 + 1] = b
       /\ \A i \in 1 .. n + 1 : go'[i] = g[i]
  <2> DEFINE h == Append(g, b)
  <2>1. /\ h \in Seq(Activation) /\ Len(h) = Len(g) + 1 /\ h # <<>> /\ h[Len(g) + 1] = b
        /\ \A i \in 1 .. Len(g) : h[i] = g[i]
    BY <1>4, <1>5, AppendProperties
  <2> HIDE DEF h
  <2>2. go' = h /\ Len(g) = n + 1
    BY <1>5, <1>14 DEF h
  <2> QED
    BY <2>1, <2>2
<1>16. n + 1 + 1 = n + 2 /\ n + 1 \in 1 .. n + 1 /\ \A i \in 1 .. n : i \in 1 .. n + 1
  BY <1>1
<1> QED
  BY <1>5, <1>10, <1>13, <1>14, <1>15, <1>16 DEF a, b, n

LEMMA ResumeRunsStep ==
  ASSUME IInv, NEW t, NEW co, Asks(t, co), co # t => ~OnGoStack(co),
         NEW kind, kind = "Lua", ResumeRuns(t, co, kind)
  PROVE  IInv' /\ Resumes(t, co)
<1> DEFINE n == Len(go)
           fs == Frames0(co, kind)
<1>1. /\ ~Rejected(co) /\ Len(fs) <= MaxDepth /\ SetFrames(co, fs)
      /\ Parent' = [Parent EXCEPT ![co] = t] /\ CurrentThread' = co
      /\ go' = go \o (IF fs = <<>> THEN <<Resuming(t, co)>>
                      ELSE <<Resuming(t, co), Enter(co, Last(fs), 0, Len(fs))>>)
      /\ begun' = begun \cup {co} /\ Dead' = Dead /\ MainThread' = MainThread
  BY DEF ResumeRuns
<1>2. /\ t \in Threads /\ co \in Threads /\ t = CurrentThread /\ n \in Nat
      /\ \A i \in 1 .. n : IsResume(go[i]) => i < n
      /\ co # t /\ ~Dead[co] /\ go \in Seq(Activation)
  BY <1>1, AsksFacts DEF Rejected, IInv, Typed
<1>3. /\ co # Main /\ ~Active(go, co) /\ \A i \in 1 .. n : go[i].th # co
      /\ \A i \in 1 .. n : IsResume(go[i]) => go[i].co # co
  BY <1>2, NoActivations
<1>4. fs \in Seq(Kinds) /\ fs # <<>> /\ Len(fs) \in Nat \ {0} /\ AllLua(fs) /\ Last(fs) = "Lua"
  BY <1>2, <1>3, FreshFrames
<1> HIDE DEF fs
<1>5. go' = Append(Append(go, Resuming(t, co)), Loop(co, 0))
  <2> DEFINE a == Resuming(t, co)
             b == Loop(co, 0)
  <2>1. Enter(co, Last(fs), 0, Len(fs)) = b
    BY <1>4 DEF Enter
  <2>2. a \in Activation /\ b \in Activation
    BY <1>2, MadeLoop, MadeResuming
  <2>3. go' = go \o <<a, b>>
    BY <1>1, <1>4, <2>1
  <2> HIDE DEF a, b
  <2>4. go \o <<a, b>> = Append(Append(go, a), b)
    BY <1>2, <2>2
  <2> QED
    BY <2>3, <2>4 DEF a, b
<1>6. Reframed(co, fs)
  BY <1>1, <1>4 DEF Reframed
<1>7. stack' \in Stacks /\ stack'[co] = fs /\ \A x \in Threads : x # co => stack'[x] = stack[x]
  BY <1>2, <1>6, ReframedStacks
<1>8. /\ go' \in Seq(Activation) /\ Chained(go') /\ Framed(go', stack')
      /\ Len(go') = n + 2 /\ go' # <<>>
      /\ go'[n + 1] = Resuming(t, co) /\ go'[n + 2] = Loop(co, 0)
      /\ \A i \in 1 .. n : go'[i] = go[i]
  BY <1>2, <1>4, <1>5, <1>7, ResumedGo
<1>9. /\ currentFrame' \in [Threads -> 0 .. MaxDepth] /\ currentFrame'[co] = Len(fs)
      /\ \A x \in Threads : x # co => currentFrame'[x] = currentFrame[x]
  <2>1. Len(fs) \in 0 .. MaxDepth
    BY <1>1, <1>4, CoroutinesAssumption DEF CoroutinesAssumption
  <2> QED
    BY <1>1, <1>2, <2>1 DEF IInv, Typed, SetFrames
<1>10. /\ Parent' \in [Threads -> Threads \cup {None}] /\ Parent'[co] = t
       /\ \A x \in Threads : x # co => Parent'[x] = Parent[x]
  BY <1>1, <1>2 DEF IInv, Typed
<1> HIDE DEF n
<1>11. \A i \in 1 .. n + 2 : i \in 1 .. n \/ i = n + 1 \/ i = n + 2
  BY <1>2
<1>12. /\ IsResume(go'[n + 1]) /\ go'[n + 1].th = t /\ go'[n + 1].co = co
       /\ go'[n + 1].got = "nothing"
       /\ ~IsResume(go'[n + 2]) /\ go'[n + 2].th = co
       /\ n + 1 \in 1 .. n + 2 /\ n + 2 \in 1 .. n + 2 /\ n + 1 < n + 2
  BY <1>2, <1>8, MadeResuming, MadeLoop DEF IsResume
<1>13. \A x \in Threads : Active(go', x) <=> Active(go, x) \/ x = co
  <2>1. \A i \in 1 .. n : i \in 1 .. n + 2 /\ i < n + 2
    BY <1>2
  <2> QED
    BY <1>2, <1>8, <1>11, <1>12, <2>1 DEF Active, n
<1>14. Typed'
  BY <1>1, <1>2, <1>4, <1>7, <1>8, <1>9, <1>10 DEF IInv, Typed, Depth
<1>15. ThreadsFit'
  <2> SUFFICES ASSUME NEW x \in Threads
               PROVE  /\ Active(go', x) => ~Dead'[x]
                      /\ ~Active(go', x) => Parent'[x] = None /\ (Dead'[x] \/ AllLua(stack'[x]))
                      /\ ~Dead'[x] => currentFrame'[x] = Len(stack'[x])
    BY DEF ThreadsFit, Depth
  <2>1. CASE x = co
    BY <1>1, <1>2, <1>7, <1>9, <1>13, <2>1
  <2>2. CASE x # co
    BY <1>1, <1>7, <1>9, <1>10, <1>13, <2>2 DEF IInv, Status, ThreadsFit, Depth
  <2> QED
    BY <2>1, <2>2
<1>16. ResumesFit'
  <2> SUFFICES ASSUME NEW i \in 1 .. n + 2, IsResume(go'[i])
               PROVE  i < n + 2 /\ go'[i].got = "nothing" /\ Parent'[go'[i].co] = go'[i].th
    BY <1>8 DEF ResumesFit
  <2>1. CASE i \in 1 .. n
    <3>1. go'[i] = go[i] /\ go[i] \in Activation
      BY <1>2, <1>8, <2>1, ElementOfSeq DEF n
    <3>2. i < n /\ IsResume(go[i]) /\ go[i].co # co /\ go[i].co \in Threads
      BY <1>2, <1>3, <2>1, <3>1, ActivationTypes DEF IsResume
    <3>3. go[i].got = "nothing" /\ Parent[go[i].co] = go[i].th
      BY <2>1, <3>2 DEF IInv, Status, ResumesFit, n
    <3>4. i < n + 2
      BY <1>2, <3>2
    <3> QED
      BY <1>10, <3>1, <3>2, <3>3, <3>4
  <2>2. CASE i = n + 1
    BY <1>10, <1>12, <2>2
  <2> QED
    BY <1>11, <1>12, <2>1, <2>2
<1>17. CurrentThread' = Executing'
  BY <1>1, <1>8, <1>12 DEF Executing, Top
<1>18. Parent'[Main] = None /\ MainThread' = Main
  BY <1>1, <1>3, <1>10 DEF IInv, Status, Threads
<1>19. IInv'
  BY <1>8, <1>14, <1>15, <1>16, <1>17, <1>18 DEF IInv, Status
<1>20. Parent[co] = None
  BY <1>2, <1>3 DEF IInv, Status, ThreadsFit
<1>21. Resumes(t, co)
  BY <1>1, <1>2, <1>3, <1>7, <1>8, <1>12, <1>13, <1>20 DEF Resumes
<1> QED
  BY <1>19, <1>21

\* A dead thread is not resumed, but may get a frame.
Rejects(co) ==
  /\ co \in Threads /\ Dead[co]
  /\ UNCHANGED <<currentFrame, Parent, Dead, MainThread, CurrentThread, go, begun>>
  /\ \A x \in Threads : x # co => stack'[x] = stack[x]
  /\ \A i \in 1 .. Len(go) : IsResume(go[i]) => i < Len(go)

LEMMA ResumeRejectedStep ==
  ASSUME IInv, NEW t, NEW co, Asks(t, co), NEW kind, kind = "Lua", ResumeRejected(co, kind)
  PROVE  UNCHANGED vars \/ (IInv' /\ Rejects(co))
<1> DEFINE fs == Frames0(co, kind)
<1>1. /\ Rejected(co) /\ Len(fs) <= MaxDepth /\ stack' = [stack EXCEPT ![co] = fs]
      /\ UNCHANGED <<currentFrame, Parent, Dead, MainThread, CurrentThread, go, begun>>
  BY DEF ResumeRejected
<1>2. /\ co \in Threads /\ t = CurrentThread /\ t = Executing /\ stack \in Stacks
      /\ \A i \in 1 .. Len(go) : IsResume(go[i]) => i < Len(go)
      /\ stack[co] \in Seq(Kinds) /\ go \in Seq(Activation)
  BY AsksFacts DEF IInv, Typed, Stacks
<1>3. CASE ~Dead[co]
  <2>1. co = t
    BY <1>1, <1>2, <1>3 DEF Rejected
  <2>2. fs = stack[co]
    BY <2>1, AsksFacts DEF Frames0
  <2>3. stack' = stack
    BY <1>1, <1>2, <2>2 DEF Stacks
  <2> QED
    BY <1>1, <2>3 DEF vars
<1>4. CASE Dead[co]
  <2>1. ~Active(go, co)
    BY <1>2, <1>4 DEF IInv, Status, ThreadsFit
  <2>2. co # Main
    BY <2>1 DEF Active
  <2>3. \A k \in 1 .. Len(go) : go[k].th # co
    <3> SUFFICES ASSUME NEW k \in 1 .. Len(go), go[k].th = co
                 PROVE  FALSE
      OBVIOUS
    <3>1. PICK j \in 1 .. Len(go) : j < k /\ IsResume(go[j]) /\ go[j].co = co
      BY <2>2 DEF IInv, Chained, Resumed
    <3>2. j < Len(go)
      BY <1>2, <3>1
    <3> QED
      BY <2>1, <3>1, <3>2 DEF Active
  <2>4. fs \in Seq(Kinds)
    <3>1. kind \in Kinds
      BY DEF Kinds
    <3>2. Append(stack[co], kind) \in Seq(Kinds)
      BY <1>2, <3>1, AppendProperties
    <3> QED
      BY <1>2, <3>2 DEF Frames0
  <2> HIDE DEF fs
  <2>5. stack' \in Stacks /\ stack'[co] = fs /\ \A x \in Threads : x # co => stack'[x] = stack[x]
    BY <1>1, <1>2, <2>4 DEF Stacks
  <2>6. Framed(go, stack')
    <3>1. \A i \in 1 .. Len(go) : go[i].th \in Threads
      BY <1>2, ElementOfSeq, ActivationTypes
    <3>2. stack'[Main] = stack[Main] /\ \A i \in 1 .. Len(go) : stack'[go[i].th] = stack[go[i].th]
      BY <2>2, <2>3, <2>5, <3>1 DEF Threads
    <3> QED
      BY <1>2, <2>5, <3>2, IdleFramed DEF IInv
  <2>7. Typed'
    BY <1>1, <2>5 DEF IInv, Typed, Depth
  <2>8. ThreadsFit'
    <3> SUFFICES ASSUME NEW x \in Threads
                 PROVE  /\ Active(go', x) => ~Dead'[x]
                        /\ ~Active(go', x) => Parent'[x] = None /\ (Dead'[x] \/ AllLua(stack'[x]))
                        /\ ~Dead'[x] => currentFrame'[x] = Len(stack'[x])
      BY DEF ThreadsFit, Depth
    <3>1. CASE x = co
      BY <1>1, <1>4, <2>1, <3>1 DEF IInv, Status, ThreadsFit
    <3>2. CASE x # co
      BY <1>1, <2>5, <3>2 DEF IInv, Status, ThreadsFit, Depth
    <3> QED
      BY <3>1, <3>2
  <2>9. ResumesFit' /\ Executing' = Executing
    BY <1>1 DEF IInv, Status, ResumesFit, Executing, Top
  <2>10. IInv'
    BY <1>1, <2>6, <2>7, <2>8, <2>9 DEF IInv, Status
  <2>11. Rejects(co)
    BY <1>1, <1>2, <1>4, <2>5 DEF Rejects
  <2> QED
    BY <2>10, <2>11
<1> QED
  BY <1>3, <1>4

\* A Resume that got its flag returns.
Ends ==
  /\ ResumeReturns
  /\ \A x \in Threads : Active(go', x) <=> Active(go, x)
  /\ go' # <<>> => ~IsResume(go'[Len(go')])

LEMMA ResumeReturnsStep ==
  ASSUME IInv, ResumeReturns
  PROVE  IInv' /\ Ends
<1> DEFINE n == Len(go)
           m == n - 1
           t == Top.th
<1>1. /\ go # <<>> /\ IsResume(Top) /\ go' = Front(go)
      /\ UNCHANGED <<stack, currentFrame, Parent, Dead, MainThread, CurrentThread, begun>>
  BY DEF ResumeReturns, Running, IsResume, lstate
<1>2. /\ n \in Nat \ {0} /\ n \in 1 .. n /\ t \in Threads /\ go \in Seq(Activation)
      /\ Top = go[n] /\ t = Executing /\ stack \in Stacks /\ Chained(go) /\ Framed(go, stack)
  BY <1>1, TopFacts DEF IInv, Typed, Top
<1>3. /\ go' \in Seq(Activation) /\ Len(go') = m /\ \A i \in 1 .. m : go'[i] = go[i]
  BY <1>1, <1>2, FrontProperties
<1> HIDE DEF m, n, t
<1>4. m \in Nat /\ m < n /\ n = m + 1 /\ \A i \in 1 .. m : i \in 1 .. n /\ i < n
  BY <1>2 DEF m
<1>5. /\ Chained(go') /\ Framed(go', stack) /\ Executing' = t
      /\ \A i \in 1 .. m : IsResume(go[i]) => i < m
  <2>1. CASE m = 0
    <3>1. go' = <<>>
      BY <1>3, <2>1, EmptySeq
    <3>2. Chained(<<>>)
      BY DEF Chained, FromHost, AllFollow, WaitersWait, OthersResumed, ResumedFresh, Resumed
    <3>3. n = 1 /\ t = Main /\ Low(go[1], stack) = 0
      BY <1>1, <1>2, <1>4, <2>1 DEF Chained, FromHost, Framed, Grounded, t
    <3>4. Len(stack[Main]) = 0
      BY <1>1, <1>2, <3>3 DEF Low, IsResume, t
    <3>5. Framed(<<>>, stack)
      BY <3>4 DEF Framed, AllOwn, Rising, Grounded
    <3>6. Executing' = t
      BY <3>1, <3>3 DEF Executing
    <3> QED
      BY <2>1, <3>1, <3>2, <3>5, <3>6
  <2>2. CASE m # 0
    <3>1. m \in 1 .. n /\ n \in 1 .. n
      BY <1>2, <1>4, <2>2
    <3>2. /\ go[m] \in Activation /\ Follows(go[m], go[n])
          /\ ~IsResume(go[m]) => Owns(go[m], stack, Low(go[n], stack))
      BY <1>4, <3>1, BelowTop DEF n
    <3>3. ~IsResume(go[m]) /\ go[m].th = t
      BY <1>1, <1>2, <3>2 DEF Follows, RunsAbove, IsResume, t
    <3>4. Low(go[n], stack) = Len(stack[t])
      BY <1>1, <1>2 DEF Low, IsResume, t
    <3>5. Owns(go[m], stack, Len(stack[go[m].th]))
      BY <3>2, <3>3, <3>4
    <3>6. Chained(go') /\ Framed(go', stack)
      <4>1. \A i \in 1 .. m : Alike(go'[i], go[i])
        BY <1>3 DEF Alike
      <4>2. m <= Len(go) /\ m \in 1 .. Len(go)
        BY <1>4, <3>1 DEF n
      <4>3. Chained(go')
        BY <1>2, <1>3, <4>1, <4>2, PrefixChained
      <4>4. Framed(go', stack)
        BY <1>2, <1>3, <3>3, <3>5, <4>1, <4>2, PrefixFramed
      <4> QED
        BY <4>3, <4>4
    <3>7. Executing' = t
      <4>1. go' # <<>> /\ go'[Len(go')] = go[m]
        BY <1>3, <2>2, <1>4, EmptySeq
      <4> QED
        BY <3>3, <4>1 DEF Executing, Top
    <3>8. \A i \in 1 .. m : IsResume(go[i]) => i < m
      BY <1>4, <3>3
    <3> QED
      BY <3>6, <3>7, <3>8
  <2> QED
    BY <2>1, <2>2
<1>6. \A x \in Threads : Active(go', x) <=> Active(go, x)
  <2>1. \A i \in 1 .. n : i < n => i \in 1 .. m
    BY <1>2, <1>4
  <2> QED
    BY <1>3, <1>4, <1>5, <2>1 DEF Active, n
<1>7. Typed'
  BY <1>1, <1>3 DEF IInv, Typed, Depth
<1>8. ThreadsFit'
  BY <1>1, <1>6 DEF IInv, Status, ThreadsFit, Depth
<1>9. ResumesFit'
  <2>1. \A i \in 1 .. m : IsResume(go[i]) => go[i].got = "nothing" /\ Parent[go[i].co] = go[i].th
    BY <1>4 DEF IInv, Status, ResumesFit, n
  <2> QED
    BY <1>1, <1>3, <1>5, <2>1 DEF ResumesFit
<1>10. IInv'
  BY <1>1, <1>2, <1>5, <1>7, <1>8, <1>9 DEF IInv, Status
<1>11. go' # <<>> => ~IsResume(go'[Len(go')])
  <2> SUFFICES ASSUME go' # <<>>, IsResume(go'[Len(go')])
               PROVE  FALSE
    OBVIOUS
  <2>1. m # 0
    BY <1>3, EmptySeq
  <2>2. m \in 1 .. m /\ ~(m < m)
    BY <1>4, <2>1
  <2> QED
    BY <1>3, <1>5, <2>2
<1> QED
  BY <1>6, <1>10, <1>11 DEF Ends

-----------------------------------------------------------------------------
\* What a step of the machine does, whatever operation it is.
Step ==
  \/ UNCHANGED vars
  \/ \E t : Goes(t)
  \/ \E i, acts, fs, flag, kill : GivesBack(i, acts, fs, flag, kill)
  \/ \E t, co : Resumes(t, co)
  \/ \E co : Rejects(co)
  \/ Ends

LEMMA StutterInv ==
  ASSUME IInv, UNCHANGED vars
  PROVE  IInv'
BY DEF IInv, Typed, Status, ThreadsFit, ResumesFit, Executing, Top, Depth, vars

LEMMA RaiseIsStep ==
  ASSUME IInv, go = <<>> \/ Top.kind \in {"mainLoop", "GFunction"}, Raise
  PROVE  IInv' /\ Step
<1>1. CASE UNCHANGED vars
  BY <1>1, StutterInv DEF Step
<1>2. CASE IInv' /\ Goes(Top.th)
  BY <1>2 DEF Step
<1>3. CASE \E i, acts, fs, flag, kill : GivesBack(i, acts, fs, flag, kill)
  BY <1>3, GivesBackInv DEF Step
<1> QED
  BY <1>1, <1>2, <1>3, RaiseStep

LEMMA ResumeIsStep ==
  ASSUME MayNest, IInv, NEW t, NEW co, Asks(t, co), NEW kind \in Kinds, Resume(t, co, kind),
         ~ResumesWaiting(co)
  PROVE  IInv' /\ Step
<1>1. kind = "Lua" /\ (co = Executing \/ ~OnGoStack(co))
  <2>1. kind = "Lua"
    BY DEF MayNest, Resume, Kinds
  <2>2. t \in Threads
    BY AsksFacts
  <2> QED
    BY <2>1, <2>2 DEF ResumesWaiting
<1>2. co # t => ~OnGoStack(co)
  BY <1>1, AsksFacts
<1>3. CASE ResumeRejected(co, kind)
  BY <1>1, <1>3, ResumeRejectedStep, StutterInv DEF Step
<1>4. CASE ResumePanics(co, kind)
  <2>1. Raise /\ (go = <<>> \/ Top.kind \in {"mainLoop", "GFunction"})
    BY <1>4, AsksFacts DEF ResumePanics
  <2> QED
    BY <2>1, RaiseIsStep
<1>5. CASE ResumeRuns(t, co, kind)
  BY <1>1, <1>2, <1>5, ResumeRunsStep DEF Step
<1> QED
  BY <1>3, <1>4, <1>5 DEF Resume

LEMMA UnlessWaiting ==
  ASSUME MayNest, IInv, Next, \A co \in Threads : ~ResumesWaiting(co)
  PROVE  IInv' /\ Step
<1>1. CASE HostCalls
  BY <1>1, HostCallsStep DEF Step
<1>2. CASE HostResumes
  <2>1. PICK co \in Cos, kind \in Kinds : Resume(Main, co, kind)
    BY <1>2 DEF HostResumes
  <2>2. Asks(Main, co)
    BY <1>2 DEF HostResumes, Asks
  <2> QED
    BY <2>1, <2>2, ResumeIsStep DEF Threads
<1>3. CASE OpCall
  BY <1>3, OpCallStep DEF Step
<1>4. CASE OpTailCall
  BY <1>4, OpTailCallStep DEF Step
<1>5. CASE OpMetamethod
  BY <1>5, OpMetamethodStep DEF Step
<1>6. CASE OpReturn
  <2>1. CASE EndsThread(Top.th, stack[Top.th])
    <3>1. GivesBack(Len(go) - 1, Front(go), stack[Top.th], "true", TRUE)
      BY <1>6, <2>1, OpReturnEnds
    <3> QED
      BY <3>1, GivesBackInv DEF Step
  <2>2. CASE ~EndsThread(Top.th, stack[Top.th])
    BY <1>6, <2>2, OpReturnStep DEF Step
  <2> QED
    BY <2>1, <2>2
<1>7. CASE GoCall
  BY <1>7, GoCallStep DEF Step
<1>8. CASE GoPCall
  BY <1>8, GoPCallStep DEF Step
<1>9. CASE GoResume
  <2>1. PICK co \in Threads, kind \in Kinds : Resume(Top.th, co, kind)
    BY <1>9 DEF GoResume
  <2>2. Asks(Top.th, co)
    BY <1>9 DEF GoResume, InGo, Asks
  <2> QED
    BY <2>1, <2>2, ResumeIsStep DEF Threads
<1>10. CASE GoReturns
  <2>1. CASE Top.via = "OP_TAILCALL" /\ EndsThread(Top.th, FramesAfter(Top))
    <3>1. GivesBack(Len(go) - 2, Abandoned(Top), FramesAfter(Top), "true", TRUE)
      BY <1>10, <2>1, GoReturnsEnds
    <3> QED
      BY <3>1, GivesBackInv DEF Step
  <2>2. CASE ~(Top.via = "OP_TAILCALL" /\ EndsThread(Top.th, FramesAfter(Top)))
    BY <1>10, <2>2, GoReturnsStep DEF Step
  <2> QED
    BY <2>1, <2>2
<1>11. CASE GoYields
  <2>1. CASE Parent[Top.th] = None
    <3>1. Raise /\ Top.kind = "GFunction"
      BY <1>11, <2>1 DEF GoYields, InGo, Running
    <3> QED
      BY <3>1, RaiseIsStep
  <2>2. CASE Parent[Top.th] # None
    <3>1. GivesBack(Len(go) - 2, Abandoned(Top), FramesAfter(Top), "true", FALSE)
      BY <1>11, <2>2, GoYieldsStep
    <3> QED
      BY <3>1, GivesBackInv DEF Step
  <2> QED
    BY <2>1, <2>2
<1>12. CASE Fails
  <2>1. Raise /\ Top.kind \in {"mainLoop", "GFunction"}
    BY <1>12 DEF Fails, InGo, Running
  <2> QED
    BY <2>1, RaiseIsStep
<1>13. CASE PCallReturns
  BY <1>13, PCallReturnsStep DEF Step
<1>14. CASE ResumeReturns
  BY <1>14, ResumeReturnsStep DEF Step
<1> QED
  BY <1>1, <1>2, <1>3, <1>4, <1>5, <1>6, <1>7, <1>8, <1>9, <1>10, <1>11, <1>12, <1>13,
     <1>14 DEF Next

LEMMA NextIsStep ==
  ASSUME Orderly, IInv, Next
  PROVE  IInv' /\ Step
<1>1. MayNest
  BY DEF MayNest, Orderly
<1>2. \A co \in Threads : ~ResumesWaiting(co)
  BY DEF ResumesWaiting, Resume, Orderly
<1> QED
  BY <1>1, <1>2, UnlessWaiting

LEMMA InitInv ==
  ASSUME MayNest, Init
  PROVE  IInv
<1>1. /\ stack = [t \in Threads |-> <<>>] /\ currentFrame = [t \in Threads |-> 0]
      /\ Parent = [t \in Threads |-> None] /\ Dead = [t \in Threads |-> FALSE]
      /\ go = <<>> /\ begun = {} /\ MainThread = Main /\ CurrentThread = Main
  BY DEF Init, MayNest
<1>2. Main \in Threads /\ 0 \in 0 .. MaxDepth /\ 0 <= MaxDepth
  BY CoroutinesAssumption DEF CoroutinesAssumption, Threads
<1>3. <<>> \in Seq(Kinds) /\ <<>> \in Seq(Activation) /\ Len(<<>>) = 0
  OBVIOUS
<1>4. Typed
  BY <1>1, <1>2, <1>3 DEF Typed, Stacks, Depth
<1>5. Chained(go)
  BY <1>1 DEF Chained, FromHost, AllFollow, WaitersWait, OthersResumed, ResumedFresh, Resumed
<1>6. Framed(go, stack)
  BY <1>1, <1>2, <1>3 DEF Framed, AllOwn, Rising, Grounded
<1>7. ThreadsFit
  BY <1>1, <1>3 DEF ThreadsFit, AllLua, Depth
<1>8. ResumesFit /\ CurrentThread = Executing /\ Parent[Main] = None
  BY <1>1, <1>2 DEF ResumesFit, Executing
<1> QED
  BY <1>1, <1>4, <1>5, <1>6, <1>7, <1>8 DEF IInv, Status

-----------------------------------------------------------------------------
LEMMA InvHolds ==
  ASSUME Orderly
  PROVE  Spec => []IInv
<1>1. Init => IInv
  BY InitInv DEF MayNest, Orderly
<1>2. IInv /\ [Next]_vars => IInv'
  <2>1. ASSUME IInv, Next
        PROVE  IInv'
    BY <2>1, NextIsStep
  <2>2. ASSUME IInv, UNCHANGED vars
        PROVE  IInv'
    BY <2>2, StutterInv
  <2> QED
    BY <2>1, <2>2
<1> QED
  BY <1>1, <1>2, PTL DEF Spec

LEMMA InvTypeOK ==
  ASSUME IInv
  PROVE  TypeOK
<1>1. \A i \in 1 .. Len(go) : go[i].th \in Threads
  BY ElementOfSeq, ActivationTypes DEF IInv, Typed
<1>2. Executing \in Threads
  <2>1. Main \in Threads
    BY DEF Threads
  <2> QED
    BY <2>1, TopFacts DEF Executing
<1> QED
  BY <1>1, <1>2 DEF IInv, Typed, TypeOK, Status, Stacks, Threads

\* Threads, stacks and activations have their shapes: no sequence of calls,
\* yields, resumes and errors makes a frame stack longer than its slots.
THEOREM TypeCorrect ==
  ASSUME Orderly
  PROVE  Spec => []TypeOK
<1>1. IInv => TypeOK
  BY InvTypeOK
<1> QED
  BY <1>1, InvHolds, PTL

LEMMA InvFrameOnTop ==
  ASSUME IInv
  PROVE  FrameOnTop
<1> SUFFICES ASSUME go # <<>>, Top.kind \in {"mainLoop", "GFunction"}
             PROVE  LET t == Top.th IN
                    /\ currentFrame[t] = Depth(t)
                    /\ Depth(t) > 0
                    /\ Kind(t) = IF Top.kind = "mainLoop" THEN "Lua" ELSE "G"
                    /\ Top.kind = "GFunction" => Top.at = Depth(t)
  BY DEF FrameOnTop
<1>1. currentFrame[Top.th] = Depth(Top.th)
  BY TopFacts
<1>2. CASE Top.kind = "mainLoop"
  BY <1>1, <1>2, LoopOnTop DEF Running
<1>3. CASE Top.kind = "GFunction"
  BY <1>1, <1>3, GoOnTop DEF Running
<1> QED
  BY <1>2, <1>3

LEMMA InvParentIsResumer ==
  ASSUME IInv
  PROVE  ParentIsResumer
<1> SUFFICES ASSUME NEW t \in Threads
             PROVE  Parent[t] # None <=> \E i \in 1 .. Len(go) : /\ go[i].kind = "Resume"
                                                                 /\ go[i].co = t
                                                                 /\ go[i].th = Parent[t]
                                                                 /\ go[i].got = "nothing"
  BY DEF ParentIsResumer
<1>1. ASSUME Parent[t] # None
      PROVE  \E i \in 1 .. Len(go) : /\ go[i].kind = "Resume" /\ go[i].co = t
                                     /\ go[i].th = Parent[t] /\ go[i].got = "nothing"
  <2>1. Active(go, t) /\ t # Main
    BY <1>1 DEF IInv, Status, ThreadsFit
  <2>2. PICK i \in 1 .. Len(go) : i < Len(go) /\ IsResume(go[i]) /\ go[i].co = t
    BY <2>1 DEF Active
  <2> QED
    BY <2>2 DEF IInv, Status, ResumesFit, IsResume
<1>2. ASSUME NEW i \in 1 .. Len(go), IsResume(go[i]), go[i].co = t, go[i].th = Parent[t]
      PROVE  Parent[t] # None
  <2>1. go[i].th \in Threads
    BY ElementOfSeq, ActivationTypes DEF IInv, Typed
  <2> QED
    BY <1>2, <2>1, CoroutinesAssumption DEF CoroutinesAssumption, Threads
<1> QED
  BY <1>1, <1>2 DEF IsResume

\* What lies on the Go stack finds its frame on top when control comes back to
\* it, runs as G.CurrentThread, and Parent names whose Resume waits for a thread
\* (callR, threadRun, switchToParentThread, callGFunction, OP_RETURN).
THEOREM ActivationsAndThreads ==
  ASSUME Orderly
  PROVE  Spec => []ActivationsMatchThreads
<1>1. IInv => ActivationsMatchThreads
  <2>1. IInv => ExecutingIsCurrent
    BY DEF IInv, Status, ExecutingIsCurrent
  <2> QED
    BY <2>1, InvFrameOnTop, InvParentIsResumer DEF ActivationsMatchThreads
<1> QED
  BY <1>1, InvHolds, PTL

LEMMA InvResumedOnce ==
  ASSUME IInv
  PROVE  ResumedOnce
<1>1. ASSUME NEW i \in 1 .. Len(go), NEW j \in 1 .. Len(go), i < j,
             IsResume(go[i]), IsResume(go[j])
      PROVE  go[i].co # go[j].co
  <2> DEFINE k == i + 1
  <2>1. k \in 1 .. Len(go) /\ k = i + 1 /\ k <= j
    BY <1>1, LenProperties DEF IInv, Typed
  <2> HIDE DEF k
  <2>2. go[k].th = go[i].co
    BY <1>1, <2>1, BelowTop DEF Follows, RunsAbove
  <2> QED
    BY <1>1, <2>1, <2>2 DEF IInv, Chained, ResumedFresh
<1>2. \A i, j \in 1 .. Len(go) : i < j \/ j < i \/ i = j
  BY LenProperties DEF IInv, Typed
<1> QED
  BY <1>1, <1>2 DEF ResumedOnce, IsResume

\* A thread is in one Resume at a time, threadRun never finds the activations of
\* an earlier Resume of the same thread below its own, as long as nobody resumes
\* a thread that waits for a Resume of its own.  Programs may do so here: the
\* theorem is about every behaviour until one does, and the next one about what
\* that does.  Calls, errors caught at any depth, yields, dead threads and a
\* thread that resumes itself never nest.
THEOREM ResumesDoNotNest ==
  ASSUME MayNest
  PROVE  Init /\ [][Next /\ \A co \in Threads : ~ResumesWaiting(co)]_vars => []ResumedOnce
<1>1. Init => IInv
  BY InitInv
<1>2. IInv /\ [Next /\ \A co \in Threads : ~ResumesWaiting(co)]_vars => IInv'
  BY UnlessWaiting, StutterInv
<1>3. IInv => ResumedOnce
  BY InvResumedOnce
<1> QED
  BY <1>1, <1>2, <1>3, PTL

\* Resume asks whether the thread is the current one or dead, not whether it
\* waits (state.go:2195-2200): the first Resume of a coroutine that waits is not
\* refused, and when it gets a frame puts the coroutine into two of them.
THEOREM ResumeOfWaitingNests ==
  ASSUME MayNest, IInv, NEW t \in Threads, NEW co \in Cos, NEW kind \in Kinds, Asks(t, co),
         Resume(t, co, kind), co # Executing, OnGoStack(co)
  PROVE  /\ ~Rejected(co)
         /\ ResumeRuns(t, co, kind) => ~ResumedOnce'
<1>1. /\ go \in Seq(Activation) /\ Len(go) \in Nat /\ CurrentThread = Executing
  BY LenProperties DEF IInv, Typed, Status
<1>2. PICK k \in 1 .. Len(go) : IsResume(go[k]) /\ co \in {go[k].th, go[k].co}
  BY DEF OnGoStack, IsResume
<1>3. co # Main
  BY CoroutinesAssumption DEF CoroutinesAssumption
<1>4. PICK i \in 1 .. Len(go) : IsResume(go[i]) /\ go[i].co = co
  <2>1. CASE go[k].co = co
    BY <1>2, <2>1
  <2>2. CASE go[k].th = co
    BY <1>2, <1>3, <2>2 DEF IInv, Chained, Resumed
  <2> QED
    BY <1>2, <2>1, <2>2
<1>5. ~Rejected(co)
  <2>1. Active(go, co)
    BY <1>4, AsksFacts DEF Active
  <2>2. ~Dead[co]
    BY <2>1 DEF IInv, Status, ThreadsFit, Threads
  <2> QED
    BY <1>1, <2>2 DEF Rejected
<1>6. ASSUME ResumeRuns(t, co, kind)
      PROVE  ~ResumedOnce'
  <2> DEFINE fs == Frames0(co, kind)
             n == Len(go)
             a == Resuming(t, co)
             b == Enter(co, Last(fs), 0, Len(fs))
             r == IF fs = <<>> THEN <<a>> ELSE <<a, b>>
             S == Activation \cup {a, b}
  <2>1. go' = go \o r
    BY <1>6 DEF ResumeRuns
  <2>2. IsResume(a) /\ a.co = co
    BY DEF Resuming, IsResume
  <2>3. go \in Seq(S) /\ r \in Seq(S) /\ Len(r) \in Nat \ {0} /\ r[1] = a
    <3> HIDE DEF a, b, fs
    <3>1. go \in [1 .. n -> S]
      BY <1>1
    <3>2. go \in Seq(S)
      BY <1>1, <3>1
    <3>3. a \in S /\ b \in S
      OBVIOUS
    <3> HIDE DEF S
    <3>4. CASE fs = <<>>
      BY <3>2, <3>3, <3>4
    <3>5. CASE fs # <<>>
      BY <3>2, <3>3, <3>5
    <3> QED
      BY <3>4, <3>5
  <2> HIDE DEF fs, a, b, r, S
  <2>4. /\ Len(go') = n + Len(r) /\ n \in Nat
        /\ \A j \in 1 .. n + Len(r) : go'[j] = IF j <= n THEN go[j] ELSE r[j - n]
    BY <1>1, <2>1, <2>3, ConcatProperties
  <2> HIDE DEF n
  <2>5. i \in 1 .. n /\ i \in 1 .. n + Len(r) /\ n + 1 \in 1 .. n + Len(r) /\ i # n + 1
        /\ i <= n /\ ~(n + 1 <= n) /\ (n + 1) - n = 1
    BY <2>3, <2>4 DEF n
  <2>6. go'[i] = go[i] /\ go'[n + 1] = a /\ i \in 1 .. Len(go') /\ n + 1 \in 1 .. Len(go')
    BY <2>3, <2>4, <2>5
  <2> QED
    BY <1>4, <2>2, <2>5, <2>6 DEF ResumedOnce, IsResume
<1> QED
  BY <1>5, <1>6

\* Above a Resume every thread has a Parent to yield to.
THEOREM CoroutinesHaveParents ==
  ASSUME Orderly
  PROVE  Spec => []InsideHasParent
<1>1. IInv => InsideHasParent
  <2> SUFFICES ASSUME IInv, NEW i \in 1 .. Len(go) - 1, IsResume(go[i])
               PROVE  Parent[go[i].co] # None
    BY DEF InsideHasParent, IsResume
  <2>1. i \in 1 .. Len(go) /\ i < Len(go)
    BY LenProperties DEF IInv, Typed
  <2>2. Parent[go[i].co] = go[i].th /\ go[i].th \in Threads
    BY <2>1, ElementOfSeq, ActivationTypes DEF IInv, Typed, Status, ResumesFit
  <2> QED
    BY <2>2, CoroutinesAssumption DEF CoroutinesAssumption, Threads
<1> QED
  BY <1>1, InvHolds, PTL

-----------------------------------------------------------------------------
\* Taking turns.
LEMMA Running1 ==
  ASSUME IInv
  PROVE  CurrentThread \in Threads /\ CurrentThread # None
<1>1. CurrentThread \in Threads
  <2>1. Main \in Threads
    BY DEF Threads
  <2> QED
    BY <2>1, TopFacts DEF IInv, Status, Executing
<1> QED
  BY <1>1, CoroutinesAssumption DEF CoroutinesAssumption, Threads

LEMMA GivesBackTurn ==
  ASSUME IInv, NEW i, NEW acts, NEW fs, NEW flag, NEW kill,
         GivesBack(i, acts, fs, flag, kill)
  PROVE  Turns!Next
<1> DEFINE co == go[i].co
<1>1. /\ CurrentThread' = Parent[co] /\ Parent' = [Parent EXCEPT ![co] = None]
      /\ Dead' = [Dead EXCEPT ![co] = @ \/ kill] /\ kill \in BOOLEAN
  BY DEF GivesBack, SwitchToParentThread
<1>2. co \in Threads /\ co = CurrentThread /\ Active(go, co)
  BY GivesBackThread
<1>3. Parent[co] # None /\ CurrentThread # None /\ CurrentThread' # None
  <2>1. Parent[co] \in Threads
    BY GivesBackGo, ActivationTypes
  <2>2. Parent[co] # None
    BY <2>1, CoroutinesAssumption DEF CoroutinesAssumption, Threads
  <2> HIDE DEF co
  <2> QED
    BY <1>1, <2>2, Running1
<1>4. Dead \in [Threads -> BOOLEAN] /\ Dead[co] = FALSE
  BY <1>2 DEF IInv, Typed, Status, ThreadsFit
<1> HIDE DEF co
<1>5. Turns!GiveBack
  BY <1>1, <1>2, <1>3 DEF Turns!GiveBack
<1>6. CASE kill
  <2>1. {t \in Threads : Dead'[t]} = {t \in Threads : Dead[t]} \cup {co}
    BY <1>1, <1>2, <1>4, <1>6
  <2> QED
    BY <1>2, <1>3, <1>5, <2>1 DEF Turns!Next, Turns!End
<1>7. CASE ~kill
  <2>1. {t \in Threads : Dead'[t]} = {t \in Threads : Dead[t]}
    BY <1>1, <1>2, <1>4, <1>7
  <2> QED
    BY <1>5, <2>1 DEF Turns!Next, Turns!Yield
<1> QED
  BY <1>6, <1>7

LEMMA StepTurn ==
  ASSUME IInv, Step
  PROVE  [Turns!Next]_(Turns!vars)
<1>1. CASE UNCHANGED <<Parent, Dead, CurrentThread>>
  BY <1>1 DEF Turns!vars
<1>2. ASSUME NEW i, NEW acts, NEW fs, NEW flag, NEW kill, GivesBack(i, acts, fs, flag, kill)
      PROVE  Turns!Next
  BY <1>2, GivesBackTurn
<1>3. ASSUME NEW t, NEW co, Resumes(t, co)
      PROVE  Turns!Next
  <2>1. /\ co \in Threads /\ co # Main /\ co # CurrentThread /\ ~Dead[co] /\ Parent[co] = None
        /\ CurrentThread' = co /\ Parent' = [Parent EXCEPT ![co] = CurrentThread] /\ Dead' = Dead
    BY <1>3 DEF Resumes
  <2>2. CurrentThread # None /\ CurrentThread' # None
    BY <2>1, Running1, CoroutinesAssumption DEF CoroutinesAssumption, Threads
  <2>3. Turns!Suspended(co)
    BY <2>1, <2>2 DEF Turns!Suspended
  <2>4. Turns!Resume(co)
    BY <2>1, <2>2, <2>3 DEF Turns!Resume
  <2> QED
    BY <2>1, <2>4 DEF Turns!Next
<1>4. (\E t : Goes(t)) \/ (\E co : Rejects(co)) \/ Ends \/ UNCHANGED vars
         => UNCHANGED <<Parent, Dead, CurrentThread>>
  BY DEF Goes, Rejects, Ends, ResumeReturns, lstate, vars
<1> QED
  BY <1>1, <1>2, <1>3, <1>4 DEF Step

\* The threads of a state take turns as asymmetric coroutines do: one runs, a
\* suspended one is resumed by it, and control comes back to the resumer.
THEOREM ImplementsCoroutines ==
  ASSUME Orderly
  PROVE  Spec => TakesTurns
<1>1. Init => Turns!Init
  <2> SUFFICES ASSUME Init
               PROVE  Turns!Init
    OBVIOUS
  <2>1. /\ Parent = [t \in Threads |-> None] /\ Dead = [t \in Threads |-> FALSE]
        /\ CurrentThread = Main
    BY DEF Init, Orderly
  <2>2. {t \in Threads : Dead[t]} = {}
    BY <2>1
  <2> QED
    BY <2>1, <2>2 DEF Turns!Init
<1>2. IInv /\ IInv' /\ [Next]_vars => [Turns!Next]_(Turns!vars)
  <2>1. ASSUME IInv, IInv', Next
        PROVE  [Turns!Next]_(Turns!vars)
    BY <2>1, NextIsStep, StepTurn
  <2>2. ASSUME UNCHANGED vars
        PROVE  UNCHANGED Turns!vars
    BY <2>2 DEF vars, lstate, Turns!vars
  <2> QED
    BY <2>1, <2>2
<1>3. Spec => []IInv
  BY InvHolds
<1> QED
  BY <1>1, <1>2, <1>3, PTL DEF Spec, TakesTurns, Turns!Spec

-----------------------------------------------------------------------------
(* What the host learns of a thread.  Scripts that return a yield from the    *)
(* first function of a thread leave it without frames and alive.              *)

BegunLast ==
  \A t \in begun \cap Cos : Active(go, t) \/ Dead[t] \/ stack[t] # <<>>

Reported == Running("Resume") => (Outcome(Top) = "ResumeYield" <=> ~Dead[Top.co])

\* The Resume on top, if any, was given control back.
LEMMA NothingToReport ==
  ASSUME go' # <<>> => ~IsResume(go'[Len(go')])
  PROVE  Reported'
BY DEF Reported, Running, Top, IsResume

LEMMA GivesBackReported ==
  ASSUME Habits = {}, IInv, NEW i, NEW acts, NEW fs, NEW flag, NEW kill,
         GivesBack(i, acts, fs, flag, kill), BegunLast
  PROVE  Reported' /\ BegunLast'
<1> DEFINE co == go[i].co
<1>1. /\ Len(go') = i /\ go' # <<>> /\ IsResume(go'[i]) /\ go'[i].co = co /\ go'[i].got = flag
  BY GivesBackGo
<1>2. /\ co \in Threads /\ co # Main /\ Active(go, co)
      /\ \A x \in Threads : x # co => (Active(go', x) <=> Active(go, x))
  BY GivesBackThread
<1>3. /\ SetFrames(co, Front(fs)) /\ Dead' = [Dead EXCEPT ![co] = @ \/ kill] /\ begun' = begun
      /\ kill \in BOOLEAN /\ flag \in {"true", "false"}
      /\ kill <=> ~(flag = "true" /\ Front(fs) # <<>>)
  BY DEF GivesBack, SwitchToParentThread
<1> DEFINE gs == Front(fs)
<1> HIDE DEF co, gs
<1>4. /\ stack'[co] = gs /\ \A x \in Threads : x # co => stack'[x] = stack[x]
      /\ (Dead'[co] <=> kill) /\ \A x \in Threads : x # co => Dead'[x] = Dead[x]
  BY <1>2, <1>3 DEF SetFrames, IInv, Typed, Stacks, Status, ThreadsFit, gs
<1>5. Top' = go'[i]
  BY <1>1 DEF Top
<1>6. Outcome(Top)' = "ResumeYield" <=> flag = "true" /\ gs # <<>>
  BY <1>1, <1>4, <1>5 DEF Outcome
<1>7. Reported'
  BY <1>1, <1>3, <1>4, <1>5, <1>6 DEF Reported, gs
<1>8. BegunLast'
  <2> SUFFICES ASSUME NEW x \in begun' \cap Cos
               PROVE  Active(go', x) \/ Dead'[x] \/ stack'[x] # <<>>
    BY DEF BegunLast
  <2>1. CASE x = co
    BY <1>3, <1>4, <2>1 DEF gs
  <2>2. CASE x # co
    BY <1>2, <1>3, <1>4, <2>2 DEF BegunLast, Threads
  <2> QED
    BY <2>1, <2>2
<1> QED
  BY <1>7, <1>8

LEMMA GoesReported ==
  ASSUME IInv', NEW t, Goes(t), BegunLast
  PROVE  Reported' /\ BegunLast'
<1>1. /\ t \in Threads /\ Active(go, t) /\ SameResumes(go, go') /\ begun' \subseteq begun \cup {t}
      /\ \A x \in Threads : x # t /\ stack[x] # <<>> => stack'[x] # <<>>
      /\ Dead' = Dead
  BY DEF Goes
<1>2. go' # <<>> => ~IsResume(go'[Len(go')])
  <2>1. go' # <<>> => Len(go') \in 1 .. Len(go') /\ ~(Len(go') < Len(go'))
    BY LenProperties, EmptySeq DEF IInv, Typed
  <2> QED
    BY <1>1, <2>1 DEF SameResumes
<1>3. BegunLast'
  <2> SUFFICES ASSUME NEW x \in begun' \cap Cos
               PROVE  Active(go', x) \/ Dead'[x] \/ stack'[x] # <<>>
    BY DEF BegunLast
  <2>1. Active(go, x) <=> Active(go', x)
    BY <1>1, SameActive
  <2>2. x = t \/ x \in begun \cap Cos
    BY <1>1
  <2>3. x \in Threads
    BY DEF Threads
  <2> QED
    BY <1>1, <2>1, <2>2, <2>3 DEF BegunLast
<1> QED
  BY <1>2, <1>3, NothingToReport

LEMMA StepReported ==
  ASSUME Habits = {}, IInv, IInv', Step, BegunLast, Reported
  PROVE  Reported' /\ BegunLast'
<1>1. ASSUME UNCHANGED vars
      PROVE  Reported' /\ BegunLast'
  BY <1>1 DEF vars, lstate, Reported, BegunLast, Running, Outcome, Top, Active
<1>2. ASSUME NEW t, Goes(t)
      PROVE  Reported' /\ BegunLast'
  BY <1>2, GoesReported
<1>3. ASSUME NEW i, NEW acts, NEW fs, NEW flag, NEW kill, GivesBack(i, acts, fs, flag, kill)
      PROVE  Reported' /\ BegunLast'
  BY <1>3, GivesBackReported
<1>4. ASSUME NEW t, NEW co, Resumes(t, co)
      PROVE  Reported' /\ BegunLast'
  <2>1. Reported'
    BY <1>4, NothingToReport DEF Resumes
  <2>2. BegunLast'
    BY <1>4 DEF Resumes, BegunLast, Threads
  <2> QED
    BY <2>1, <2>2
<1>5. ASSUME NEW co, Rejects(co)
      PROVE  Reported' /\ BegunLast'
  <2>1. go' # <<>> => ~IsResume(go'[Len(go')])
    <3>1. go # <<>> => Len(go) \in 1 .. Len(go) /\ ~(Len(go) < Len(go))
      BY LenProperties, EmptySeq DEF IInv, Typed
    <3> QED
      BY <1>5, <3>1 DEF Rejects
  <2>2. BegunLast'
    BY <1>5 DEF Rejects, BegunLast, Threads, Active
  <2> QED
    BY <2>1, <2>2, NothingToReport
<1>6. ASSUME Ends
      PROVE  Reported' /\ BegunLast'
  <2>1. Reported'
    BY <1>6, NothingToReport DEF Ends
  <2>2. BegunLast'
    BY <1>6 DEF Ends, ResumeReturns, lstate, BegunLast, Threads
  <2> QED
    BY <2>1, <2>2
<1> QED
  BY <1>1, <1>2, <1>3, <1>4, <1>5, <1>6 DEF Step

LEMMA ReportedHolds ==
  ASSUME Habits = {}
  PROVE  Spec => [](IInv /\ BegunLast /\ Reported)
<1>1. Orderly
  BY DEF Orderly
<1>2. Init => IInv /\ BegunLast /\ Reported
  <2>1. Init => BegunLast /\ Reported
    BY DEF Init, BegunLast, Reported, Running
  <2> QED
    BY <1>1, <2>1, InitInv DEF MayNest, Orderly
<1>3. IInv /\ BegunLast /\ Reported /\ [Next]_vars => (IInv /\ BegunLast /\ Reported)'
  <2>1. ASSUME IInv, BegunLast, Reported, Next
        PROVE  (IInv /\ BegunLast /\ Reported)'
    BY <1>1, <2>1, NextIsStep, StepReported
  <2>2. ASSUME IInv, BegunLast, Reported, UNCHANGED vars
        PROVE  (IInv /\ BegunLast /\ Reported)'
    BY <2>2, StutterInv, StepReported DEF Step
  <2> QED
    BY <2>1, <2>2
<1> QED
  BY <1>2, <1>3, PTL DEF Spec

\* A thread that was run and is not being run has frames to go on with, or is
\* dead (kill in switchToParentThread).
THEOREM FinishedThreadsAreDead ==
  ASSUME Habits = {}
  PROVE  Spec => []FinishedIsDead
<1>1. IInv /\ BegunLast => FinishedIsDead
  <2> SUFFICES ASSUME IInv, BegunLast, NEW t \in begun \cap Cos
               PROVE  OnGoStack(t) \/ Dead[t] \/ stack[t] # <<>>
    BY DEF FinishedIsDead
  <2>1. CASE Active(go, t)
    <3>1. t # Main
      BY CoroutinesAssumption DEF CoroutinesAssumption
    <3>2. OnGoStack(t)
      BY <2>1, <3>1 DEF Active, OnGoStack, IsResume
    <3> QED
      BY <3>2
  <2>2. CASE ~Active(go, t)
    BY <2>2 DEF BegunLast
  <2> QED
    BY <2>1, <2>2
<1> QED
  BY <1>1, ReportedHolds, PTL

\* What Resume says of a thread when it returns is what a later Resume of that
\* thread will find.
THEOREM ResumeTellsTheTruth ==
  ASSUME Habits = {}
  PROVE  Spec => ReportsStatus
<1>1. IInv /\ BegunLast /\ Reported /\ [Next]_vars =>
        [ResumeReturns => (Outcome(Top) = "ResumeYield" <=> ~Dead[Top.co])]_vars
  BY DEF Reported, ResumeReturns
<1> QED
  BY <1>1, ReportedHolds, PTL DEF Spec, ReportsStatus
=============================================================================
