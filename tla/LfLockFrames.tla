---------------------------- MODULE LfLockFrames ----------------------------
(***************************************************************************)
(* What each step of LfLock changes in the heap and on the stacks, and     *)
(* what the frames keep meanwhile: the steps of one thread let the frames  *)
(* of the others be (Rely), and a thread itself continues, calls, or       *)
(* returns.                                                                *)
(***************************************************************************)
EXTENDS LfLockInv, TLAPS

\* The innermost frame of a call in progress.
LEMMA TopFacts ==
  ASSUME TypeOK, NEW t \in Threads, stack[t] # <<>>
  PROVE  /\ Len(stack[t]) \in Nat /\ Len(stack[t]) >= 1
         /\ Top(t) = stack[t][Len(stack[t])] /\ Top(t) \in Frames
<1>1. stack[t] \in Seq(Frames)
  BY DEF TypeOK
<1>2. Len(stack[t]) \in Nat /\ Len(stack[t]) >= 1
  BY <1>1
<1> QED
  BY <1>1, <1>2 DEF Top

\* The frames below it.
LEMMA CallersFacts ==
  ASSUME TypeOK, NEW t \in Threads, stack[t] # <<>>
  PROVE  /\ Callers(t) \in Seq(Frames) /\ Len(Callers(t)) = Len(stack[t]) - 1
         /\ \A k \in 1 .. Len(stack[t]) - 1 : Callers(t)[k] = stack[t][k]
<1>1. stack[t] \in Seq(Frames) /\ Len(stack[t]) \in Nat /\ Len(stack[t]) >= 1
  BY TopFacts DEF TypeOK
<1> QED
  BY <1>1 DEF Callers

\* Only t moves, and its lowest m frames stay.
Kept(t, m) ==
  /\ stack' \in [Threads -> Seq(Frames)]
  /\ \A u \in Threads \ {t} : stack'[u] = stack[u]
  /\ \A k \in 1 .. m : stack'[t][k] = stack[t][k]

\* Continue: the innermost frame is replaced.
LEMMA ContinueStack ==
  ASSUME TypeOK, NEW t \in Threads, stack[t] # <<>>, NEW f \in Frames, Continue(t, f)
  PROVE  /\ Kept(t, Len(stack[t]) - 1)
         /\ Len(stack'[t]) = Len(stack[t])
         /\ stack'[t][Len(stack[t])] = f
<1> DEFINE n == Len(stack[t])
<1>1. stack \in [Threads -> Seq(Frames)] /\ n \in Nat /\ n >= 1
  BY TopFacts DEF TypeOK
<1>2. /\ Callers(t) \in Seq(Frames) /\ Len(Callers(t)) = n - 1
      /\ \A k \in 1 .. n - 1 : Callers(t)[k] = stack[t][k]
  BY CallersFacts
<1>3. stack' = [stack EXCEPT ![t] = Append(Callers(t), f)]
  BY DEF Continue
<1>4. stack'[t] = Append(Callers(t), f)
  BY <1>1, <1>3
<1> QED
  BY <1>1, <1>2, <1>3, <1>4 DEF Kept

\* CallThen: the frame waits as f, the called one is above it.
LEMMA CallStack ==
  ASSUME TypeOK, NEW t \in Threads, stack[t] # <<>>, NEW g \in Frames, NEW f \in Frames,
         CallThen(t, g, f)
  PROVE  /\ Kept(t, Len(stack[t]) - 1)
         /\ Len(stack'[t]) = Len(stack[t]) + 1
         /\ stack'[t][Len(stack[t])] = [f EXCEPT !.lg = lg[t]]
         /\ stack'[t][Len(stack[t]) + 1] = g
<1> DEFINE n == Len(stack[t])
           c == [f EXCEPT !.lg = lg[t]]
<1>1. stack \in [Threads -> Seq(Frames)] /\ n \in Nat /\ n >= 1 /\ lg[t] \in Log
  BY TopFacts DEF TypeOK
<1>2. /\ Callers(t) \in Seq(Frames) /\ Len(Callers(t)) = n - 1
      /\ \A k \in 1 .. n - 1 : Callers(t)[k] = stack[t][k]
  BY CallersFacts
<1>3. stack' = [stack EXCEPT ![t] = Append(Append(Callers(t), c), g)]
  BY DEF CallThen
<1>4. stack'[t] = Append(Append(Callers(t), c), g)
  BY <1>1, <1>3
<1>5. c \in Frames
  BY <1>1 DEF Frames
<1> HIDE DEF c
<1>6. /\ Append(Callers(t), c) \in Seq(Frames) /\ Len(Append(Callers(t), c)) = n
      /\ Append(Callers(t), c)[n] = c
      /\ \A k \in 1 .. n - 1 : Append(Callers(t), c)[k] = stack[t][k]
  BY <1>1, <1>2, <1>5
<1>7. /\ stack'[t] \in Seq(Frames) /\ Len(stack'[t]) = n + 1 /\ stack'[t][n + 1] = g
      /\ \A k \in 1 .. n : stack'[t][k] = Append(Callers(t), c)[k]
  BY <1>1, <1>4, <1>6
<1>8. Kept(t, n - 1)
  BY <1>1, <1>3, <1>6, <1>7 DEF Kept
<1>9. stack'[t][n] = c
  BY <1>1, <1>6, <1>7
<1> QED
  BY <1>7, <1>8, <1>9 DEF c

\* A sequence without its last element, or with another one there.
LEMMA LastReplaced ==
  ASSUME NEW S, NEW c \in Seq(S), c # <<>>, NEW h \in S
  PROVE  /\ [c EXCEPT ![Len(c)] = h] \in Seq(S)
         /\ Len([c EXCEPT ![Len(c)] = h]) = Len(c)
         /\ [c EXCEPT ![Len(c)] = h][Len(c)] = h
         /\ \A k \in 1 .. Len(c) - 1 : [c EXCEPT ![Len(c)] = h][k] = c[k]
OBVIOUS

\* A sequence is empty when its length is zero.
LEMMA EmptyIs ==
  ASSUME NEW S, NEW c \in Seq(S)
  PROVE  c = <<>> <=> Len(c) = 0
OBVIOUS

\* Dropping the innermost frame and changing the one below it.
LEMMA PopStack ==
  ASSUME TypeOK, NEW t \in Threads, stack[t] # <<>>, NEW h \in Frames,
         stack' = [stack EXCEPT ![t] =
           IF Callers(t) = <<>> THEN <<>> ELSE [Callers(t) EXCEPT ![Len(Callers(t))] = h]]
  PROVE  /\ Kept(t, Len(stack[t]) - 2)
         /\ Len(stack'[t]) = Len(stack[t]) - 1
         /\ Len(stack[t]) = 1 => stack'[t] = <<>>
         /\ 1 < Len(stack[t]) => stack'[t][Len(stack[t]) - 1] = h
<1>1. Len(stack[t]) \in Nat /\ Len(stack[t]) >= 1
  BY TopFacts
<1>2. stack \in [Threads -> Seq(Frames)]
  BY DEF TypeOK
<1>3. /\ Callers(t) \in Seq(Frames) /\ Len(Callers(t)) = Len(stack[t]) - 1
      /\ \A k \in 1 .. Len(stack[t]) - 1 : Callers(t)[k] = stack[t][k]
  BY CallersFacts
<1>4. Callers(t) = <<>> <=> Len(Callers(t)) = 0
  BY <1>3, EmptyIs
<1>5. Callers(t) = <<>> <=> Len(stack[t]) = 1
  BY <1>1, <1>3, <1>4
<1>6. CASE Callers(t) = <<>>
  <2>1. stack' = [stack EXCEPT ![t] = <<>>]
    BY <1>6
  <2>2. stack'[t] = <<>> /\ stack' \in [Threads -> Seq(Frames)]
        /\ \A u \in Threads \ {t} : stack'[u] = stack[u]
    BY <1>2, <2>1
  <2>3. Len(stack[t]) = 1
    BY <1>5, <1>6
  <2>4. Kept(t, Len(stack[t]) - 2)
    BY <2>2, <2>3 DEF Kept
  <2> QED
    BY <1>5, <2>2, <2>3, <2>4
<1>7. CASE Callers(t) # <<>>
  <2>1. 1 < Len(stack[t])
    <3>1. \A n \in Nat : n >= 1 => n = 1 \/ 1 < n
      OBVIOUS
    <3>2. Len(stack[t]) = 1 \/ 1 < Len(stack[t])
      BY <1>1, <3>1, Zenon
    <3> QED
      BY <1>5, <1>7, <3>2, Zenon
  <2> DEFINE m == [Callers(t) EXCEPT ![Len(Callers(t))] = h]
  <2>2. /\ m \in Seq(Frames) /\ Len(m) = Len(Callers(t)) /\ m[Len(Callers(t))] = h
        /\ \A k \in 1 .. Len(Callers(t)) - 1 : m[k] = Callers(t)[k]
    BY <1>3, <1>7, LastReplaced
  <2>3. stack' = [stack EXCEPT ![t] = m]
    BY <1>7
  <2> HIDE DEF m
  <2>4. stack'[t] = m /\ stack' \in [Threads -> Seq(Frames)]
        /\ \A u \in Threads \ {t} : stack'[u] = stack[u]
    BY <1>2, <2>2, <2>3
  <2>5. Len(m) = Len(stack[t]) - 1 /\ m[Len(stack[t]) - 1] = h
    BY <1>3, <2>2
  <2>6. \A k \in 1 .. Len(stack[t]) - 2 : stack'[t][k] = stack[t][k]
    BY <1>1, <1>3, <2>2, <2>4
  <2>7. Kept(t, Len(stack[t]) - 2)
    BY <2>4, <2>6 DEF Kept
  <2> QED
    BY <2>1, <2>4, <2>5, <2>7
<1> QED
  BY <1>6, <1>7

\* ReturnTo: the caller has the result.
LEMMA ReturnStack ==
  ASSUME TypeOK, NEW t \in Threads, stack[t] # <<>>, NEW r, r \in BOOLEAN,
         ReturnTo(t, Callers(t), r)
  PROVE  /\ Kept(t, Len(stack[t]) - 2)
         /\ Len(stack'[t]) = Len(stack[t]) - 1
         /\ Len(stack[t]) = 1 => stack'[t] = <<>>
         /\ 1 < Len(stack[t]) =>
              stack'[t][Len(stack[t]) - 1] = [stack[t][Len(stack[t]) - 1] EXCEPT !.res = r]
<1>1. \E c \in {Callers(t)[Len(Callers(t))], Top(t)} : c \in Frames /\ (Callers(t) # <<>> => c = Callers(t)[Len(Callers(t))])
  BY TopFacts, CallersFacts
<1>2. PICK c \in Frames : Callers(t) # <<>> => c = Callers(t)[Len(Callers(t))]
  BY <1>1
<1>3. [c EXCEPT !.res = r] \in Frames
  BY DEF Frames
<1>4. stack' = [stack EXCEPT ![t] = IF Callers(t) = <<>> THEN <<>>
           ELSE [Callers(t) EXCEPT ![Len(Callers(t))] = [c EXCEPT !.res = r]]]
  BY <1>2, Zenon DEF ReturnTo
<1>5. 1 < Len(stack[t]) => c = stack[t][Len(stack[t]) - 1]
  BY <1>2, CallersFacts, TopFacts
<1> QED
  BY <1>3, <1>4, <1>5, PopStack

\* The constants.
LEMMA Consts ==
  /\ LogLen \in Nat /\ LogLen >= 1 /\ BlockLen \in Nat /\ BlockLen >= 1
  /\ None \notin Descriptors /\ None \notin Nat
  /\ \A e \in Descriptors : e \notin Nat /\ e # None
BY LogLenAssumption, DescriptorsAssumption

\* The three kinds of log entries are told apart.
LEMMA EntryFacts ==
  /\ \A w : Word(w)[1] = "word" /\ Word(w)[2] = w /\ Word(w) # Unset /\ ~IsDone(Word(w))
  /\ \A r : Done(r)[1] = "done" /\ Done(r)[2] = r /\ Done(r) # Unset /\ IsDone(Done(r))
  /\ Unset[1] = "unset" /\ Unset[2] = 0 /\ ~IsDone(Unset)
  /\ \A v, w : Word(v) = Word(w) => v = w
BY DEF Word, Done, Unset, IsDone

\* An entry is unset, a word or a result.
LEMMA EntryKinds ==
  ASSUME NEW en \in Entries
  PROVE  /\ en = Unset \/ (en[1] = "word" /\ en = Word(en[2]) /\ en[2] \in Nat \cup Descriptors)
            \/ (IsDone(en) /\ en = Done(en[2]) /\ en[2] \in BOOLEAN)
         /\ en[1] = "word" => en = Word(en[2]) /\ en[2] \in Nat \cup Descriptors
         /\ en = Unset <=> en[1] = "unset"
BY DEF Entries, Word, Done, Unset, IsDone

\* What the steps write are entries.
LEMMA EntryTypes ==
  /\ Unset \in Entries
  /\ \A w \in Nat \cup Descriptors : Word(w) \in Entries
  /\ \A r \in BOOLEAN : Done(r) \in Entries
BY DEF Entries, Word, Done, Unset

\* The types of a descriptor and its log.
LEMMA DescType ==
  ASSUME TypeOK, NEW d \in Descriptors
  PROVE  /\ desc[d].path \in Seq(Locks) /\ Size(d) \in Nat /\ desc[d].counter \in Nat
         /\ desc[d].done \in BOOLEAN /\ desc[d].acquired \in BOOLEAN
         /\ desc[d].lock \in Locks \cup {None} /\ desc[d].thread \in Threads \cup {None}
         /\ callOf[d] \in Nat /\ ext[d] \in 0 .. LogLen
         /\ log[d] \in [1 .. LogLen -> Entries]
         /\ \A j \in 1 .. LogLen : log[d][j] \in Entries
<1>1. desc[d] \in [path : Seq(Locks), lock : Locks \cup {None}, done : BOOLEAN,
        acquired : BOOLEAN, thread : Threads \cup {None}, counter : Nat]
  BY DEF TypeOK
<1>2. log[d] \in [1 .. LogLen -> Entries] /\ callOf[d] \in Nat /\ ext[d] \in 0 .. LogLen
  BY DEF TypeOK
<1>3. \A j \in 1 .. LogLen : log[d][j] \in Entries
  BY <1>2
<1>4. desc[d].path \in Seq(Locks) /\ Size(d) \in Nat
  BY <1>1 DEF Size
<1> QED
  BY <1>1, <1>2, <1>3, <1>4

\* The types of a frame.
LEMMA FrameType ==
  ASSUME NEW f \in Frames
  PROVE  /\ f.pc \in Pcs /\ f.lock \in Locks /\ f.path \in Seq(Locks) /\ Len(f.path) \in Nat
         /\ f.cur \in Nat \cup Descriptors \cup {None} /\ f.d \in Descriptors \cup {None}
         /\ f.old \in Nat /\ f.le \in 0 .. LogLen /\ f.res \in BOOLEAN /\ f.lg \in Log
         /\ f.id \in Threads \cup {None}
BY DEF Frames

\* The types of a position in a log.
LEMMA LogType ==
  ASSUME NEW g \in Log
  PROVE  /\ g.d \in Descriptors \cup {None} /\ g.n \in 0 .. LogLen /\ g.block \in 0 .. LogLen
         /\ g.new \in BOOLEAN /\ g.n \in Nat /\ g.block \in Nat
BY Consts DEF Log

\* The types of the stack of a thread.
LEMMA HeightType ==
  ASSUME TypeOK, NEW t \in Threads
  PROVE  /\ Height(t) \in Nat /\ (stack[t] = <<>> <=> Height(t) = 0)
         /\ \A k \in Depth(t) : stack[t][k] \in Frames
         /\ stack[t] # <<>> => Height(t) >= 1 /\ Height(t) \in Depth(t)
         /\ Top(t) = stack[t][Height(t)]
         /\ lg[t] \in Log
<1>1. stack[t] \in Seq(Frames) /\ lg[t] \in Log
  BY DEF TypeOK
<1>2. Height(t) \in Nat /\ (stack[t] = <<>> <=> Height(t) = 0)
  BY <1>1, EmptyIs DEF Height
<1>3. \A k \in Depth(t) : stack[t][k] \in Frames
  BY <1>1 DEF Depth, Height
<1> QED
  BY <1>1, <1>2, <1>3 DEF Depth, Height, Top

\* The types of the program.
LEMMA ProgType ==
  ASSUME TypeOK
  PROVE  /\ prog.with \in BOOLEAN /\ prog.reuse \in BOOLEAN
         /\ Off \in {0, 1} /\ (prog.with => Off = 0) /\ (~prog.with => Off = 1)
BY ProgramsAssumption DEF TypeOK, Off

\* What a step may do to a log entry: set it, or replace the descriptor of a
\* call that is over by the result.
EntryKept(d, j) ==
  \/ log'[d][j] = log[d][j]
  \/ log[d][j] = Unset
  \/ /\ IsDone(log'[d][j]) /\ \E q \in Levels(d) : q + 1 + Off = j /\ Forks(d, q)
     /\ \A e \in Descriptors : log[d][j] = Word(e) => Over(e)'

\* What a step may do to a descriptor that it does not allocate: counters and
\* flags only grow, `done' and a lock that was taken stay so.
DescKept(d) ==
  /\ desc'[d].path = desc[d].path /\ desc'[d].lock = desc[d].lock
  /\ desc'[d].thread = desc[d].thread /\ callOf'[d] = callOf[d]
  /\ desc[d].counter <= desc'[d].counter
  /\ ~prog.with => desc'[d].counter = desc[d].counter
  /\ desc[d].done => desc'[d].done
  /\ Held(d) => Held(d)'
  /\ Held(d)' => Held(d) \/ Installed(d)'
  /\ \A l \in Locks : desc[d].lock = l /\ AtMost(l, desc[d].counter) => AtMost(l, desc[d].counter)'
  /\ Over(d) => Over(d)'
  /\ ext[d] <= ext'[d]
  /\ \A j \in 1 .. LogLen : EntryKept(d, j)

\* What it may do to the status,
StatusKept(d) ==
  /\ Safe(d) => Safe(d)'
  /\ desc[d].acquired \/ status[d] = "retired" => (desc[d].acquired \/ status[d] = "retired")'
  /\ status[d] # "fresh" => status'[d] # "fresh" /\ desc'[d].thread = desc[d].thread

\* and to a lock: its counter never falls.
LockKept(l, c) ==
  /\ AtMost(l, c) => AtMost(l, c)'
  /\ Moved(l, c) => Moved(l, c)'

\* What every step leaves as it is, but for the descriptors A that it allocates.
Rely(A) ==
  /\ prog' = prog
  /\ \A d \in Descriptors \ A : DescKept(d)
  /\ \A d \in Descriptors : StatusKept(d)
  /\ \A l \in Locks : \A c \in Nat : LockKept(l, c)
  /\ \A a \in A : status[a] = "fresh" \/ (status[a] = "freed" /\ prog.reuse)

\* What is constant in a descriptor.
LEMMA SizeKept ==
  ASSUME NEW A, Rely(A), NEW d \in Descriptors \ A
  PROVE  /\ Size(d)' = Size(d) /\ Off' = Off /\ Levels(d)' = Levels(d) /\ Target(d)' = Target(d)
         /\ prog' = prog /\ DescKept(d)
BY DEF Rely, DescKept, Size, Off, Levels, Target, Goal

\* The runs of d enter again only below the level where they fork.
LEMMA ForksTop ==
  ASSUME TypeOK, NEW d \in Descriptors, NEW i, Forks(d, i), NEW m \in Nat, OwnUpTo(d, m), ~prog.with
  PROVE  m <= i
<1>1. i \in Levels(d) /\ ~Own(d, i + 1)
  BY DEF Forks
<1>2. i \in Nat
  BY <1>1, DescType DEF Levels
<1>3. i + 1 \notin 1 .. m
  BY <1>1 DEF OwnUpTo
<1> QED
  BY <1>2, <1>3

\* The entries that a section uses are in its log.
LEMMA FitsLog ==
  ASSUME TypeOK, PathsFit, NEW d \in Descriptors
  PROVE  /\ Size(d) \in Nat /\ Size(d) + 1 \in 1 .. LogLen /\ Size(d) + 2 \in 1 .. LogLen
         /\ \A i \in Levels(d) : /\ i \in Nat /\ i + 1 \in 1 .. LogLen /\ i + 2 \in 1 .. LogLen
                                 /\ i + 1 + Off \in 1 .. LogLen /\ i < Size(d) /\ i + 1 <= Size(d)
         /\ \A m \in 0 .. Size(d) : m \in Nat /\ \A j \in 1 .. m : j \in 1 .. LogLen /\ j - 1 \in Levels(d)
<1>1. Size(d) \in Nat /\ Size(d) + 2 <= LogLen /\ LogLen \in Nat
  BY DescType, Consts DEF PathsFit
<1>2. Off \in {0, 1}
  BY ProgType
<1> QED
  BY <1>1, <1>2 DEF Levels

\* The thread of a descriptor that a log holds stays.
LEMMA ThreadKept ==
  ASSUME InvA, NEW A, Rely(A), NEW d \in Descriptors \ A, NEW j \in 1 .. LogLen,
         log'[d][j] = log[d][j]
  PROVE  Own(d, j)' <=> Own(d, j)
<1>1. CASE log[d][j][1] = "word" /\ log[d][j][2] \in Descriptors
  <2>1. status[log[d][j][2]] # "fresh"
    BY <1>1 DEF InvA, HeapOK, LogsKnown
  <2>2. desc'[log[d][j][2]].thread = desc[log[d][j][2]].thread
    BY <1>1, <2>1 DEF Rely, StatusKept
  <2>3. desc'[d].thread = desc[d].thread
    BY SizeKept DEF DescKept
  <2> QED
    BY <2>2, <2>3 DEF Own
<1>2. CASE ~(log[d][j][1] = "word" /\ log[d][j][2] \in Descriptors)
  BY <1>2 DEF Own
<1> QED
  BY <1>1, <1>2

\* An entry for an own lock is set.
LEMMA OwnSet ==
  ASSUME NEW d, NEW j, Own(d, j)
  PROVE  log[d][j] # Unset /\ ~IsDone(log[d][j])
BY DEF Own, Unset, IsDone

\* The entries of own locks stay.
LEMMA OwnKept ==
  ASSUME InvA, NEW A, Rely(A), NEW d \in Descriptors \ A, NEW m \in 0 .. Size(d), OwnUpTo(d, m),
         prog.with => m = 0
  PROVE  /\ OwnUpTo(d, m)'
         /\ \A j \in 1 .. m : log'[d][j] = log[d][j]
<1>1. m \in Nat /\ TypeOK /\ PathsFit
  BY FitsLog DEF InvA, HeapOK
<1>2. ASSUME NEW j \in 1 .. m PROVE log'[d][j] = log[d][j] /\ Own(d, j)'
  <2>1. ~prog.with
    BY <1>1, <1>2
  <2>2. Off = 1 /\ j \in 1 .. LogLen
    BY <1>1, <2>1, ProgType, FitsLog
  <2>3. Own(d, j) /\ log[d][j] # Unset
    BY OwnSet DEF OwnUpTo
  <2>4. ~\E q \in Levels(d) : q + 1 + Off = j /\ Forks(d, q)
    <3>1. SUFFICES ASSUME NEW q \in Levels(d), Forks(d, q), q + 2 = j PROVE FALSE
      BY <1>1, <2>2, FitsLog
    <3>2. m <= q
      BY <1>1, <2>1, <3>1, ForksTop
    <3> QED
      BY <1>1, <3>1, <3>2, FitsLog
  <2>5. EntryKept(d, j)
    BY <2>2 DEF Rely, DescKept
  <2>6. log'[d][j] = log[d][j]
    BY <2>3, <2>4, <2>5 DEF EntryKept
  <2> QED
    BY <2>2, <2>3, <2>6, ThreadKept
<1> QED
  BY <1>2 DEF OwnUpTo

\* A logged lock word stays.
LEMMA LoadKept ==
  ASSUME InvA, NEW A, Rely(A), NEW d \in Descriptors \ A, ~prog.with,
         NEW i \in Levels(d), OwnUpTo(d, i), log[d][i + 1] # Unset
  PROVE  /\ log'[d][i + 1] = log[d][i + 1]
         /\ Own(d, i + 1)' <=> Own(d, i + 1)
<1>1. i \in Nat /\ TypeOK /\ PathsFit /\ i + 1 \in 1 .. LogLen /\ Off = 1
  BY FitsLog, ProgType DEF InvA, HeapOK
<1>2. ~\E q \in Levels(d) : q + 1 + Off = i + 1 /\ Forks(d, q)
  <2>1. SUFFICES ASSUME NEW q \in Levels(d), Forks(d, q), q + 2 = i + 1 PROVE FALSE
    BY <1>1, FitsLog
  <2>2. i <= q
    BY <1>1, <2>1, ForksTop
  <2> QED
    BY <1>1, <2>1, <2>2, FitsLog
<1>3. EntryKept(d, i + 1)
  BY <1>1 DEF Rely, DescKept
<1>4. log'[d][i + 1] = log[d][i + 1]
  BY <1>2, <1>3 DEF EntryKept
<1> QED
  BY <1>1, <1>4, ThreadKept

\* The level where the runs fork stays; the descriptor there is set once and
\* then replaced by the result.
LEMMA ForksKept ==
  ASSUME InvA, NEW A, Rely(A), NEW d \in Descriptors \ A, NEW i, Forks(d, i)
  PROVE  /\ Forks(d, i)' /\ i \in Levels(d)
         /\ ~prog.with => log'[d][i + 1] = log[d][i + 1]
         /\ \/ ChildAt(d, i)' = ChildAt(d, i)
            \/ ChildAt(d, i) = Unset
            \/ /\ IsDone(ChildAt(d, i)')
               /\ \A e \in Descriptors : ChildAt(d, i) = Word(e) => Over(e)'
<1>1. i \in Levels(d) /\ OwnUpTo(d, i) /\ (prog.with => i = 0)
      /\ (~prog.with => log[d][i + 1] # Unset /\ ~Own(d, i + 1))
  BY DEF Forks
<1>2. TypeOK /\ PathsFit
  BY DEF InvA, HeapOK
<1>3. i \in 0 .. Size(d) /\ i + 1 + Off \in 1 .. LogLen
  BY <1>1, <1>2, FitsLog DEF Levels
<1>4. OwnUpTo(d, i)' /\ Levels(d)' = Levels(d) /\ prog' = prog /\ Off' = Off
  BY <1>1, <1>3, OwnKept, SizeKept
<1>5. ~prog.with => log'[d][i + 1] = log[d][i + 1] /\ ~Own(d, i + 1)'
  BY <1>1, LoadKept
<1>6. Unset' = Unset
  BY DEF Unset
<1>7. Forks(d, i)'
  BY <1>1, <1>4, <1>5, <1>6 DEF Forks
<1>8. EntryKept(d, i + 1 + Off)
  BY <1>3 DEF Rely, DescKept
<1> QED
  BY <1>1, <1>4, <1>5, <1>7, <1>8 DEF EntryKept, ChildAt

\* A section that comes to its store goes on doing so, and the entries of the
\* store stay.
LEMMA BaseKept ==
  ASSUME InvA, NEW A, Rely(A), NEW d \in Descriptors \ A, Base(d)
  PROVE  /\ Base(d)'
         /\ Value(d) # Unset => Value(d)' = Value(d)
         /\ Mark(d) # Unset => Mark(d)' = Mark(d)
<1>1. TypeOK /\ PathsFit /\ OwnUpTo(d, Size(d)) /\ (prog.with => Size(d) = 0) /\ Size(d) \in Nat
  BY FitsLog DEF InvA, HeapOK, Base
<1>2. OwnUpTo(d, Size(d))'
  <2>1. PICK m \in 0 .. Size(d) : m = Size(d) /\ OwnUpTo(d, m) /\ (prog.with => m = 0)
    BY <1>1
  <2>2. OwnUpTo(d, m)'
    BY <2>1, OwnKept
  <2>3. \A j \in 1 .. m : Own(d, j)'
    BY <2>2 DEF OwnUpTo
  <2> QED
    BY <2>1, <2>3, SizeKept DEF OwnUpTo
<1>3. \A i : ~Forks(d, i)
  <2>1. SUFFICES ASSUME NEW i, Forks(d, i) PROVE FALSE
    OBVIOUS
  <2>2. i \in Levels(d) /\ i < Size(d)
    BY <1>1, <2>1, FitsLog DEF Forks
  <2>3. ~prog.with
    BY <1>1, <2>2 DEF Levels
  <2>4. Size(d) <= i
    BY <1>1, <2>1, <2>3, ForksTop
  <2> QED
    BY <1>1, <2>2, <2>4, FitsLog
<1>4. EntryKept(d, Size(d) + 1) /\ EntryKept(d, Size(d) + 2)
  BY <1>1, FitsLog DEF Rely, DescKept
<1>5. Base(d)'
  BY <1>1, <1>2, SizeKept DEF Base
<1> QED
  BY <1>3, <1>4, <1>5, SizeKept DEF EntryKept, Value, Mark

\* What the runs of a section share does not change.
LEMMA InKept ==
  ASSUME NEW A, Rely(A), NEW u \in Threads, calls'[u] = calls[u],
         NEW s, s # None => s \in Descriptors \ A
  PROVE  PathIn(u, s)' = PathIn(u, s) /\ IdIn(u, s)' = IdIn(u, s) /\ NumberIn(u, s)' = NumberIn(u, s)
<1>1. s # None => desc'[s].path = desc[s].path /\ desc'[s].thread = desc[s].thread /\ callOf'[s] = callOf[s]
  BY DEF Rely, DescKept
<1> QED
  BY <1>1 DEF PathIn, IdIn, NumberIn

\* The level of a frame is on the path of its section.
LEMMA LevelIn ==
  ASSUME TypeOK, NEW u \in Threads, NEW f \in Frames, NEW s \in Descriptors, LockShape(u, f, s)
  PROVE  Level(f, s) \in Levels(s) /\ Level(f, s) \in 0 .. Size(s)
<1>1. s # None /\ Size(s) \in Nat /\ Len(f.path) \in Nat
  BY Consts, DescType, FrameType
<1>2. Len(f.path) < Size(s)
  BY <1>1 DEF LockShape, PathIn, Size
<1> QED
  BY <1>1, <1>2 DEF Level, Levels

\* The shape of a frame in a store is kept by the steps of others.
LEMMA StoreShapeKept ==
  ASSUME InvA, NEW A, Rely(A), NEW f \in Frames, NEW n, NEW s \in Descriptors \ A, StoreShape(f, s, n)
  PROVE  StoreShape(f, s, n)'
<1>1. /\ s # None /\ f.path = <<>> /\ f.lock = Target(s) /\ Base(s)
      /\ f.pc = "get" => n = Size(s)
      /\ f.pc = "skip" => n = Size(s) + 1
      /\ f.pc \in {"store", "mark"} => n = Size(s) + 2
      /\ f.pc # "get" => f.cur \in Nat /\ Value(s) = Word(f.cur)
  BY DEF StoreShape
<1>2. Base(s)' /\ (Value(s) # Unset => Value(s)' = Value(s))
  BY <1>1, BaseKept
<1>3. Size(s)' = Size(s) /\ Target(s)' = Target(s)
  BY SizeKept
<1>4. f.pc # "get" => f.cur \in Nat /\ Value(s)' = Word(f.cur)
  BY <1>1, <1>2, EntryFacts
<1> QED
  BY <1>1, <1>2, <1>3, <1>4 DEF StoreShape, Word

\* The shape of a frame in a call inside a lock is kept.
LEMMA InsideShapeKept ==
  ASSUME InvA, NEW A, Rely(A), NEW f \in Frames, NEW n, NEW s \in Descriptors \ A,
         NEW i \in Levels(s), InsideShape(f, s, n, i)
  PROVE  InsideShape(f, s, n, i)'
<1>1. TypeOK /\ PathsFit /\ i \in Nat /\ i \in 0 .. Size(s) /\ Size(s) \in Nat
  BY FitsLog DEF InvA, HeapOK, Levels
<1>2. OwnUpTo(s, i) /\ (prog.with => i = 0)
  BY DEF InsideShape
<1>3. OwnUpTo(s, i)' /\ prog' = prog /\ Off' = Off
  BY <1>1, <1>2, OwnKept, SizeKept
<1>4. ~prog.with /\ f.pc # "load" =>
       /\ log'[s][i + 1] = Word(f.cur) /\ f.cur \in Nat \cup Descriptors
       /\ Own(s, i + 1)' <=> Own(s, i + 1)
  <2>1. SUFFICES ASSUME ~prog.with, f.pc # "load"
                 PROVE  /\ log'[s][i + 1] = Word(f.cur) /\ f.cur \in Nat \cup Descriptors
                        /\ Own(s, i + 1)' <=> Own(s, i + 1)
    OBVIOUS
  <2>2. log[s][i + 1] = Word(f.cur) /\ f.cur \in Nat \cup Descriptors
    BY <2>1 DEF InsideShape
  <2>3. log[s][i + 1] # Unset
    BY <2>2, EntryFacts
  <2> QED
    BY <1>2, <2>1, <2>2, <2>3, LoadKept
<1>5. Sharing(f) => ChildAt(s, i)' = Word(f.d) \/ IsDone(ChildAt(s, i)')
  <2>1. SUFFICES ASSUME Sharing(f) PROVE ChildAt(s, i)' = Word(f.d) \/ IsDone(ChildAt(s, i)')
    OBVIOUS
  <2>2. f.pc \notin {"load", "self", "reentered"}
    BY <2>1 DEF Sharing, Early
  <2>3. ~prog.with => log[s][i + 1] # Unset /\ ~Own(s, i + 1)
    BY <2>2, EntryFacts DEF InsideShape
  <2>4. Forks(s, i)
    BY <1>2, <2>3 DEF Forks
  <2>5. ChildAt(s, i) = Word(f.d) \/ IsDone(ChildAt(s, i))
    BY <2>1 DEF InsideShape
  <2>6. ChildAt(s, i) # Unset
    BY <2>5, EntryFacts
  <2> QED
    BY <2>4, <2>5, <2>6, ForksKept
<1>6. /\ f.pc \in {"load", "with"} => n = i
      /\ f.pc \in {"self", "reentered"} => n = i + 1
      /\ f.pc \in {"alloc", "commit"} => n = i + Off
      /\ Sharing(f) => n = i + 1 + Off
      /\ f.pc = "reentered" => Own(s, i + 1) /\ ~prog.with
      /\ ~prog.with /\ f.pc \notin {"load", "self", "reentered"} => ~Own(s, i + 1)
      /\ f.le # 0 => Sharing(f) /\ f.le = i + 1 + Off
  BY DEF InsideShape
<1> HIDE DEF InvA
<1>7. f.pc = "reentered" => Own(s, i + 1)'
  BY <1>4, <1>6
<1>8. ~prog.with /\ f.pc \notin {"load", "self", "reentered"} => ~Own(s, i + 1)'
  BY <1>4, <1>6
<1> QED
  BY <1>2, <1>3, <1>4, <1>5, <1>6, <1>7, <1>8 DEF InsideShape, Word, Sharing, ChildAt

\* The shape of every frame is kept.
LEMMA ShapeKept ==
  ASSUME InvA, NEW A, Rely(A), NEW u \in Threads, calls'[u] = calls[u], NEW f \in Frames, NEW n,
         NEW s, s # None => s \in Descriptors \ A, FrameShape(u, f, s, n)
  PROVE  FrameShape(u, f, s, n)'
<1>1. TypeOK
  BY DEF InvA
<1>2. CASE f.pc \in Storing
  <2>1. StoreShape(f, s, n) /\ s # None
    BY <1>2 DEF FrameShape, StoreShape
  <2>2. StoreShape(f, s, n)'
    BY <2>1, StoreShapeKept
  <2> QED
    BY <1>2, <2>2 DEF FrameShape
<1>3. CASE f.pc \notin Storing
  <2>1. LockShape(u, f, s)
    BY <1>3 DEF FrameShape
  <2>2. PathIn(u, s)' = PathIn(u, s) /\ prog' = prog
    BY InKept DEF Rely
  <2>3. LockShape(u, f, s)'
    BY <2>1, <2>2 DEF LockShape, IsRest
  <2>4. CASE s = None
    <3>1. OutsideShape(u, f)
      BY <1>3, <2>4 DEF FrameShape
    <3>2. OutsideShape(u, f)'
      BY <3>1 DEF OutsideShape
    <3> QED
      BY <1>3, <2>3, <2>4, <3>2 DEF FrameShape
  <2>5. CASE s # None
    <3>1. InsideShape(f, s, n, Level(f, s)) /\ Level(f, s) \in Levels(s)
      BY <1>1, <1>3, <2>1, <2>5, LevelIn DEF FrameShape
    <3>2. PICK i \in Levels(s) : i = Level(f, s) /\ InsideShape(f, s, n, i)
      BY <3>1
    <3>3. InsideShape(f, s, n, i)'
      BY <2>5, <3>2, InsideShapeKept
    <3>4. Level(f, s)' = i
      BY <2>5, <3>2, SizeKept DEF Level
    <3>5. InsideShape(f, s, n, Level(f, s))'
      BY <3>3, <3>4 DEF InsideShape, Own, OwnUpTo, ChildAt
    <3> QED
      BY <1>3, <2>3, <2>5, <3>5 DEF FrameShape
  <2> QED
    BY <2>4, <2>5
<1> QED
  BY <1>2, <1>3

\* A descriptor that was in a lock is still one that was.
LEMMA KnownKept ==
  ASSUME NEW A, Rely(A), NEW e \in Descriptors, Known(e)
  PROVE  Known(e)'
<1>1. status[e] # "fresh" /\ status'[e] # "fresh" /\ prog' = prog
  BY DEF Known, Rely, StatusKept
<1>2. CASE e \in A
  BY <1>1, <1>2 DEF Rely, Known
<1>3. CASE e \notin A
  <2>1. Held(e) => Held(e)'
    BY <1>3 DEF Rely, DescKept
  <2> QED
    BY <1>1, <2>1 DEF Known
<1> QED
  BY <1>2, <1>3

\* What is in use is not allocated.
LEMMA InUseKept ==
  ASSUME NEW A, Rely(A), NEW e \in Descriptors, Safe(e) \/ InUse(e)
  PROVE  e \in Descriptors \ A
BY DEF Rely, Safe, InUse

\* What a frame knows of the lock word that it read is kept,
LEMMA CurKept ==
  ASSUME InvA, NEW A, Rely(A), NEW u \in Threads, calls'[u] = calls[u], NEW f \in Frames,
         NEW s, s # None => s \in Descriptors \ A, FrameCur(u, f, s)
  PROVE  FrameCur(u, f, s)'
<1>1. f.pc \notin Storing /\ f.cur \in Descriptors => Known(f.cur)'
  BY KnownKept DEF FrameCur
<1>2. f.pc \in HelpIn => f.cur \in Descriptors
  BY DEF FrameCur
<1>3. f.pc = "help_check" => (desc[f.cur].acquired \/ status[f.cur] = "retired")'
  <2>1. f.pc = "help_check" => f.cur \in Descriptors /\ (desc[f.cur].acquired \/ status[f.cur] = "retired")
    BY DEF FrameCur, HelpIn
  <2> QED
    BY <2>1 DEF Rely, StatusKept
<1>4. f.pc \in {"helped", "help_clear"} => Safe(f.cur) /\ Safe(f.cur)' /\ f.cur \in Descriptors \ A
  <2>1. f.pc \in {"helped", "help_clear"} => Safe(f.cur) /\ f.cur \in Descriptors
    BY DEF FrameCur, HelpIn
  <2> QED
    BY <2>1, InUseKept DEF Rely, StatusKept
<1>5. f.pc = "helped" => Held(f.cur)'
  BY <1>4 DEF Rely, DescKept, FrameCur
<1>6. f.pc = "help_clear" => desc'[f.cur].done
  BY <1>4 DEF Rely, DescKept, FrameCur
<1>7. f.pc \in Inherited => f.id = IdIn(u, s)'
  BY InKept DEF FrameCur
<1>8. f.pc \in {"self", "alloc"} /\ s = None /\ f.cur \in Descriptors => desc'[f.cur].thread # u
  <2>1. f.pc \in {"self", "alloc"} /\ f.cur \in Descriptors => status[f.cur] # "fresh"
    BY DEF FrameCur, Known, Storing
  <2> QED
    BY <2>1 DEF FrameCur, Rely, StatusKept
<1> QED
  BY <1>1, <1>2, <1>3, <1>4, <1>5, <1>6, <1>7, <1>8 DEF FrameCur

\* what it knows of its descriptor,
LEMMA FrameDescKept ==
  ASSUME InvA, NEW A, Rely(A), TypeOK', ChildrenOK',
         NEW u \in Threads, calls'[u] = calls[u], NEW f \in Frames, NEW n,
         NEW s, s # None => s \in Descriptors \ A,
         HasDesc(f) => f.d \notin A, FrameShape(u, f, s, n), FrameDesc(u, f, s)
  PROVE  FrameDesc(u, f, s)'
<1>1. HasDesc(f) =>
       (/\ f.d \in Descriptors /\ status[f.d] # "fresh"
        /\ desc[f.d].lock = f.lock
        /\ Size(f.d) = Len(f.path) /\ IsRest(desc[f.d].path, PathIn(u, s))
        /\ desc[f.d].thread = IdIn(u, s) /\ callOf[f.d] = NumberIn(u, s)
        /\ ~prog.with => desc[f.d].counter = CounterOf(f))'
  <2>1. SUFFICES ASSUME HasDesc(f) PROVE
       (/\ f.d \in Descriptors /\ status[f.d] # "fresh"
        /\ desc[f.d].lock = f.lock
        /\ Size(f.d) = Len(f.path) /\ IsRest(desc[f.d].path, PathIn(u, s))
        /\ desc[f.d].thread = IdIn(u, s) /\ callOf[f.d] = NumberIn(u, s)
        /\ ~prog.with => desc[f.d].counter = CounterOf(f))'
    OBVIOUS
  <2>2. /\ f.d \in Descriptors \ A /\ status[f.d] # "fresh"
        /\ desc[f.d].lock = f.lock
        /\ Size(f.d) = Len(f.path) /\ IsRest(desc[f.d].path, PathIn(u, s))
        /\ desc[f.d].thread = IdIn(u, s) /\ callOf[f.d] = NumberIn(u, s)
        /\ ~prog.with => desc[f.d].counter = CounterOf(f)
    BY <2>1 DEF FrameDesc
  <2>3. PathIn(u, s)' = PathIn(u, s) /\ IdIn(u, s)' = IdIn(u, s) /\ NumberIn(u, s)' = NumberIn(u, s)
    BY InKept
  <2>4. DescKept(f.d) /\ Size(f.d)' = Size(f.d) /\ prog' = prog
    BY <2>2, SizeKept
  <2>5. status'[f.d] # "fresh"
    BY <2>2 DEF Rely, StatusKept
  <2>6. /\ desc'[f.d].path = desc[f.d].path /\ desc'[f.d].lock = desc[f.d].lock
        /\ desc'[f.d].thread = desc[f.d].thread /\ callOf'[f.d] = callOf[f.d]
        /\ ~prog.with => desc'[f.d].counter = desc[f.d].counter
    BY <2>4 DEF DescKept
  <2>7. IsRest(desc'[f.d].path, PathIn(u, s)')
    BY <2>2, <2>3, <2>6
  <2> QED
    BY <2>2, <2>3, <2>4, <2>5, <2>6, <2>7 DEF CounterOf, IsLocked, IsRest
<1>2. ASSUME Sharing(f), s # None, f.le = 0
      PROVE  /\ f.pc = "recheck" => desc'[f.d].acquired \/ IsDone(ChildAt(s, Level(f, s))')
             /\ f.pc \notin {"acquire", "recheck"} => Safe(f.d)'
  <2>1. HasDesc(f) /\ f.pc \notin Storing /\ f.d \in Descriptors
    BY <1>2, <1>1 DEF Sharing, HasDesc
  <2>2. f.pc \notin {"acquire", "recheck"} => Safe(f.d)'
    BY <1>2, <2>1 DEF FrameDesc, Rely, StatusKept
  <2>3. ASSUME f.pc = "recheck"
        PROVE  desc'[f.d].acquired \/ IsDone(ChildAt(s, Level(f, s))')
    <3>1. TypeOK /\ LockShape(u, f, s) /\ InsideShape(f, s, n, Level(f, s))
      BY <1>2, <2>1 DEF FrameShape, InvA
    <3>2. PICK i \in Levels(s) : i = Level(f, s)
      BY <1>2, <3>1, LevelIn
    <3>3. InsideShape(f, s, n, i)' /\ Level(f, s)' = i /\ Levels(s)' = Levels(s)
      BY <1>2, <3>1, <3>2, InsideShapeKept, SizeKept DEF Level
    <3>4. ChildAt(s, i)' = Word(f.d) \/ IsDone(ChildAt(s, i)')
      BY <1>2, <3>3 DEF InsideShape, Word, Sharing
    <3>5. Forks(s, i)'
      <4>1. (~prog.with => log[s][i + 1] # Unset /\ ~Own(s, i + 1))'
        <5>1. (~prog.with => log[s][i + 1] = Word(f.cur) /\ ~Own(s, i + 1))'
          BY <3>3, <2>3 DEF InsideShape
        <5> QED
          BY <5>1 DEF Word, Unset
      <4> QED
        BY <3>2, <3>3, <4>1 DEF Forks, InsideShape
    <3>6. CASE IsDone(ChildAt(s, i)')
      <4>1. ChildAt(s, Level(f, s))' = ChildAt(s, i)'
        BY <3>3 DEF ChildAt
      <4> QED
        BY <3>6, <4>1
    <3>7. CASE ChildAt(s, i)' = Word(f.d)
      <4>1. ChildOK(s, i, f.d)'
        BY <1>2, <3>2, <3>3, <3>5, <3>7 DEF ChildrenOK, Word, Unset, IsDone
      <4>2. status'[f.d] = "live"
        BY <4>1 DEF ChildOK
      <4>3. desc[f.d].acquired \/ IsDone(ChildAt(s, i))
        BY <1>2, <2>3, <3>2 DEF FrameDesc
      <4>4. ~IsDone(ChildAt(s, i))
        <5>1. Forks(s, i)
          <6>1. ~prog.with => log[s][i + 1] = Word(f.cur) /\ ~Own(s, i + 1)
            BY <3>1, <3>2, <2>3 DEF InsideShape
          <6> QED
            BY <3>1, <3>2, <6>1, EntryFacts DEF Forks, InsideShape
        <5>2. ChildAt(s, i)' = ChildAt(s, i) \/ ChildAt(s, i) = Unset \/ IsDone(ChildAt(s, i)')
          BY <1>2, <5>1, ForksKept
        <5> QED
          BY <5>2, <3>7, EntryFacts
      <4> QED
        BY <2>1, <4>2, <4>3, <4>4 DEF Rely, StatusKept
    <3> QED
      BY <3>4, <3>6, <3>7
  <2> QED
    BY <2>2, <2>3
<1>3. ASSUME Sharing(f), s # None, IsDone(ChildAt(s, Level(f, s))')
      PROVE  Over(f.d)'
  <2>1. f.pc \notin Storing /\ f.d \in Descriptors \ A /\ f.pc \notin {"load", "self", "reentered"}
    BY <1>3 DEF Sharing, HasDesc, FrameDesc, Early
  <2>2. TypeOK /\ LockShape(u, f, s) /\ InsideShape(f, s, n, Level(f, s))
    BY <1>3, <2>1 DEF FrameShape, InvA
  <2>3. PICK i \in Levels(s) : i = Level(f, s)
    BY <1>3, <2>2, LevelIn
  <2>4. Level(f, s)' = i
    BY <1>3, <2>3, SizeKept DEF Level
  <2>5. IsDone(ChildAt(s, i)')
    BY <1>3, <2>4 DEF ChildAt
  <2>6. Forks(s, i)
    <3>1. ~prog.with => log[s][i + 1] = Word(f.cur) /\ ~Own(s, i + 1)
      BY <2>1, <2>2, <2>3 DEF InsideShape
    <3> QED
      BY <2>2, <2>3, <3>1, EntryFacts DEF Forks, InsideShape
  <2>7. ChildAt(s, i) = Word(f.d) \/ IsDone(ChildAt(s, i))
    BY <1>3, <2>2, <2>3 DEF InsideShape
  <2>8. CASE IsDone(ChildAt(s, i))
    <3>1. Over(f.d)
      BY <1>3, <2>3, <2>8 DEF FrameDesc
    <3> QED
      BY <2>1, <3>1 DEF Rely, DescKept
  <2>9. CASE ChildAt(s, i) = Word(f.d)
    <3>1. ChildAt(s, i) # Unset /\ ~IsDone(ChildAt(s, i))
      BY <2>9, EntryFacts
    <3> QED
      BY <1>3, <2>1, <2>5, <2>6, <2>9, <3>1, ForksKept
  <2> QED
    BY <2>7, <2>8, <2>9
<1> QED
  BY <1>1, <1>2, <1>3 DEF FrameDesc, HasDesc, Sharing

\* and what it knows of counters.
LEMMA CountKept ==
  ASSUME InvA, NEW A, Rely(A), TypeOK', LocksOK', NEW u \in Threads, NEW f \in Frames, NEW s, NEW n,
         HasDesc(f) => f.d \notin A, FrameShape(u, f, s, n), FrameDesc(u, f, s), FrameCount(f)
  PROVE  FrameCount(f)'
<1>1. SUFFICES ASSUME f.pc \notin Storing PROVE FrameCount(f)'
  BY DEF FrameCount
<1>2. f.lock \in Locks /\ f.old \in Nat
  BY FrameType
<1>3. HasDesc(f) => f.d \in Descriptors /\ DescKept(f.d) /\ desc[f.d].lock = f.lock
                     /\ desc'[f.d].lock = f.lock
                     /\ (~prog.with => desc[f.d].counter = CounterOf(f))
  BY SizeKept DEF FrameDesc, DescKept
<1>4. f.cur \in Nat => f.cur > 0 /\ AtMost(f.lock, f.cur)'
  BY <1>1, <1>2 DEF FrameCount, Rely, LockKept
<1>5. HasDesc(f) => AtMost(f.lock, desc[f.d].counter)'
  BY <1>1, <1>2, <1>3 DEF FrameCount, DescKept
<1>6. HasDesc(f) => /\ desc[f.d].counter \in Nat /\ desc'[f.d].counter \in Nat
                    /\ desc[f.d].counter <= desc'[f.d].counter
                    /\ (Held(f.d) => Held(f.d)') /\ (Over(f.d) => Over(f.d)')
                    /\ (desc[f.d].done => desc'[f.d].done)
                    /\ (Held(f.d)' => Held(f.d) \/ Installed(f.d)')
  BY <1>3 DEF DescKept, InvA, TypeOK
<1>7. f.pc \in {"raise", "test", "take", "count", "cas", "check", "ran", "clear", "result", "retire"} => HasDesc(f)
  BY DEF HasDesc, Early, Storing
<1>8. /\ f.pc \notin {"load", "with"} => f.cur \in Nat \cup Descriptors
      /\ f.pc = "raise" => f.old < f.cur /\ f.cur \in Nat /\ f.old <= desc'[f.d].counter
      /\ f.pc \in {"test", "take"} /\ f.cur \in Nat => f.cur <= desc'[f.d].counter
  BY <1>1, <1>2, <1>6, <1>7 DEF FrameCount
<1>9. /\ f.pc \in {"test", "count"} /\ f.cur = f.d => Held(f.d)'
      /\ f.pc = "check" => f.cur \in Nat /\ (Held(f.d)' \/ Moved(f.lock, f.cur)')
      /\ f.pc = "ran" => Held(f.d)'
      /\ f.pc = "clear" => desc'[f.d].done
      /\ f.pc \in {"result", "retire"} => Over(f.d)'
  BY <1>1, <1>2, <1>6, <1>7 DEF FrameCount, Rely, LockKept
<1>10. ASSUME f.pc \in {"cas", "take"}
       PROVE  f.cur \in Nat /\ (Held(f.d)' => Moved(f.lock, f.cur)')
  <2>1. f.cur \in Nat /\ (Held(f.d) => Moved(f.lock, f.cur)) /\ HasDesc(f)
    BY <1>1, <1>7, <1>10 DEF FrameCount
  <2>2. Held(f.d) => Moved(f.lock, f.cur)'
    BY <1>2, <2>1 DEF Rely, LockKept
  <2>3. ASSUME Installed(f.d)' PROVE Moved(f.lock, f.cur)'
    <3>1. PICK l \in Locks : lck'[l] = f.d
      BY <2>3 DEF Installed
    <3>2. l = f.lock /\ f.d \in Descriptors
      BY <1>3, <2>1, <3>1 DEF LocksOK
    <3>3. f.cur <= desc[f.d].counter
      <4>1. CASE f.pc = "take"
        BY <1>1, <2>1, <4>1 DEF FrameCount
      <4>2. CASE f.pc = "cas"
        <5>1. ~prog.with \/ prog.with
          OBVIOUS
        <5>2. f.cur \notin Descriptors
          BY <2>1, Consts
        <5>3. CASE ~prog.with
          BY <1>3, <2>1, <5>2, <5>3 DEF CounterOf, IsLocked
        <5>4. CASE prog.with
          BY <1>1, <4>2, <5>4 DEF FrameShape, LockShape, TryOnly
        <5> QED
          BY <5>3, <5>4
      <4> QED
        BY <1>10, <4>1, <4>2
    <3>4. f.cur <= desc'[f.d].counter
      BY <1>6, <2>1, <3>3
    <3> QED
      BY <3>1, <3>2, <3>4 DEF Moved
  <2> QED
    BY <1>6, <2>1, <2>2, <2>3
<1> QED
  BY <1>1, <1>4, <1>5, <1>8, <1>9, <1>10 DEF FrameCount

\* The invariant of one frame.
LEMMA FrameFacts ==
  ASSUME InvA, NEW t \in Threads, NEW k \in Depth(t)
  PROVE  /\ stack[t][k] \in Frames /\ k \in Nat /\ k >= 1 /\ k <= Height(t) /\ Height(t) \in Nat
         /\ stack[t] # <<>>
         /\ FrameOK(t, k, stack[t][k], Sec(t, k), Pos(t, k))
         /\ Sec(t, k) \in Descriptors \cup {None} /\ Pos(t, k) \in 0 .. LogLen
         /\ k < Height(t) => stack[t][k].pc \in Calling
<1>1. TypeOK
  BY DEF InvA
<1>2. stack[t][k] \in Frames /\ lg[t] \in Log /\ Height(t) \in Nat
  BY <1>1, HeightType
<1>3. k \in Nat /\ k >= 1 /\ k <= Height(t)
  BY <1>2 DEF Depth
<1>4. FrameOK(t, k, stack[t][k], Sec(t, k), Pos(t, k))
  BY DEF InvA, StackOK, FramesOK
<1>5. Sec(t, k) \in Descriptors \cup {None} /\ Pos(t, k) \in 0 .. LogLen
  <2>1. stack[t][k].lg \in Log
    BY <1>2, FrameType
  <2> QED
    BY <1>2, <2>1, LogType DEF Sec, Pos
<1>6. k < Height(t) => stack[t][k].pc \in Calling
  BY DEF InvA, StackOK, CallersWait
<1>7. stack[t] # <<>>
  BY <1>1, <1>3, HeightType
<1> QED
  BY <1>2, <1>3, <1>4, <1>5, <1>6, <1>7

\* With blocks that are reused no lock is taken inside of another.
LEMMA ReuseOutside ==
  ASSUME InvA, prog.reuse, NEW t \in Threads, NEW k \in Depth(t), stack[t][k].pc \notin Storing
  PROVE  Sec(t, k) = None
<1>1. SUFFICES ASSUME Sec(t, k) # None PROVE FALSE
  OBVIOUS
<1>2. TypeOK /\ stack[t][k] \in Frames /\ Sec(t, k) \in Descriptors
      /\ LockShape(t, stack[t][k], Sec(t, k))
  BY <1>1, FrameFacts DEF FrameOK, FrameShape, InvA
<1>3. Level(stack[t][k], Sec(t, k)) \in Levels(Sec(t, k))
  BY <1>2, LevelIn
<1>4. Size(Sec(t, k)) = 0
  BY <1>2 DEF InvA, HeapOK, ReuseFlat
<1> QED
  BY <1>3, <1>4 DEF Levels

\* What a frame refers to is not handed out by the allocator.
LEMMA NotAllocated ==
  ASSUME InvA, NEW A, Rely(A), NEW t \in Threads, NEW k \in Depth(t)
  PROVE  /\ Sec(t, k) # None => Sec(t, k) \in Descriptors \ A
         /\ HasDesc(stack[t][k]) => stack[t][k].d \in Descriptors \ A
<1>1. Sec(t, k) # None => Sec(t, k) \in Descriptors \ A
  BY FrameFacts, InUseKept DEF FrameOK, Guarded
<1>2. ASSUME HasDesc(stack[t][k]), stack[t][k].d \in A PROVE FALSE
  <2>1. status[stack[t][k].d] # "fresh" /\ stack[t][k].d \in Descriptors
    BY <1>2, FrameFacts DEF FrameOK, FrameDesc
  <2>2. status[stack[t][k].d] = "freed" /\ prog.reuse
    BY <1>2, <2>1 DEF Rely
  <2>3. stack[t][k].pc \notin Storing
    BY <1>2 DEF HasDesc
  <2>4. Sec(t, k) = None
    BY <2>2, <2>3, ReuseOutside
  <2>5. stack[t][k].pc # "commit"
    BY <2>3, <2>4, FrameFacts DEF FrameOK, FrameShape, OutsideShape
  <2>6. Owner(t, k)
    BY <1>2, <2>4, <2>5 DEF Owner, Sharing, HasDesc
  <2>7. status[stack[t][k].d] = "live"
    BY <2>6 DEF InvA, OwnersOK, OwnersLive
  <2> QED
    BY <2>2, <2>7
<1>3. HasDesc(stack[t][k]) => stack[t][k].d \in Descriptors
  BY FrameFacts DEF FrameOK, FrameDesc
<1> QED
  BY <1>1, <1>2, <1>3

\* All that a frame knows is kept by the steps of others.
LEMMA FrameKept ==
  ASSUME InvA, NEW A, Rely(A), TypeOK', ChildrenOK', LocksOK',
         NEW u \in Threads, NEW k \in Depth(u), calls'[u] = calls[u],
         NEW f, f = stack[u][k], NEW s, s = Sec(u, k), NEW n, n = Pos(u, k)
  PROVE  FrameShape(u, f, s, n)' /\ FrameCur(u, f, s)' /\ FrameDesc(u, f, s)' /\ FrameCount(f)'
<1>1. /\ f \in Frames /\ FrameShape(u, f, s, n) /\ FrameCur(u, f, s)
      /\ FrameDesc(u, f, s) /\ FrameCount(f)
  BY FrameFacts DEF FrameOK
<1>2. (s # None => s \in Descriptors \ A) /\ (HasDesc(f) => f.d \notin A)
  BY NotAllocated
<1>3. FrameShape(u, f, s, n)'
  BY <1>1, <1>2, ShapeKept
<1>4. FrameCur(u, f, s)'
  BY <1>1, <1>2, CurKept
<1>5. FrameDesc(u, f, s)'
  BY <1>1, <1>2, FrameDescKept
<1>6. FrameCount(f)'
  BY <1>1, <1>2, CountKept
<1> QED
  BY <1>3, <1>4, <1>5, <1>6

\* The step gives back no descriptor but the one that the innermost frame of
\* t owns.
GivesBack(t) ==
  \A d \in Descriptors : status[d] = "live" =>
    \/ status'[d] = "live"
    \/ /\ stack[t] # <<>> /\ Owner(t, Height(t)) /\ stack[t][Height(t)].d = d
       /\ stack[t][Height(t)].pc \in {"commit", "retire"}

\* A frame that waits keeps its section.
LEMMA CallerSec ==
  ASSUME NEW u \in Threads, NEW j, stack[u][j].pc \in Calling, stack'[u][j] = stack[u][j]
  PROVE  /\ Sec(u, j)' = Sec(u, j) /\ Pos(u, j)' = Pos(u, j) /\ (Owner(u, j)' <=> Owner(u, j))
         /\ Sec(u, j) = stack[u][j].lg.d /\ Pos(u, j) = stack[u][j].lg.n
<1>1. Sec(u, j)' = Sec(u, j) /\ Pos(u, j)' = Pos(u, j)
      /\ Sec(u, j) = stack[u][j].lg.d /\ Pos(u, j) = stack[u][j].lg.n
  BY DEF Sec, Pos, Calling
<1> QED
  BY <1>1 DEF Owner, Sharing

\* A section that somebody runs stays guarded.
LEMMA GuardKept ==
  ASSUME InvA, NEW A, Rely(A), NEW t \in Threads, GivesBack(t),
         NEW u \in Threads, NEW k \in Depth(u), NEW s, Guarded(u, k, s),
         \A j \in 1 .. k - 1 : stack'[u][j] = stack[u][j]
  PROVE  Guarded(u, k, s)' /\ Guarded(u, k + 1, s)'
<1>1. s \in Descriptors \ A /\ Held(s) /\ InUse(s)
  BY InUseKept DEF Guarded
<1>2. Held(s)'
  BY <1>1 DEF Rely, DescKept
<1>3. TypeOK /\ Height(u) \in Nat /\ k \in Nat /\ k <= Height(u)
  BY FrameFacts DEF InvA
<1>4. CASE Safe(s)
  <2>1. Safe(s)'
    BY <1>1, <1>4 DEF Rely, StatusKept
  <2> QED
    BY <1>1, <1>2, <2>1 DEF Guarded, InUse, Safe
<1>5. CASE ~Safe(s)
  <2>1. PICK j \in 1 .. k - 1 : Owner(u, j) /\ stack[u][j].pc = "ran" /\ stack[u][j].d = s
    BY <1>5 DEF Guarded
  <2>2. j \in Depth(u) /\ j < Height(u)
    BY <1>3 DEF Depth
  <2>3. stack'[u][j] = stack[u][j] /\ stack[u][j].pc \in Calling
    BY <2>1 DEF Calling
  <2>4. Owner(u, j)'
    BY <2>1, <2>3, CallerSec
  <2>5. status[s] = "live"
    BY <2>1, <2>2 DEF InvA, OwnersOK, OwnersLive
  <2>6. status'[s] = "live"
    <3>1. SUFFICES ASSUME status'[s] # "live" PROVE FALSE
      OBVIOUS
    <3>2. /\ stack[t] # <<>> /\ Owner(t, Height(t)) /\ stack[t][Height(t)].d = s
          /\ stack[t][Height(t)].pc \in {"commit", "retire"}
      BY <1>1, <2>5, <3>1 DEF GivesBack
    <3>3. Height(t) \in Depth(t)
      BY <1>3, <3>2, HeightType
    <3>4. t = u /\ Height(t) = j
      BY <2>1, <2>2, <3>2, <3>3 DEF InvA, OwnersOK, OwnersUnique
    <3> QED
      BY <2>1, <3>2, <3>4
  <2>7. j \in 1 .. (k + 1) - 1
    BY <1>3
  <2> QED
    BY <1>1, <1>2, <2>1, <2>3, <2>4, <2>6, <2>7 DEF Guarded, InUse
<1> QED
  BY <1>4, <1>5

\* A child in a log stays there until it is over.
LEMMA ChildStays ==
  ASSUME InvA, NEW A, Rely(A), NEW d \in Descriptors \ A, NEW e \in Descriptors, HasChild(d, e)
  PROVE  HasChild(d, e)' \/ (ChildDone(d)' /\ Over(e)')
<1>1. PICK i \in Levels(d) : Forks(d, i) /\ ChildAt(d, i) = Word(e)
  BY DEF HasChild
<1>2. ChildAt(d, i) # Unset
  BY <1>1, EntryFacts
<1>3. Forks(d, i)' /\ i \in Levels(d)'
  BY <1>1, ForksKept, SizeKept
<1>4. CASE ChildAt(d, i)' = ChildAt(d, i)
  <2>1. ChildAt(d, i)' = Word(e)
    BY <1>1, <1>4
  <2> QED
    BY <1>3, <2>1 DEF HasChild, Word
<1>5. CASE IsDone(ChildAt(d, i)') /\ Over(e)'
  BY <1>3, <1>5 DEF ChildDone, IsDone
<1> QED
  BY <1>1, <1>2, <1>4, <1>5, ForksKept

\* A call that is over stays so in the log.
LEMMA ChildDoneKept ==
  ASSUME InvA, NEW A, Rely(A), NEW d \in Descriptors \ A, ChildDone(d)
  PROVE  ChildDone(d)'
<1>1. PICK i \in Levels(d) : Forks(d, i) /\ IsDone(ChildAt(d, i))
  BY DEF ChildDone
<1>2. /\ Forks(d, i)'
      /\ ChildAt(d, i)' = ChildAt(d, i) \/ ChildAt(d, i) = Unset \/ IsDone(ChildAt(d, i)')
  BY <1>1, ForksKept
<1>3. IsDone(ChildAt(d, i)')
  BY <1>1, <1>2, EntryFacts
<1>4. i \in Levels(d)'
  BY <1>1, SizeKept
<1> QED
  BY <1>2, <1>3, <1>4 DEF ChildDone, IsDone

\* A descriptor in a log is live, and has fewer locks to take.
LEMMA ChildLive ==
  ASSUME InvA, NEW d \in Descriptors, NEW e, HasChild(d, e)
  PROVE  /\ e \in Descriptors /\ status[e] = "live" /\ desc[e].thread = desc[d].thread
         /\ Size(e) < Size(d) /\ Size(e) \in Nat /\ Size(d) \in Nat
<1>1. PICK i \in Levels(d) : Forks(d, i) /\ ChildAt(d, i) = Word(e)
  BY DEF HasChild
<1>2. ChildAt(d, i) # Unset /\ ~IsDone(ChildAt(d, i)) /\ ChildAt(d, i)[2] = e
  BY <1>1, EntryFacts
<1>3. ChildOK(d, i, e)
  BY <1>1, <1>2 DEF InvA, HeapOK, ChildrenOK
<1>4. e \in Descriptors /\ Size(e) = Size(d) - i - 1
  BY <1>3 DEF ChildOK
<1>5. Size(d) \in Nat /\ Size(e) \in Nat /\ i \in Nat
  BY <1>1, <1>4, DescType DEF InvA, Levels
<1> QED
  BY <1>3, <1>4, <1>5 DEF ChildOK

\* A section that has been run stays so.
LEMMA SettledKept ==
  ASSUME InvA, NEW A, Rely(A), NEW d \in Descriptors \ A, Settled(d)
  PROVE  Settled(d)'
<1>1. CASE Base(d) /\ Mark(d) # Unset
  <2>1. Base(d)' /\ Mark(d)' = Mark(d) /\ Unset' = Unset
    BY <1>1, BaseKept DEF Unset
  <2> QED
    BY <1>1, <2>1 DEF Settled
<1>2. CASE ChildDone(d)
  BY <1>2, ChildDoneKept DEF Settled
<1>3. CASE \E e \in Descriptors : HasChild(d, e) /\ Over(e)
  <2>1. PICK e \in Descriptors : HasChild(d, e) /\ Over(e)
    BY <1>3
  <2>2. e \in Descriptors \ A
    BY <2>1, ChildLive, InUseKept DEF InUse
  <2>3. Over(e)'
    BY <2>1, <2>2 DEF Rely, DescKept
  <2> QED
    BY <2>1, <2>3, ChildStays DEF Settled
<1> QED
  BY <1>1, <1>2, <1>3 DEF Settled

\* Only sections that have been run are marked done.
LEMMA DoneSettledKept ==
  ASSUME InvA, NEW A, Rely(A),
         \A d \in Descriptors : desc'[d].done => Settled(d)' \/ (desc[d].done /\ d \notin A)
  PROVE  DoneSettled'
<1>1. ASSUME NEW d \in Descriptors, desc'[d].done PROVE Settled(d)'
  <2>1. CASE desc[d].done /\ d \notin A
    BY <2>1, SettledKept DEF InvA, HeapOK, DoneSettled
  <2> QED
    BY <1>1, <2>1
<1> QED
  BY <1>1 DEF DoneSettled

\* A descriptor in a lock is live.
LEMMA InstalledLive ==
  ASSUME InvA, NEW d \in Descriptors, Installed(d)
  PROVE  status[d] = "live"
BY DEF Installed, InvA, HeapOK, LocksOK

\* The order of two descriptors in locks is kept when none is taken or
\* released.
LEMMA ChainedKept ==
  ASSUME InvA, NEW A, Rely(A), NEW d \in Descriptors, NEW e \in Descriptors, Installed(d), Installed(e),
         \A y \in Descriptors : HasChild(d, y) /\ Installed(y) /\ Size(e) <= Size(y) => Installed(y)'
  PROVE  Chained(d, e)'
<1>1. d \in Descriptors \ A /\ e \in Descriptors \ A
  BY InstalledLive, InUseKept DEF InUse
<1>2. /\ Size(d)' = Size(d) /\ Size(e)' = Size(e)
      /\ desc'[d].thread = desc[d].thread /\ desc'[e].thread = desc[e].thread
  BY <1>1, SizeKept DEF DescKept
<1>3. Chained(d, e)
  BY DEF InvA, HeapOK, ChainOrdered
<1>4. ASSUME NEW y \in Descriptors, HasChild(d, y), Installed(y), Size(e) <= Size(y)
      PROVE  HasChild(d, y)' /\ Installed(y)' /\ Size(y)' = Size(y)
  <2>1. Installed(y)' /\ ~Over(y)'
    BY <1>4 DEF Over
  <2>2. HasChild(d, y)'
    BY <1>1, <1>4, <2>1, ChildStays
  <2>3. y \in Descriptors \ A
    BY <1>4, InstalledLive, InUseKept DEF InUse
  <2> QED
    BY <2>1, <2>2, <2>3, SizeKept
<1>5. ASSUME d # e, desc[d].thread = desc[e].thread
      PROVE  /\ Size(d) # Size(e)
             /\ Size(e) < Size(d) =>
                  \E y \in Descriptors : HasChild(d, y)' /\ Installed(y)' /\ Size(e)' <= Size(y)'
  <2>1. /\ Size(d) # Size(e)
        /\ Size(e) < Size(d) =>
             \E y \in Descriptors : HasChild(d, y) /\ Installed(y) /\ Size(e) <= Size(y)
    BY <1>3, <1>5 DEF Chained
  <2> QED
    BY <1>2, <1>4, <2>1
<1> QED
  BY <1>2, <1>5 DEF Chained

\* The order of all of them is kept when no lock changes.
LEMMA ChainKept ==
  ASSUME InvA, NEW A, Rely(A), lck' = lck
  PROVE  ChainOrdered'
<1>1. \A y : Installed(y)' <=> Installed(y)
  BY DEF Installed
<1>2. ASSUME NEW d \in Descriptors, NEW e \in Descriptors PROVE Chained(d, e)'
  <2>1. CASE Installed(d) /\ Installed(e)
    BY <1>1, <2>1, ChainedKept
  <2>2. CASE ~(Installed(d) /\ Installed(e))
    BY <1>1, <2>2 DEF Chained
  <2> QED
    BY <2>1, <2>2
<1> QED
  BY <1>2 DEF ChainOrdered

\* The stack when the innermost frame goes on as g, calls g and goes on as c,
\* or returns r.
Conts(t, g) ==
  /\ Kept(t, Height(t) - 1) /\ Height(t)' = Height(t) /\ stack'[t][Height(t)] = g
Pushes(t, c, g) ==
  /\ Kept(t, Height(t) - 1) /\ Height(t)' = Height(t) + 1
  /\ stack'[t][Height(t)] = c /\ stack'[t][Height(t) + 1] = g
Pops(t, r) ==
  /\ Kept(t, Height(t) - 2) /\ Height(t)' = Height(t) - 1
  /\ Height(t) > 1 => stack'[t][Height(t) - 1] = [stack[t][Height(t) - 1] EXCEPT !.res = r]

\* The other threads and the calls are left alone.
Alone(t) ==
  /\ calls' = calls
  /\ \A u \in Threads \ {t} : lg'[u] = lg[u] /\ id'[u] = id[u] /\ helping'[u] = helping[u]
  /\ lg'[t].d = None => lg'[t] = EmptyLog

\* A frame that does not move keeps its invariant.
LEMMA SameFrame ==
  ASSUME InvA, NEW A, Rely(A), TypeOK', ChildrenOK', LocksOK', NEW t \in Threads, GivesBack(t),
         NEW u \in Threads, calls'[u] = calls[u], NEW k \in Depth(u),
         \A j \in 1 .. k : stack'[u][j] = stack[u][j],
         Sec(u, k)' = Sec(u, k), Pos(u, k)' = Pos(u, k)
  PROVE  FrameOK(u, k, stack[u][k], Sec(u, k), Pos(u, k))'
<1>1. PICK f, s, n : f = stack[u][k] /\ s = Sec(u, k) /\ n = Pos(u, k)
  OBVIOUS
<1>2. FrameShape(u, f, s, n)' /\ FrameCur(u, f, s)' /\ FrameDesc(u, f, s)' /\ FrameCount(f)'
  BY <1>1, FrameKept
<1>3. k \in Nat /\ k >= 1 /\ FrameOK(u, k, f, s, n)
  BY <1>1, FrameFacts
<1>4. s # None => Guarded(u, k, s)'
  <2>1. SUFFICES ASSUME s # None PROVE Guarded(u, k, s)'
    OBVIOUS
  <2>2. Guarded(u, k, s)
    BY <1>3, <2>1 DEF FrameOK
  <2>3. \A j \in 1 .. k - 1 : stack'[u][j] = stack[u][j]
    BY <1>3
  <2> QED
    BY <2>2, <2>3, GuardKept
<1>5. stack'[u][k] = f
  BY <1>1, <1>3
<1>6. FrameOK(u, k, f, s, n)'
  BY <1>2, <1>4 DEF FrameOK
<1>7. f = stack'[u][k] /\ s = Sec(u, k)' /\ n = Pos(u, k)'
  BY <1>1, <1>5
<1> QED
  BY <1>6, <1>7

\* The frames of the other threads keep theirs.
LEMMA OtherFrames ==
  ASSUME InvA, NEW A, Rely(A), TypeOK', ChildrenOK', LocksOK', NEW t \in Threads, GivesBack(t),
         NEW u \in Threads, calls'[u] = calls[u], stack'[u] = stack[u], lg'[u] = lg[u]
  PROVE  /\ Depth(u)' = Depth(u)
         /\ \A k \in Depth(u) : /\ Sec(u, k)' = Sec(u, k) /\ Pos(u, k)' = Pos(u, k)
                                /\ FrameOK(u, k, stack[u][k], Sec(u, k), Pos(u, k))'
                                /\ Owner(u, k)' <=> Owner(u, k)
         /\ Height(u)' = Height(u)
         /\ \A k \in Depth(u) : NestsAt(u, k)'
<1>1. Height(u)' = Height(u) /\ Depth(u)' = Depth(u)
  BY DEF Height, Depth
<1>2. ASSUME NEW k \in Depth(u)
      PROVE  Sec(u, k)' = Sec(u, k) /\ Pos(u, k)' = Pos(u, k) /\ (Owner(u, k)' <=> Owner(u, k))
  BY DEF Sec, Pos, Owner, Sharing
<1>3. \A k \in Depth(u) : FrameOK(u, k, stack[u][k], Sec(u, k), Pos(u, k))'
  BY <1>2, SameFrame
<1>4. ASSUME NEW k \in Depth(u) PROVE NestsAt(u, k)'
  <2>1. NestsAt(u, k)
    BY DEF InvA, StackOK, SectionsNest
  <2>2. k < Height(u) => k + 1 \in Depth(u)
    BY FrameFacts DEF Depth
  <2>3. k < Height(u) => Sec(u, k + 1)' = Sec(u, k + 1)
    BY <1>2, <2>2
  <2> QED
    BY <1>1, <2>1, <2>3 DEF NestsAt, Inner
<1> QED
  BY <1>1, <1>2, <1>3, <1>4

\* The frames after a step that goes on in the same call,
LEMMA ContOK ==
  ASSUME InvA, NEW A, Rely(A), TypeOK', ChildrenOK', LocksOK',
         NEW t \in Threads, stack[t] # <<>>, GivesBack(t), Alone(t), NEW g, Conts(t, g),
         NEW h, h = Height(t),
         g.pc \notin Calling, NEW s, s = Sec(t, h), lg'[t].d = s, NEW n, n = lg'[t].n,
         FrameShape(t, g, s, n)', FrameCur(t, g, s)', FrameDesc(t, g, s)', FrameCount(g)'
  PROVE  /\ CallersWait' /\ SectionsNest' /\ FramesOK'
         /\ \A u \in Threads : \A k \in Depth(u) : u # t \/ k < h =>
              /\ stack'[u][k] = stack[u][k]
              /\ Sec(u, k)' = Sec(u, k) /\ (Owner(u, k)' <=> Owner(u, k))
         /\ \A u \in Threads : Depth(u)' = Depth(u)
         /\ h \in Depth(t) /\ Sec(t, h)' = s /\ stack'[t][h] = g
<1>1. TypeOK /\ h \in Nat /\ h >= 1 /\ h \in Depth(t)
  BY HeightType DEF InvA
<1>2. \A u \in Threads \ {t} : stack'[u] = stack[u] /\ lg'[u] = lg[u] /\ calls'[u] = calls[u] /\ id'[u] = id[u]
  BY DEF Conts, Kept, Alone
<1>3. \A k \in 1 .. h - 1 : stack'[t][k] = stack[t][k]
  BY DEF Conts, Kept
<1>4. Height(t)' = h /\ stack'[t][h] = g /\ Depth(t)' = Depth(t)
  BY DEF Conts, Depth
<1>5. ASSUME NEW k \in Depth(t), k < h
      PROVE  /\ stack[t][k].pc \in Calling /\ stack'[t][k] = stack[t][k]
             /\ Sec(t, k)' = Sec(t, k) /\ Pos(t, k)' = Pos(t, k) /\ (Owner(t, k)' <=> Owner(t, k))
  <2>1. k \in 1 .. h - 1 /\ stack[t][k].pc \in Calling
    BY <1>1, <1>5, FrameFacts
  <2>2. stack'[t][k] = stack[t][k]
    BY <1>3, <2>1
  <2> QED
    BY <2>1, <2>2, CallerSec
<1>6. Sec(t, h)' = s /\ Pos(t, h)' = n
  BY <1>4 DEF Sec, Pos
<1>7. \A u \in Threads \ {t} : \A k \in Depth(u) :
         Sec(u, k)' = Sec(u, k) /\ FrameOK(u, k, stack[u][k], Sec(u, k), Pos(u, k))'
         /\ (Owner(u, k)' <=> Owner(u, k)) /\ NestsAt(u, k)'
  BY <1>2, OtherFrames
<1>8. \A u \in Threads \ {t} : Depth(u)' = Depth(u) /\ Height(u)' = Height(u)
  BY <1>2 DEF Depth, Height
<1>9. ASSUME NEW k \in Depth(t), k < h
      PROVE FrameOK(t, k, stack[t][k], Sec(t, k), Pos(t, k))'
  <2>1. calls'[t] = calls[t] /\ \A j \in 1 .. k : stack'[t][j] = stack[t][j]
    BY <1>1, <1>3, <1>9, FrameFacts DEF Alone
  <2> QED
    BY <1>5, <1>9, <2>1, SameFrame
<1>10. FrameOK(t, h, stack[t][h], Sec(t, h), Pos(t, h))'
  <2>1. s # None => Guarded(t, h, s)
    BY <1>1, FrameFacts DEF FrameOK
  <2>2. s # None => Guarded(t, h, s)'
    BY <1>1, <1>3, <2>1, GuardKept
  <2>3. FrameOK(t, h, g, s, n)'
    BY <2>2 DEF FrameOK
  <2> QED
    BY <1>4, <1>6, <2>3
<1>11. FramesOK'
  <2>1. ASSUME NEW u \in Threads, NEW k \in Depth(u)'
        PROVE  FrameOK(u, k, stack[u][k], Sec(u, k), Pos(u, k))'
    <3>1. CASE u # t
      BY <1>7, <1>8, <3>1
    <3>2. CASE u = t /\ k = h
      BY <1>10, <3>2
    <3>3. CASE u = t /\ k # h
      <4>1. k \in Depth(t)
        BY <1>4, <2>1, <3>3
      <4>2. k \in Nat /\ k <= h
        BY <4>1, FrameFacts
      <4>3. k < h
        BY <1>1, <3>3, <4>2
      <4> QED
        BY <1>9, <3>3, <4>1, <4>3
    <3> QED
      BY <3>1, <3>2, <3>3
  <2> QED
    BY <2>1 DEF FramesOK
<1>12. CallersWait'
  <2>1. ASSUME NEW u \in Threads, NEW k \in Depth(u)', k < Height(u)'
        PROVE  stack'[u][k].pc \in Calling
    <3>1. CASE u # t
      BY <1>2, <1>8, <2>1, <3>1, FrameFacts
    <3>2. CASE u = t
      BY <1>4, <1>5, <2>1, <3>2
    <3> QED
      BY <3>1, <3>2
  <2> QED
    BY <2>1 DEF CallersWait, Calling
<1>13. ASSUME NEW k \in Depth(t) PROVE NestsAt(t, k)'
  <2>1. NestsAt(t, k) /\ k \in Nat /\ k <= h
    BY <1>1, FrameFacts DEF InvA, StackOK, SectionsNest
  <2>2. CASE k = h
    BY <1>4, <2>2 DEF NestsAt, Calling
  <2>3. CASE k < h
    <3>1. k + 1 \in Depth(t) /\ k + 1 <= h
      BY <1>1, <2>1, <2>3 DEF Depth
    <3>2. Sec(t, k + 1)' = Sec(t, k + 1)
      <4>1. CASE k + 1 = h
        BY <1>6, <4>1
      <4>2. CASE k + 1 < h
        BY <1>5, <3>1, <4>2
      <4> QED
        BY <1>1, <2>1, <3>1, <4>1, <4>2
    <3>3. Inner(stack[t][k]) = Sec(t, k + 1) /\ stack'[t][k] = stack[t][k]
      BY <1>5, <2>1, <2>3 DEF NestsAt
    <3> QED
      BY <1>4, <2>3, <3>2, <3>3 DEF NestsAt, Inner
  <2> QED
    BY <1>1, <2>1, <2>2, <2>3
<1>14. Sec(t, 1)' = None
  <2>1. Sec(t, 1) = None /\ 1 \in Depth(t)
    BY <1>1, FrameFacts DEF InvA, StackOK, SectionsNest, Depth
  <2>2. CASE h = 1
    BY <1>6, <2>1, <2>2
  <2>3. CASE h # 1
    BY <1>1, <1>5, <2>1, <2>3
  <2> QED
    BY <2>2, <2>3
<1>15. stack'[t] # <<>>
  BY <1>1, <1>4 DEF Height
<1>16. SectionsNest'
  <2>1. ASSUME NEW u \in Threads
        PROVE (/\ lg[u].d = None => lg[u] = EmptyLog
               /\ stack[u] = <<>> => lg[u].d = None /\ id[u] = u
               /\ stack[u] # <<>> => Sec(u, 1) = None
               /\ \A k \in Depth(u) : NestsAt(u, k))'
    <3>1. CASE u = t
      BY <1>4, <1>13, <1>14, <1>15, <3>1 DEF Alone, EmptyLog, LogOf
    <3>2. CASE u # t
      <4>1. /\ lg[u].d = None => lg[u] = EmptyLog
            /\ stack[u] = <<>> => lg[u].d = None /\ id[u] = u
            /\ stack[u] # <<>> => Sec(u, 1) = None
        BY DEF InvA, StackOK, SectionsNest
      <4>2. stack[u] # <<>> => 1 \in Depth(u)
        BY <1>1, HeightType DEF Depth
      <4>3. stack[u] # <<>> => Sec(u, 1)' = None
        BY <1>7, <3>2, <4>1, <4>2
      <4> QED
        BY <1>2, <1>7, <1>8, <3>2, <4>1, <4>3 DEF EmptyLog, LogOf
    <3> QED
      BY <3>1, <3>2
  <2> QED
    BY <2>1 DEF SectionsNest
<1>17. ASSUME NEW u \in Threads, NEW k \in Depth(u), u # t \/ k < h
       PROVE  /\ stack'[u][k] = stack[u][k]
              /\ Sec(u, k)' = Sec(u, k) /\ (Owner(u, k)' <=> Owner(u, k))
  <2>1. CASE u # t
    BY <1>2, <1>7, <2>1
  <2>2. CASE u = t
    BY <1>5, <1>17, <2>2
  <2> QED
    BY <2>1, <2>2
<1> QED
  BY <1>1, <1>4, <1>6, <1>8, <1>11, <1>12, <1>16, <1>17

\* after one that calls a section,
LEMMA PushOK ==
  ASSUME InvA, NEW A, Rely(A), TypeOK', ChildrenOK', LocksOK',
         NEW t \in Threads, stack[t] # <<>>, GivesBack(t), Alone(t), NEW c, NEW g, Pushes(t, c, g),
         NEW h, h = Height(t),
         c.pc \in Calling, g.pc \notin Calling, NEW s, s = Sec(t, h), c.lg.d = s, NEW n, n = c.lg.n,
         FrameShape(t, c, s, n)', FrameCur(t, c, s)', FrameDesc(t, c, s)', FrameCount(c)',
         NEW e, e = lg'[t].d, Inner(c) = e, NEW m, m = lg'[t].n, e # None => Guarded(t, h + 1, e)',
         FrameShape(t, g, e, m)', FrameCur(t, g, e)', FrameDesc(t, g, e)', FrameCount(g)'
  PROVE  /\ CallersWait' /\ SectionsNest' /\ FramesOK'
         /\ \A u \in Threads : \A k \in Depth(u) : u # t \/ k < h =>
              /\ stack'[u][k] = stack[u][k]
              /\ Sec(u, k)' = Sec(u, k) /\ (Owner(u, k)' <=> Owner(u, k))
         /\ \A u \in Threads \ {t} : Depth(u)' = Depth(u)
         /\ h \in Depth(t) /\ Sec(t, h)' = s /\ stack'[t][h] = c
         /\ Depth(t)' = Depth(t) \cup {h + 1} /\ Sec(t, h + 1)' = e /\ stack'[t][h + 1] = g
<1>1. TypeOK /\ h \in Nat /\ h >= 1 /\ h \in Depth(t)
  BY HeightType DEF InvA
<1>2. \A u \in Threads \ {t} : stack'[u] = stack[u] /\ lg'[u] = lg[u] /\ calls'[u] = calls[u] /\ id'[u] = id[u]
  BY DEF Pushes, Kept, Alone
<1>3. \A k \in 1 .. h - 1 : stack'[t][k] = stack[t][k]
  BY DEF Pushes, Kept
<1>4. Height(t)' = h + 1 /\ stack'[t][h] = c /\ stack'[t][h + 1] = g /\ Depth(t)' = 1 .. h + 1
      /\ Depth(t) = 1 .. h
  BY DEF Pushes, Depth
<1>5. ASSUME NEW k \in Depth(t), k < h
      PROVE  /\ stack[t][k].pc \in Calling /\ stack'[t][k] = stack[t][k]
             /\ Sec(t, k)' = Sec(t, k) /\ Pos(t, k)' = Pos(t, k) /\ (Owner(t, k)' <=> Owner(t, k))
  <2>a. k \in Nat /\ k >= 1 /\ stack[t][k].pc \in Calling
    BY <1>5, FrameFacts
  <2>1. k \in 1 .. h - 1 /\ stack[t][k].pc \in Calling
    BY <1>1, <1>5, <2>a
  <2>2. stack'[t][k] = stack[t][k]
    BY <1>3, <2>1
  <2> QED
    BY <2>1, <2>2, CallerSec
<1>6. Sec(t, h)' = s /\ Pos(t, h)' = n /\ Sec(t, h + 1)' = e /\ Pos(t, h + 1)' = m
  BY <1>4 DEF Sec, Pos
<1>7. \A u \in Threads \ {t} : \A k \in Depth(u) :
         Sec(u, k)' = Sec(u, k) /\ FrameOK(u, k, stack[u][k], Sec(u, k), Pos(u, k))'
         /\ (Owner(u, k)' <=> Owner(u, k)) /\ NestsAt(u, k)'
  BY <1>2, OtherFrames
<1>8. \A u \in Threads \ {t} : Depth(u)' = Depth(u) /\ Height(u)' = Height(u)
  BY <1>2 DEF Depth, Height
<1>9. ASSUME NEW k \in Depth(t), k < h
      PROVE FrameOK(t, k, stack[t][k], Sec(t, k), Pos(t, k))'
  <2>a. k \in Nat /\ k >= 1 /\ calls'[t] = calls[t]
    BY FrameFacts DEF Alone
  <2>1. calls'[t] = calls[t] /\ \A j \in 1 .. k : stack'[t][j] = stack[t][j]
    BY <1>1, <1>3, <1>9, <2>a
  <2> QED
    BY <1>5, <1>9, <2>1, SameFrame
<1>10. FrameOK(t, h, stack[t][h], Sec(t, h), Pos(t, h))'
  <2>1. s # None => Guarded(t, h, s)
    BY <1>1, FrameFacts DEF FrameOK
  <2>2. s # None => Guarded(t, h, s)'
    BY <1>1, <1>3, <2>1, GuardKept
  <2>3. FrameOK(t, h, c, s, n)'
    BY <2>2 DEF FrameOK
  <2> QED
    BY <1>4, <1>6, <2>3
<1>11. PICK hh : hh = h + 1
  OBVIOUS
<1>12. FrameOK(t, hh, stack[t][hh], Sec(t, hh), Pos(t, hh))'
  <2>1. FrameOK(t, hh, g, e, m)'
    BY <1>11 DEF FrameOK
  <2> QED
    BY <1>4, <1>6, <1>11, <2>1
<1>13. FramesOK'
  <2>1. ASSUME NEW u \in Threads, NEW k \in Depth(u)'
        PROVE  FrameOK(u, k, stack[u][k], Sec(u, k), Pos(u, k))'
    <3>1. CASE u # t
      BY <1>7, <1>8, <3>1
    <3>2. CASE u = t /\ k = h
      BY <1>10, <3>2
    <3>3. CASE u = t /\ k # h
      <4>1. k \in 1 .. h + 1
        BY <1>4, <2>1, <3>3
      <4>2. CASE k = hh
        BY <1>12, <3>3, <4>2
      <4>3. CASE k # hh
        <5>1. k \in Depth(t) /\ k < h
          BY <1>1, <1>4, <1>11, <3>3, <4>1, <4>3
        <5> QED
          BY <1>9, <3>3, <5>1
      <4> QED
        BY <4>2, <4>3
    <3> QED
      BY <3>1, <3>2, <3>3
  <2> QED
    BY <2>1 DEF FramesOK
<1>14. CallersWait'
  <2>1. ASSUME NEW u \in Threads, NEW k \in Depth(u)', k < Height(u)'
        PROVE  stack'[u][k].pc \in Calling
    <3>1. CASE u # t
      BY <1>2, <1>8, <2>1, <3>1, FrameFacts
    <3>2. CASE u = t
      <4>1. k \in 1 .. h + 1 /\ k < h + 1
        BY <1>4, <2>1, <3>2
      <4>2. k = h \/ (k \in Depth(t) /\ k < h)
        BY <1>1, <1>4, <4>1
      <4> QED
        BY <1>4, <1>5, <3>2, <4>2
    <3> QED
      BY <3>1, <3>2
  <2> QED
    BY <2>1 DEF CallersWait, Calling
<1>15. ASSUME NEW k \in 1 .. h + 1 PROVE NestsAt(t, k)'
  <2>1. CASE k = h + 1
    BY <1>4, <2>1 DEF NestsAt, Calling
  <2>2. CASE k = h
    <3>1. Inner(c) = Sec(t, h + 1)'
      BY <1>6
    <3>2. Inner(stack[t][h])' = Sec(t, h + 1)'
      BY <1>4, <3>1 DEF Inner
    <3> QED
      BY <1>1, <1>4, <2>2, <3>2 DEF NestsAt
  <2>3. CASE k # h + 1 /\ k # h
    <3>1. k + 1 \in Depth(t) /\ k + 1 <= h /\ k < h /\ k \in Depth(t)
      BY <1>1, <1>4, <2>3
    <3>2. Sec(t, k + 1)' = Sec(t, k + 1)
      <4>1. CASE k + 1 = h
        BY <1>6, <4>1
      <4>2. CASE k + 1 < h
        BY <1>5, <3>1, <4>2
      <4> QED
        BY <1>1, <3>1, <4>1, <4>2
    <3>3. Inner(stack[t][k]) = Sec(t, k + 1) /\ stack'[t][k] = stack[t][k]
      BY <1>5, <3>1 DEF NestsAt, InvA, StackOK, SectionsNest
    <3>4. k < Height(t)'
      BY <1>1, <1>4, <3>1
    <3> QED
      BY <3>2, <3>3, <3>4 DEF NestsAt, Inner
  <2> QED
    BY <2>1, <2>2, <2>3
<1>16. Sec(t, 1)' = None
  <2>1. Sec(t, 1) = None /\ 1 \in Depth(t)
    BY <1>1, <1>4 DEF InvA, StackOK, SectionsNest
  <2>2. CASE h = 1
    BY <1>6, <2>1, <2>2
  <2>3. CASE h # 1
    BY <1>1, <1>5, <2>1, <2>3
  <2> QED
    BY <2>2, <2>3
<1>17. stack'[t] # <<>>
  BY <1>1, <1>4 DEF Height
<1>18. SectionsNest'
  <2>1. ASSUME NEW u \in Threads
        PROVE (/\ lg[u].d = None => lg[u] = EmptyLog
               /\ stack[u] = <<>> => lg[u].d = None /\ id[u] = u
               /\ stack[u] # <<>> => Sec(u, 1) = None
               /\ \A k \in Depth(u) : NestsAt(u, k))'
    <3>1. CASE u = t
      BY <1>4, <1>15, <1>16, <1>17, <3>1 DEF Alone, EmptyLog, LogOf
    <3>2. CASE u # t
      <4>1. /\ lg[u].d = None => lg[u] = EmptyLog
            /\ stack[u] = <<>> => lg[u].d = None /\ id[u] = u
            /\ stack[u] # <<>> => Sec(u, 1) = None
        BY DEF InvA, StackOK, SectionsNest
      <4>2. stack[u] # <<>> => 1 \in Depth(u)
        BY <1>1, HeightType DEF Depth
      <4>3. stack[u] # <<>> => Sec(u, 1)' = None
        BY <1>7, <3>2, <4>1, <4>2
      <4> QED
        BY <1>2, <1>7, <1>8, <3>2, <4>1, <4>3 DEF EmptyLog, LogOf
    <3> QED
      BY <3>1, <3>2
  <2> QED
    BY <2>1 DEF SectionsNest
<1>19. ASSUME NEW u \in Threads, NEW k \in Depth(u), u # t \/ k < h
       PROVE  /\ stack'[u][k] = stack[u][k]
              /\ Sec(u, k)' = Sec(u, k) /\ (Owner(u, k)' <=> Owner(u, k))
  <2>1. CASE u # t
    BY <1>2, <1>7, <2>1
  <2>2. CASE u = t
    BY <1>5, <1>19, <2>2
  <2> QED
    BY <2>1, <2>2
<1>20. Depth(t)' = Depth(t) \cup {h + 1}
  BY <1>1, <1>4
<1> QED
  BY <1>1, <1>4, <1>6, <1>8, <1>13, <1>14, <1>18, <1>19, <1>20

\* The frame of the caller with the result of the call.
SameButRes(g, f) ==
  /\ g.pc = f.pc /\ g.lock = f.lock /\ g.path = f.path /\ g.cur = f.cur /\ g.d = f.d
  /\ g.old = f.old /\ g.le = f.le /\ g.lg = f.lg /\ g.id = f.id

\* Only the result of the caller changes.
LEMMA ResOnly ==
  ASSUME NEW f \in Frames, NEW r, NEW h, h = [f EXCEPT !.res = r]
  PROVE  SameButRes(h, f) /\ h.res = r
BY DEF Frames, SameButRes

\* The result is not part of what the caller knows.
LEMMA ResFrame ==
  ASSUME NEW t, NEW f, NEW g, NEW s, NEW n,
         SameButRes(g, f),
         FrameShape(t, f, s, n)', FrameCur(t, f, s)', FrameDesc(t, f, s)', FrameCount(f)'
  PROVE  FrameShape(t, g, s, n)' /\ FrameCur(t, g, s)' /\ FrameDesc(t, g, s)' /\ FrameCount(g)'
<1>1. Level(g, s)' = Level(f, s)' /\ HasDesc(g) = HasDesc(f) /\ Sharing(g) = Sharing(f) /\ CounterOf(g) = CounterOf(f)
  BY DEF Level, HasDesc, Sharing, CounterOf, IsLocked, SameButRes
<1> USE DEF SameButRes
<1>2. FrameShape(t, g, s, n)'
  <2>1. StoreShape(f, s, n)' => StoreShape(g, s, n)'
    BY DEF StoreShape
  <2>2. LockShape(t, f, s)' => LockShape(t, g, s)'
    BY DEF LockShape
  <2>3. OutsideShape(t, f)' => OutsideShape(t, g)'
    BY DEF OutsideShape
  <2>4. InsideShape(f, s, n, Level(f, s))' => InsideShape(g, s, n, Level(g, s))'
    BY <1>1 DEF InsideShape, Sharing
  <2> QED
    BY <2>1, <2>2, <2>3, <2>4 DEF FrameShape
<1>3. FrameCur(t, g, s)'
  BY DEF FrameCur
<1>4. FrameDesc(t, g, s)'
  BY <1>1 DEF FrameDesc, HasDesc, Sharing, CounterOf
<1>5. FrameCount(g)'
  BY <1>1 DEF FrameCount, HasDesc
<1> QED
  BY <1>2, <1>3, <1>4, <1>5

\* And after one that returns.
LEMMA PopOK ==
  ASSUME InvA, NEW A, Rely(A), TypeOK', ChildrenOK', LocksOK',
         NEW t \in Threads, stack[t] # <<>>, GivesBack(t), Alone(t), NEW r, Pops(t, r),
         NEW h, h = Height(t), NEW s, s = Sec(t, h), lg'[t].d = s, h = 1 => id'[t] = t
  PROVE  /\ CallersWait' /\ SectionsNest' /\ FramesOK'
         /\ \A u \in Threads : \A k \in Depth(u) : u # t \/ k < h =>
              /\ SameButRes(stack'[u][k], stack[u][k])
              /\ Sec(u, k)' = Sec(u, k) /\ (Owner(u, k)' <=> Owner(u, k))
         /\ \A u \in Threads \ {t} : Depth(u)' = Depth(u)
         /\ h \in Depth(t) /\ Depth(t)' = Depth(t) \ {h}
<1>1. TypeOK /\ h \in Nat /\ h >= 1 /\ h \in Depth(t)
  BY HeightType DEF InvA
<1>2. \A u \in Threads \ {t} : stack'[u] = stack[u] /\ lg'[u] = lg[u] /\ calls'[u] = calls[u] /\ id'[u] = id[u]
  BY DEF Pops, Kept, Alone
<1>3. \A k \in 1 .. h - 2 : stack'[t][k] = stack[t][k]
  BY DEF Pops, Kept
<1>4. Height(t)' = h - 1 /\ Depth(t)' = 1 .. h - 1 /\ Depth(t) = 1 .. h
      /\ (h > 1 => stack'[t][h - 1] = [stack[t][h - 1] EXCEPT !.res = r])
  BY DEF Pops, Depth
<1>5. ASSUME NEW k \in 1 .. h - 1
      PROVE  /\ k \in Depth(t) /\ k < h /\ stack[t][k].pc \in Calling
             /\ SameButRes(stack'[t][k], stack[t][k])
             /\ Sec(t, k)' = Sec(t, k) /\ Pos(t, k)' = Pos(t, k) /\ (Owner(t, k)' <=> Owner(t, k))
  <2>1. k \in Nat /\ k >= 1 /\ k < h /\ k \in Depth(t)
    BY <1>1, <1>4
  <2>2. stack[t][k].pc \in Calling /\ stack[t][k] \in Frames
    BY <2>1, FrameFacts
  <2>3. SameButRes(stack'[t][k], stack[t][k])
    <3>1. CASE k = h - 1
      <4>1. h > 1
        BY <1>1, <2>1
      <4>2. stack'[t][k] = [stack[t][k] EXCEPT !.res = r]
        BY <1>4, <3>1, <4>1
      <4> QED
        BY <2>2, <4>2, ResOnly
    <3>2. CASE k # h - 1
      <4>1. k \in 1 .. h - 2
        BY <1>1, <2>1, <3>2
      <4>2. stack'[t][k] = stack[t][k]
        BY <1>3, <4>1
      <4> QED
        BY <4>2 DEF SameButRes
    <3> QED
      BY <3>1, <3>2
  <2>4. Sec(t, k)' = Sec(t, k) /\ Pos(t, k)' = Pos(t, k)
    BY <2>2, <2>3 DEF SameButRes, Sec, Pos, Calling
  <2>5. Owner(t, k)' <=> Owner(t, k)
    BY <2>3, <2>4 DEF Owner, Sharing, SameButRes
  <2> QED
    BY <2>1, <2>2, <2>3, <2>4, <2>5
<1>7. \A u \in Threads \ {t} : \A k \in Depth(u) :
         Sec(u, k)' = Sec(u, k) /\ FrameOK(u, k, stack[u][k], Sec(u, k), Pos(u, k))'
         /\ (Owner(u, k)' <=> Owner(u, k)) /\ NestsAt(u, k)'
  BY <1>2, OtherFrames
<1>8. \A u \in Threads \ {t} : Depth(u)' = Depth(u) /\ Height(u)' = Height(u)
  BY <1>2 DEF Depth, Height
<1>9. ASSUME NEW k \in 1 .. h - 1
      PROVE FrameOK(t, k, stack[t][k], Sec(t, k), Pos(t, k))'
  <2>1. PICK f, z, n : f = stack[t][k] /\ z = Sec(t, k) /\ n = Pos(t, k)
    OBVIOUS
  <2>2. k \in Depth(t) /\ calls'[t] = calls[t] /\ k \in Nat /\ k < h
    BY <1>1, <1>5 DEF Alone
  <2>3. FrameShape(t, f, z, n)' /\ FrameCur(t, f, z)' /\ FrameDesc(t, f, z)' /\ FrameCount(f)'
    BY <2>1, <2>2, FrameKept
  <2>4. PICK g : g = stack'[t][k]
    OBVIOUS
  <2>5. SameButRes(g, f)
    BY <1>5, <2>1, <2>4
  <2>6. FrameShape(t, g, z, n)' /\ FrameCur(t, g, z)' /\ FrameDesc(t, g, z)' /\ FrameCount(g)'
    BY <2>3, <2>5, ResFrame
  <2>7. z # None => Guarded(t, k, z)
    BY <2>1, <2>2, FrameFacts DEF FrameOK
  <2>8. \A j \in 1 .. k - 1 : stack'[t][j] = stack[t][j]
    BY <1>1, <1>3, <2>2
  <2>9. z # None => Guarded(t, k, z)'
    BY <2>2, <2>7, <2>8, GuardKept
  <2>10. FrameOK(t, k, g, z, n)'
    BY <2>6, <2>9 DEF FrameOK
  <2>11. z = Sec(t, k)' /\ n = Pos(t, k)'
    BY <1>5, <2>1
  <2> QED
    BY <2>4, <2>10, <2>11
<1>13. FramesOK'
  <2>1. ASSUME NEW u \in Threads, NEW k \in Depth(u)'
        PROVE  FrameOK(u, k, stack[u][k], Sec(u, k), Pos(u, k))'
    <3>1. CASE u # t
      BY <1>7, <1>8, <3>1
    <3>2. CASE u = t
      <4>1. k \in 1 .. h - 1
        BY <1>4, <2>1, <3>2
      <4> QED
        BY <1>9, <3>2, <4>1
    <3> QED
      BY <3>1, <3>2
  <2> QED
    BY <2>1 DEF FramesOK
<1>14. CallersWait'
  <2>1. ASSUME NEW u \in Threads, NEW k \in Depth(u)', k < Height(u)'
        PROVE  stack'[u][k].pc \in Calling
    <3>1. CASE u # t
      BY <1>2, <1>8, <2>1, <3>1, FrameFacts
    <3>2. CASE u = t
      <4>1. k \in 1 .. h - 1
        BY <1>4, <2>1, <3>2
      <4> QED
        BY <1>5, <3>2, <4>1 DEF SameButRes
    <3> QED
      BY <3>1, <3>2
  <2> QED
    BY <2>1 DEF CallersWait, Calling
<1>15. ASSUME NEW k \in 1 .. h - 1 PROVE NestsAt(t, k)'
  <2>1. k \in Depth(t) /\ k < h /\ k \in Nat /\ NestsAt(t, k) /\ stack[t][k].pc \in Calling
    BY <1>5 DEF InvA, StackOK, SectionsNest
  <2>2. Inner(stack[t][k]) = Sec(t, k + 1) /\ SameButRes(stack'[t][k], stack[t][k])
    BY <1>5, <2>1 DEF NestsAt
  <2>3. Inner(stack[t][k])' = Sec(t, k + 1)
    BY <2>2 DEF Inner, SameButRes
  <2>4. CASE k = h - 1
    <3>1. k + 1 = h /\ ~(k < Height(t)')
      BY <1>1, <1>4, <2>1, <2>4
    <3>2. Inner(stack[t][k])' = lg'[t].d
      BY <2>3, <3>1
    <3> QED
      BY <3>1, <3>2 DEF NestsAt
  <2>5. CASE k # h - 1
    <3>1. k + 1 \in 1 .. h - 1 /\ k < Height(t)'
      BY <1>1, <1>4, <2>1, <2>5
    <3>2. Sec(t, k + 1)' = Sec(t, k + 1)
      BY <1>5, <3>1
    <3> QED
      BY <2>3, <3>1, <3>2 DEF NestsAt
  <2> QED
    BY <2>4, <2>5
<1>16. Sec(t, 1) = None
  BY DEF InvA, StackOK, SectionsNest
<1>17. h = 1 => lg'[t].d = None /\ stack'[t] = <<>> /\ id'[t] = t
  <2>1. h = 1 => Height(t)' = 0
    BY <1>1, <1>4
  <2>2. stack'[t] \in Seq(Frames)
    BY DEF TypeOK
  <2>3. stack'[t] = <<>> <=> Height(t)' = 0
    BY <2>2, EmptyIs DEF Height
  <2> QED
    BY <1>16, <2>1, <2>3
<1>18. h # 1 => Sec(t, 1)' = None /\ stack'[t] # <<>>
  <2>1. SUFFICES ASSUME h # 1 PROVE Sec(t, 1)' = None /\ stack'[t] # <<>>
    OBVIOUS
  <2>2. 1 \in 1 .. h - 1 /\ Height(t)' # 0
    BY <1>1, <1>4, <2>1
  <2>3. stack'[t] \in Seq(Frames)
    BY DEF TypeOK
  <2>4. stack'[t] = <<>> <=> Height(t)' = 0
    BY <2>3, EmptyIs DEF Height
  <2> QED
    BY <1>5, <1>16, <2>2, <2>4
<1>19. SectionsNest'
  <2>1. ASSUME NEW u \in Threads
        PROVE (/\ lg[u].d = None => lg[u] = EmptyLog
               /\ stack[u] = <<>> => lg[u].d = None /\ id[u] = u
               /\ stack[u] # <<>> => Sec(u, 1) = None
               /\ \A k \in Depth(u) : NestsAt(u, k))'
    <3>1. CASE u = t
      BY <1>4, <1>15, <1>17, <1>18, <3>1 DEF Alone, EmptyLog, LogOf
    <3>2. CASE u # t
      <4>1. /\ lg[u].d = None => lg[u] = EmptyLog
            /\ stack[u] = <<>> => lg[u].d = None /\ id[u] = u
            /\ stack[u] # <<>> => Sec(u, 1) = None
        BY DEF InvA, StackOK, SectionsNest
      <4>2. stack[u] # <<>> => 1 \in Depth(u)
        BY <1>1, HeightType DEF Depth
      <4>3. stack[u] # <<>> => Sec(u, 1)' = None
        BY <1>7, <3>2, <4>1, <4>2
      <4> QED
        BY <1>2, <1>7, <1>8, <3>2, <4>1, <4>3 DEF EmptyLog, LogOf
    <3> QED
      BY <3>1, <3>2
  <2> QED
    BY <2>1 DEF SectionsNest
<1>20. ASSUME NEW u \in Threads, NEW k \in Depth(u), u # t \/ k < h
       PROVE  /\ SameButRes(stack'[u][k], stack[u][k])
              /\ Sec(u, k)' = Sec(u, k) /\ (Owner(u, k)' <=> Owner(u, k))
  <2>1. CASE u # t
    BY <1>2, <1>7, <2>1 DEF SameButRes
  <2>2. CASE u = t
    <3>1. k \in 1 .. h - 1
      BY <1>1, <1>4, <1>20, <2>2
    <3> QED
      BY <1>5, <2>2, <3>1
  <2> QED
    BY <2>1, <2>2
<1>21. Depth(t)' = Depth(t) \ {h}
  BY <1>1, <1>4
<1> QED
  BY <1>1, <1>8, <1>13, <1>14, <1>19, <1>20, <1>21

\* The frame keeps its descriptor.
TopSame(f, g) ==
  /\ Sharing(g) <=> Sharing(f)
  /\ g.pc = "commit" <=> f.pc = "commit"
  /\ HasDesc(g) => g.d = f.d /\ g.le = f.le

FrameSame(u, k) == TopSame(stack[u][k], stack'[u][k]) /\ Sec(u, k)' = Sec(u, k)

\* The calls that have a descriptor are the same as before.
DescsKept ==
  /\ \A u \in Threads : \A k \in Depth(u)' : HasDesc(stack'[u][k]) => k \in Depth(u) /\ FrameSame(u, k)
  /\ \A u \in Threads : \A k \in Depth(u) : Owner(u, k) => k \in Depth(u)' /\ FrameSame(u, k)

\* Who owns a descriptor has one.
LEMMA OwnerHas ==
  ASSUME NEW u, NEW k, Owner(u, k)
  PROVE  HasDesc(stack[u][k])
BY DEF Owner, HasDesc, Sharing, Early, Storing

\* All descriptors stay where they are when a call goes on,
LEMMA DescsCont ==
  ASSUME NEW t \in Threads, NEW h \in Depth(t), NEW g, stack'[t][h] = g, Sec(t, h)' = Sec(t, h),
         \A u \in Threads : Depth(u)' = Depth(u),
         \A u \in Threads : \A k \in Depth(u) : u # t \/ k < h =>
              /\ stack'[u][k] = stack[u][k]
              /\ Sec(u, k)' = Sec(u, k) /\ (Owner(u, k)' <=> Owner(u, k)),
         \A k \in Depth(t) : k < h \/ k = h,
         TopSame(stack[t][h], g)
  PROVE  DescsKept
<1>1. ASSUME NEW u \in Threads, NEW k \in Depth(u) PROVE FrameSame(u, k)
  <2>1. CASE u # t \/ k < h
    BY <2>1 DEF FrameSame, TopSame
  <2>2. CASE u = t /\ k = h
    BY <2>2 DEF FrameSame
  <2> QED
    BY <2>1, <2>2
<1> QED
  BY <1>1 DEF DescsKept

\* when it calls a section,
LEMMA DescsPush ==
  ASSUME NEW t \in Threads, NEW h \in Depth(t), NEW c, NEW g,
         stack'[t][h] = c, stack'[t][h + 1] = g, Sec(t, h)' = Sec(t, h),
         \A u \in Threads \ {t} : Depth(u)' = Depth(u), Depth(t)' = Depth(t) \cup {h + 1},
         \A u \in Threads : \A k \in Depth(u) : u # t \/ k < h =>
              /\ stack'[u][k] = stack[u][k]
              /\ Sec(u, k)' = Sec(u, k) /\ (Owner(u, k)' <=> Owner(u, k)),
         \A k \in Depth(t) : k < h \/ k = h,
         TopSame(stack[t][h], c), ~HasDesc(g)
  PROVE  DescsKept
<1>1. ASSUME NEW u \in Threads, NEW k \in Depth(u) PROVE FrameSame(u, k) /\ k \in Depth(u)'
  <2>1. CASE u # t \/ k < h
    BY <2>1 DEF FrameSame, TopSame
  <2>2. CASE u = t /\ k = h
    BY <2>2 DEF FrameSame
  <2> QED
    BY <2>1, <2>2
<1>2. ASSUME NEW u \in Threads, NEW k \in Depth(u)', HasDesc(stack'[u][k]) PROVE k \in Depth(u)
  BY <1>2
<1> QED
  BY <1>1, <1>2 DEF DescsKept

\* and when a call returns that has none to give back.
LEMMA DescsPop ==
  ASSUME NEW t \in Threads, NEW h \in Depth(t),
         \A u \in Threads \ {t} : Depth(u)' = Depth(u), Depth(t)' = Depth(t) \ {h},
         \A u \in Threads : \A k \in Depth(u) : u # t \/ k < h =>
              /\ SameButRes(stack'[u][k], stack[u][k])
              /\ Sec(u, k)' = Sec(u, k) /\ (Owner(u, k)' <=> Owner(u, k)),
         \A k \in Depth(t) : k < h \/ k = h,
         ~Owner(t, h)
  PROVE  DescsKept
<1>1. ASSUME NEW u \in Threads, NEW k \in Depth(u), u # t \/ k < h PROVE FrameSame(u, k)
  BY <1>1 DEF FrameSame, TopSame, SameButRes, Sharing, HasDesc
<1>2. ASSUME NEW u \in Threads, NEW k \in Depth(u)' PROVE k \in Depth(u) /\ (u # t \/ k < h)
  BY <1>2
<1>3. ASSUME NEW u \in Threads, NEW k \in Depth(u), Owner(u, k) PROVE k \in Depth(u)' /\ (u # t \/ k < h)
  <2>1. u # t \/ k # h
    BY <1>3
  <2>2. CASE u # t
    BY <2>2
  <2>3. CASE u = t
    BY <2>1, <2>3
  <2> QED
    BY <2>2, <2>3
<1> QED
  BY <1>1, <1>2, <1>3 DEF DescsKept

\* A frame that keeps its descriptor keeps owning it.
LEMMA SameOwner ==
  ASSUME NEW u, NEW k, FrameSame(u, k)
  PROVE  /\ Owner(u, k)' <=> Owner(u, k)
         /\ HasDesc(stack'[u][k]) <=> HasDesc(stack[u][k])
         /\ HasDesc(stack[u][k]) => stack'[u][k].d = stack[u][k].d /\ stack'[u][k].le = stack[u][k].le
         /\ stack'[u][k].pc = "commit" <=> stack[u][k].pc = "commit"
         /\ Sec(u, k)' = Sec(u, k)
<1>1. \A f : HasDesc(f) <=> Sharing(f) \/ f.pc = "commit"
  BY DEF HasDesc, Sharing, Early, Storing
<1> QED
  BY <1>1 DEF FrameSame, TopSame, Owner, Sharing

\* Nothing is given back, no child is linked, and what is private stays so.
PoolKept ==
  /\ status' = status
  /\ \A d, e \in Descriptors : HasChild(d, e)' => HasChild(d, e)
  /\ \A t \in Threads : \A k \in Depth(t) : stack[t][k].pc = "commit" =>
       \A e : e = stack[t][k].d => (~Held(e)' /\ ~desc'[e].acquired)
  /\ DescsKept => RootOK'

\* A step that neither makes nor gives back a descriptor keeps the ownership.
LEMMA OwnersNeutral ==
  ASSUME InvA, NEW A, Rely(A), DescsKept, PoolKept,
         \A u \in Threads : \A k \in Depth(u)' : stack'[u][k].pc = "retire" =>
           \/ k \in Depth(u) /\ stack[u][k].pc = "retire"
           \/ Owner(u, k)' /\ (Sec(u, k)' # None => \A s : s = Sec(u, k)' => ChildDone(s)')
  PROVE  OwnersOK'
<1>1. ASSUME NEW u \in Threads, NEW k \in Depth(u)', Owner(u, k)'
      PROVE  /\ k \in Depth(u) /\ Owner(u, k) /\ stack'[u][k].d = stack[u][k].d
             /\ stack'[u][k].le = stack[u][k].le /\ Sec(u, k)' = Sec(u, k)
  <2>1. HasDesc(stack'[u][k])
    BY <1>1 DEF Owner, HasDesc, Sharing, Early, Storing
  <2>2. k \in Depth(u) /\ FrameSame(u, k)
    BY <2>1 DEF DescsKept
  <2> QED
    BY <1>1, <2>1, <2>2, SameOwner
<1>2. OwnersLive'
  <2>1. ASSUME NEW u \in Threads, NEW k \in Depth(u)', Owner(u, k)' PROVE status'[stack'[u][k].d] = "live"
    BY <1>1, <2>1 DEF PoolKept, InvA, OwnersOK, OwnersLive
  <2> QED
    BY <2>1 DEF OwnersLive
<1>3. OwnersUnique'
  <2>1. ASSUME NEW t \in Threads, NEW u \in Threads, NEW k \in Depth(t)', NEW j \in Depth(u)',
               Owner(t, k)', Owner(u, j)', stack'[t][k].d = stack'[u][j].d
        PROVE  t = u /\ k = j
    BY <1>1, <2>1 DEF InvA, OwnersOK, OwnersUnique
  <2> QED
    BY <2>1 DEF OwnersUnique
<1>4. OwnerLinks'
  <2>1. ASSUME NEW u \in Threads, NEW k \in Depth(u)', Owner(u, k)',
               NEW d \in Descriptors, NEW e, e = stack'[u][k].d, HasChild(d, e)'
        PROVE  stack'[u][k].le # 0 /\ d = Sec(u, k)'
    <3>1. k \in Depth(u) /\ Owner(u, k) /\ e = stack[u][k].d
          /\ stack'[u][k].le = stack[u][k].le /\ Sec(u, k)' = Sec(u, k)
      BY <1>1, <2>1
    <3>2. e \in Descriptors
      BY <3>1, OwnerHas, FrameFacts DEF FrameOK, FrameDesc
    <3>3. HasChild(d, e)
      BY <2>1, <3>2 DEF PoolKept
    <3> QED
      BY <3>1, <3>3 DEF InvA, OwnersOK, OwnerLinks
  <2> QED
    BY <2>1 DEF OwnerLinks
<1>5. Privacy'
  <2>1. ASSUME NEW u \in Threads, NEW k \in Depth(u)', stack'[u][k].pc = "commit"
        PROVE  /\ k \in Depth(u) /\ stack[u][k].pc = "commit" /\ stack'[u][k].d = stack[u][k].d
    <3>1. HasDesc(stack'[u][k])
      BY <2>1 DEF HasDesc, Early, Storing
    <3>2. k \in Depth(u) /\ FrameSame(u, k)
      BY <3>1 DEF DescsKept
    <3> QED
      BY <2>1, <3>1, <3>2, SameOwner
  <2>2. ASSUME NEW u \in Threads, NEW k \in Depth(u)', stack'[u][k].pc = "commit", NEW e, e = stack'[u][k].d
        PROVE  ~Held(e)' /\ ~desc'[e].acquired
    BY <2>1, <2>2 DEF PoolKept
  <2>3. ASSUME NEW u \in Threads, NEW k \in Depth(u)', stack'[u][k].pc = "commit",
               NEW v \in Threads, NEW j \in Depth(v)', HasDesc(stack'[v][j]), stack'[v][j].d = stack'[u][k].d
        PROVE  v = u /\ j = k
    <3>1. k \in Depth(u) /\ stack[u][k].pc = "commit" /\ stack'[u][k].d = stack[u][k].d
      BY <2>1, <2>3
    <3>2. j \in Depth(v) /\ FrameSame(v, j)
      BY <2>3 DEF DescsKept
    <3>3. HasDesc(stack[v][j]) /\ stack'[v][j].d = stack[v][j].d
      BY <2>3, <3>2, SameOwner
    <3> QED
      BY <2>3, <3>1, <3>2, <3>3 DEF InvA, OwnersOK, Privacy
  <2> QED
    BY <2>2, <2>3 DEF Privacy, HasDesc
<1>6. RetireDone'
  <2>1. ASSUME NEW u \in Threads, NEW k \in Depth(u)', stack'[u][k].pc = "retire", NEW s, s = Sec(u, k)'
        PROVE  Owner(u, k)' /\ (s # None => ChildDone(s)')
    <3>1. CASE k \in Depth(u) /\ stack[u][k].pc = "retire"
      <4>1. HasDesc(stack'[u][k])
        BY <2>1 DEF HasDesc, Early, Storing
      <4>2. FrameSame(u, k)
        BY <4>1 DEF DescsKept
      <4>3. Owner(u, k)' /\ s = Sec(u, k) /\ (s # None => ChildDone(s))
        BY <2>1, <3>1, <4>2, SameOwner DEF InvA, OwnersOK, RetireDone
      <4>4. ASSUME s # None PROVE ChildDone(s)'
        <5>1. s \in Descriptors \ A
          BY <3>1, <4>3, <4>4, NotAllocated
        <5>2. PICK i \in Levels(s) : Forks(s, i) /\ IsDone(ChildAt(s, i))
          BY <4>3, <4>4 DEF ChildDone
        <5>3. Forks(s, i)' /\ (ChildAt(s, i)' = ChildAt(s, i) \/ ChildAt(s, i) = Unset \/ IsDone(ChildAt(s, i)'))
          BY <5>1, <5>2, ForksKept
        <5>4. IsDone(ChildAt(s, i)')
          BY <5>2, <5>3, EntryFacts
        <5>5. i \in Levels(s)'
          BY <5>1, <5>2, SizeKept
        <5> QED
          BY <5>3, <5>4, <5>5 DEF ChildDone, IsDone
      <4> QED
        BY <4>3, <4>4
    <3>2. CASE Owner(u, k)' /\ (Sec(u, k)' # None => \A z : z = Sec(u, k)' => ChildDone(z)')
      BY <2>1, <3>2
    <3> QED
      BY <2>1, <3>1, <3>2
  <2> QED
    BY <2>1 DEF RetireDone
<1>7. LiveOwned'
  <2>1. ASSUME NEW d \in Descriptors, status'[d] = "live"
        PROVE  \E t \in Threads : \E k \in Depth(t)' : Owner(t, k)' /\ stack'[t][k].d = d
    <3>1. PICK t \in Threads : \E k \in Depth(t) : Owner(t, k) /\ stack[t][k].d = d
      BY <2>1 DEF PoolKept, InvA, OwnersOK, LiveOwned
    <3>2. PICK k \in Depth(t) : Owner(t, k) /\ stack[t][k].d = d
      BY <3>1
    <3>3. k \in Depth(t)' /\ FrameSame(t, k)
      BY <3>2 DEF DescsKept
    <3> QED
      BY <3>2, <3>3, SameOwner, OwnerHas
  <2> QED
    BY <2>1 DEF LiveOwned
<1>8. RootOK'
  BY DEF PoolKept
<1> QED
  BY <1>2, <1>3, <1>4, <1>5, <1>6, <1>7, <1>8 DEF OwnersOK

\* The outermost call of the thread of an installed descriptor goes on.
LEMMA RootStays ==
  ASSUME InvA, NEW A, Rely(A), TypeOK', DescsKept, NEW u \in Threads, stack[u] # <<>>, NEW f, f = stack[u][1], Sharing(f)
  PROVE  stack'[u] # <<>> /\ Sharing(stack'[u][1]) /\ stack'[u][1].d = f.d /\ 1 \in Depth(u) /\ Owner(u, 1)
<1>1. Sec(u, 1) = None /\ TypeOK
  BY DEF InvA, StackOK, SectionsNest
<1>2. 1 \in Depth(u)
  BY <1>1, HeightType DEF Depth
<1>3. Owner(u, 1)
  BY <1>1 DEF Owner
<1>4. 1 \in Depth(u)' /\ FrameSame(u, 1)
  BY <1>2, <1>3 DEF DescsKept
<1>5. Sharing(stack'[u][1]) /\ stack'[u][1].d = f.d
  BY <1>3, <1>4, OwnerHas, SameOwner DEF FrameSame, TopSame
<1>6. stack'[u] # <<>>
  BY <1>4 DEF Depth, Height
<1> QED
  BY <1>2, <1>3, <1>5, <1>6

\* The outermost descriptor in a lock stays the one of its frame.
LEMMA RootKept ==
  ASSUME InvA, NEW A, Rely(A), TypeOK', DescsKept, NEW d \in Descriptors, Installed(d),
         NEW r, r = stack[desc[d].thread][1].d, Installed(r) => Installed(r)'
  PROVE  RootIs(d, desc[d].thread, stack[desc[d].thread][1].d)'
<1>1. PICK u : u = desc[d].thread
  OBVIOUS
<1>2. RootIs(d, u, r)
  BY <1>1 DEF InvA, OwnersOK, RootOK
<1>3. u \in Threads /\ stack[u] # <<>> /\ Sharing(stack[u][1]) /\ stack[u][1].d = r
      /\ Installed(r) /\ (d = r \/ Size(d) < Size(r))
  BY <1>2 DEF RootIs
<1>4. PICK f : f = stack[u][1]
  OBVIOUS
<1>5. stack'[u] # <<>> /\ Sharing(stack'[u][1]) /\ stack'[u][1].d = r
  BY <1>3, <1>4, RootStays
<1>6. r \in Descriptors
  <2>1. 1 \in Depth(u) /\ Owner(u, 1)
    BY <1>3, <1>4, RootStays
  <2> QED
    BY <1>3, <2>1, OwnerHas, FrameFacts DEF FrameOK, FrameDesc
<1>7. d \in Descriptors \ A /\ r \in Descriptors \ A
  BY <1>3, <1>6, InstalledLive, InUseKept DEF InUse
<1>8. desc'[d].thread = u /\ Size(d)' = Size(d) /\ Size(r)' = Size(r)
  BY <1>1, <1>7, SizeKept DEF DescKept
<1>9. RootIs(d, u, r)'
  BY <1>3, <1>5, <1>8 DEF RootIs, Sharing
<1> QED
  BY <1>5, <1>8, <1>9

\* The same for all of them when no lock changes.
LEMMA RootNeutral ==
  ASSUME InvA, NEW A, Rely(A), TypeOK', DescsKept, lck' = lck
  PROVE  RootOK'
<1>1. \A y : Installed(y)' <=> Installed(y)
  BY DEF Installed
<1>2. ASSUME NEW d \in Descriptors, Installed(d)'
      PROVE  RootIs(d, desc[d].thread, stack[desc[d].thread][1].d)'
  BY <1>1, <1>2, RootKept
<1> QED
  BY <1>2 DEF RootOK

\* The innermost frame.
LEMMA TopIn ==
  ASSUME InvA, NEW t \in Threads, stack[t] # <<>>, NEW h, h = Height(t), NEW f, f = stack[t][h]
  PROVE  /\ h \in Depth(t) /\ h \in Nat /\ h >= 1 /\ f \in Frames /\ f = Top(t)
         /\ \A k \in Depth(t) : k < h \/ k = h
         /\ FrameOK(t, h, f, Sec(t, h), Pos(t, h)) /\ Sec(t, h) \in Descriptors \cup {None}
         /\ f.pc \in Calling => Inner(f) = lg[t].d /\ Sec(t, h) = f.lg.d /\ Pos(t, h) = f.lg.n
         /\ f.pc \notin Calling => Sec(t, h) = lg[t].d /\ Pos(t, h) = lg[t].n
         /\ id[t] = TopId(t, f)
<1>1. TypeOK
  BY DEF InvA
<1>2. h \in Depth(t) /\ h \in Nat /\ h >= 1 /\ f = Top(t)
  BY <1>1, HeightType
<1>3. f \in Frames /\ FrameOK(t, h, f, Sec(t, h), Pos(t, h)) /\ Sec(t, h) \in Descriptors \cup {None}
  BY <1>2, FrameFacts
<1>4. f.pc \notin Calling => Sec(t, h) = lg[t].d /\ Pos(t, h) = lg[t].n
  BY DEF Sec, Pos
<1>5. NestsAt(t, h)
  BY <1>2 DEF InvA, StackOK, SectionsNest
<1>6. ~(h < Height(t))
  BY <1>2
<1>7. f.pc \in Calling => Inner(f) = lg[t].d
  BY <1>5, <1>6 DEF NestsAt
<1>8. id[t] = TopId(t, f)
  BY <1>2 DEF InvA, StackOK, Ids
<1>9. f.pc \in Calling => Sec(t, h) = f.lg.d /\ Pos(t, h) = f.lg.n
  BY DEF Sec, Pos
<1>10. \A k \in Depth(t) : k < h \/ k = h
  BY <1>2, FrameFacts
<1> QED
  BY <1>2, <1>3, <1>4, <1>7, <1>8, <1>9, <1>10

\* The section that a thread runs is held and in use.
LEMMA RunsHeld ==
  ASSUME InvA, NEW t \in Threads, NEW z, z = lg[t].d, z # None
  PROVE  z \in Descriptors /\ Held(z) /\ InUse(z) /\ stack[t] # <<>>
<1>1. stack[t] # <<>>
  BY DEF InvA, StackOK, SectionsNest
<1>2. PICK h, f : h = Height(t) /\ f = stack[t][h]
  OBVIOUS
<1>3. PICK s : s = Sec(t, h)
  OBVIOUS
<1>4. /\ h \in Depth(t) /\ FrameOK(t, h, f, s, Pos(t, h))
      /\ f.pc \in Calling => Inner(f) = z /\ s = f.lg.d
      /\ f.pc \notin Calling => s = z
  BY <1>1, <1>2, <1>3, TopIn
<1>5. CASE s = z
  BY <1>1, <1>4, <1>5 DEF FrameOK, Guarded
<1>6. CASE f.pc = "ran"
  <2>1. z = f.d /\ HasDesc(f) /\ Sharing(f)
    BY <1>4, <1>6 DEF Inner, HasDesc, Sharing, Early, Storing, Calling
  <2>2. z \in Descriptors /\ Held(z)
    BY <1>4, <1>6, <2>1 DEF FrameOK, FrameDesc, FrameCount, Storing
  <2>3. CASE Owner(t, h)
    BY <1>2, <1>4, <2>1, <2>2, <2>3, <1>1 DEF InvA, OwnersOK, OwnersLive, InUse
  <2>4. CASE ~Owner(t, h)
    <3>1. s # None /\ f.le = 0
      BY <1>2, <1>3, <2>1, <2>4 DEF Owner
    <3>2. Safe(z)
      BY <1>4, <1>6, <2>1, <3>1 DEF FrameOK, FrameDesc
    <3> QED
      BY <1>1, <2>2, <3>2 DEF Safe, InUse
  <2> QED
    BY <2>3, <2>4
<1>7. CASE f.pc = "helped"
  <2>1. z = f.cur
    BY <1>4, <1>7 DEF Inner, Calling
  <2>2. z \in Descriptors /\ Held(z) /\ Safe(z)
    BY <1>4, <1>7, <2>1 DEF FrameOK, FrameCur, HelpIn
  <2> QED
    BY <1>1, <2>2 DEF Safe, InUse
<1>8. CASE f.pc = "reentered"
  <2>1. s = z
    BY <1>4, <1>8 DEF Inner, Calling
  <2> QED
    BY <1>5, <2>1
<1> QED
  BY <1>4, <1>5, <1>6, <1>7, <1>8 DEF Calling

\* The identity of every thread is still the one of its innermost frame.
LEMMA IdsKept ==
  ASSUME InvA, NEW A, Rely(A), NEW t \in Threads, Alone(t), TypeOK',
         \A u \in Threads \ {t} : stack'[u] = stack[u],
         \A g : stack'[t] # <<>> /\ g = stack'[t][Height(t)'] => id'[t] = TopId(t, g)'
  PROVE  Ids'
<1>1. ASSUME NEW u \in Threads, stack'[u] # <<>>, NEW g, g = stack'[u][Height(u)']
      PROVE  id'[u] = TopId(u, g)'
  <2>1. CASE u = t
    BY <1>1, <2>1
  <2>2. CASE u # t
    <3>1. /\ stack'[u] = stack[u] /\ Height(u)' = Height(u) /\ lg'[u] = lg[u] /\ id'[u] = id[u]
          /\ calls'[u] = calls[u]
      BY <2>2 DEF Alone, Height
    <3>a. PICK h : h = Height(u)
      OBVIOUS
    <3>2. stack[u] # <<>> /\ g = stack[u][h]
      BY <1>1, <3>1, <3>a
    <3>b. /\ h \in Depth(u) /\ FrameOK(u, h, g, Sec(u, h), Pos(u, h)) /\ id[u] = TopId(u, g)
      BY <3>2, <3>a, TopIn
    <3>3. id[u] = TopId(u, g)
      BY <3>b
    <3>4. CASE g.pc \in Inherited
      <4>1. g.cur \in Descriptors /\ Known(g.cur)
        BY <3>b, <3>4 DEF FrameOK, FrameCur, Inherited, HelpIn, Storing
      <4>2. desc'[g.cur].thread = desc[g.cur].thread
        BY <4>1 DEF Known, Rely, StatusKept
      <4> QED
        BY <3>1, <3>3, <3>4, <4>2 DEF TopId
    <3>5. CASE g.pc \notin Inherited
      <4>a. PICK z : z = lg[u].d
        OBVIOUS
      <4>2. z # None => z \in Descriptors \ A
        BY <4>a, RunsHeld, InUseKept
      <4>3. IdIn(u, z)' = IdIn(u, z)
        BY <3>1, <4>2, InKept
      <4> QED
        BY <3>1, <3>3, <3>5, <4>a, <4>3 DEF TopId
    <3> QED
      BY <3>4, <3>5
  <2> QED
    BY <2>1, <2>2
<1>2. ASSUME NEW u \in Threads, stack'[u] # <<>> PROVE id'[u] = TopId(u, Top(u))'
  <2>1. PICK g : g = stack'[u][Height(u)']
    OBVIOUS
  <2>2. Top(u)' = g
    BY <2>1 DEF Top, Height
  <2>3. id'[u] = TopId(u, g)'
    BY <1>1, <1>2, <2>1
  <2> QED
    BY <2>2, <2>3 DEF TopId
<1> QED
  BY <1>2 DEF Ids

LgOK(g) ==
  /\ ~g.new /\ (g.d = None => g = EmptyLog)
  /\ g.d # None => BlockOK(g)

\* The block of a position stays linked.
LEMMA BlockKept ==
  ASSUME NEW A, Rely(A), TypeOK, TypeOK', NEW g \in Log, g.d \in Descriptors \ A, BlockOK(g)
  PROVE  BlockOK(g)'
<1>1. ext[g.d] <= ext'[g.d] /\ ext[g.d] \in Nat /\ ext'[g.d] \in Nat /\ g.block \in Nat
  <2>1. ext[g.d] <= ext'[g.d]
    BY DEF Rely, DescKept
  <2>2. ext[g.d] \in 0 .. LogLen /\ ext'[g.d] \in 0 .. LogLen
    BY DEF TypeOK
  <2> QED
    BY <2>1, <2>2, LogType
<1>2. g.block <= ext'[g.d]
  BY <1>1 DEF BlockOK
<1> QED
  BY <1>2 DEF BlockOK

\* The positions of all threads stay in linked blocks.
LEMMA BlocksKept ==
  ASSUME InvA, NEW A, Rely(A), TypeOK', NEW t \in Threads, Alone(t),
         \A u \in Threads \ {t} : stack'[u] = stack[u],
         \A g : g = lg'[t] /\ g.d # None => BlockOK(g)',
         lg'[t].new => (AtEnd(t) /\ stack[t] # <<>> /\ Top(t).pc \in Extending)',
         \A k \in Depth(t)' : stack'[t][k].pc \in {"ran", "helped"} =>
           \/ /\ k \in Depth(t) /\ stack[t][k].pc \in {"ran", "helped"}
              /\ stack'[t][k].lg = stack[t][k].lg
           \/ \A g : g = stack'[t][k].lg => LgOK(g)'
  PROVE  BlocksOK'
<1>1. TypeOK
  BY DEF InvA
<1>2. ASSUME NEW u \in Threads, NEW k \in Depth(u), stack[u][k].pc \in {"ran", "helped"}, NEW g, g = stack[u][k].lg
      PROVE  LgOK(g)'
  <2>1. LgOK(g)
    BY <1>2 DEF InvA, StackOK, BlocksOK, LgOK
  <2>2. g \in Log /\ g.d = Sec(u, k)
    BY <1>2, FrameFacts, FrameType DEF Sec, Calling
  <2>3. g.d # None => g.d \in Descriptors \ A
    BY <2>2, NotAllocated
  <2>4. g.d # None => BlockOK(g)'
    BY <1>1, <2>1, <2>2, <2>3, BlockKept DEF LgOK
  <2> QED
    BY <2>1, <2>4 DEF LgOK, EmptyLog, LogOf
<1>3. ASSUME NEW u \in Threads, NEW k \in Depth(u)', stack'[u][k].pc \in {"ran", "helped"}, NEW g, g = stack'[u][k].lg
      PROVE  LgOK(g)'
  <2>1. CASE u = t
    <3>1. k \in Depth(t)'
      BY <1>3, <2>1
    <3>2. CASE k \in Depth(t) /\ stack[t][k].pc \in {"ran", "helped"} /\ stack'[t][k].lg = stack[t][k].lg
      BY <1>2, <1>3, <2>1, <3>2
    <3>3. CASE \A z : z = stack'[t][k].lg => LgOK(z)'
      BY <1>3, <2>1, <3>3
    <3> QED
      BY <1>3, <2>1, <3>1, <3>2, <3>3
  <2>2. CASE u # t
    <3>1. stack'[u] = stack[u] /\ k \in Depth(u)
      BY <1>3, <2>2 DEF Depth, Height
    <3> QED
      BY <1>2, <1>3, <3>1
  <2> QED
    BY <2>1, <2>2
<1>4. ASSUME NEW u \in Threads, NEW g, g = lg'[u], g.d # None PROVE BlockOK(g)'
  <2>1. CASE u = t
    BY <1>4, <2>1
  <2>2. CASE u # t
    <3>1. g = lg[u] /\ g \in Log /\ stack'[u] = stack[u]
      BY <1>1, <1>4, <2>2, HeightType DEF Alone
    <3>2. BlockOK(g)
      BY <1>4, <3>1 DEF InvA, StackOK, BlocksOK
    <3>3. g.d \in Descriptors \ A
      BY <1>4, <3>1, RunsHeld, InUseKept
    <3> QED
      BY <1>1, <3>1, <3>2, <3>3, BlockKept
  <2> QED
    BY <2>1, <2>2
<1>5. ASSUME NEW u \in Threads, lg'[u].new
      PROVE  (AtEnd(u) /\ stack[u] # <<>> /\ Top(u).pc \in Extending)'
  <2>1. CASE u = t
    BY <1>5, <2>1
  <2>2. CASE u # t
    <3>1. lg'[u] = lg[u] /\ stack'[u] = stack[u]
      BY <2>2 DEF Alone
    <3>2. AtEnd(u) /\ stack[u] # <<>> /\ Top(u).pc \in Extending
      BY <1>5, <3>1 DEF InvA, StackOK, BlocksOK
    <3> QED
      BY <3>1, <3>2 DEF AtEnd, Top
  <2> QED
    BY <2>1, <2>2
<1>6. ASSUME NEW u \in Threads
      PROVE (/\ lg[u].d # None => BlockOK(lg[u])
             /\ lg[u].new => AtEnd(u) /\ stack[u] # <<>> /\ Top(u).pc \in Extending
             /\ \A k \in Depth(u) : stack[u][k].pc \in {"ran", "helped"} =>
                  /\ ~stack[u][k].lg.new
                  /\ stack[u][k].lg.d = None => stack[u][k].lg = EmptyLog
                  /\ stack[u][k].lg.d # None => BlockOK(stack[u][k].lg))'
  <2>1. lg'[u].d # None => BlockOK(lg[u])'
    BY <1>4
  <2>2. ASSUME NEW k \in Depth(u)', stack'[u][k].pc \in {"ran", "helped"}
        PROVE (/\ ~stack[u][k].lg.new
               /\ stack[u][k].lg.d = None => stack[u][k].lg = EmptyLog
               /\ stack[u][k].lg.d # None => BlockOK(stack[u][k].lg))'
    BY <1>3, <2>2 DEF LgOK
  <2> QED
    BY <1>5, <2>1, <2>2
<1> QED
  BY <1>6 DEF BlocksOK

\* A section that has returned has been run.
LEMMA ReturnedKept ==
  ASSUME InvA, NEW A, Rely(A), NEW t \in Threads, Alone(t),
         \A u \in Threads \ {t} : stack'[u] = stack[u],
         \A g : stack'[t] # <<>> /\ g = stack'[t][Height(t)'] /\ g.pc \in Calling =>
           \A z : z = lg'[t].d => Settled(z)'
  PROVE  Returned'
<1>1. ASSUME NEW u \in Threads, stack'[u] # <<>>, Top(u)'.pc \in Calling, NEW z, z = lg'[u].d
      PROVE  Settled(z)'
  <2>1. CASE u = t
    <3>1. Top(t)' = stack'[t][Height(t)']
      BY DEF Top, Height
    <3> QED
      BY <1>1, <2>1, <3>1 DEF Calling
  <2>2. CASE u # t
    <3>1. stack'[u] = stack[u] /\ lg'[u] = lg[u]
      BY <2>2 DEF Alone
    <3>2. stack[u] # <<>> /\ Top(u).pc \in Calling /\ z = lg[u].d
      BY <1>1, <3>1 DEF Top, Calling
    <3>3. Settled(z)
      BY <3>2 DEF InvA, StackOK, Returned
    <3>4. z # None
      <4>1. PICK h, f : h = Height(u) /\ f = stack[u][h]
        OBVIOUS
      <4>2. /\ h \in Depth(u) /\ f = Top(u) /\ FrameOK(u, h, f, Sec(u, h), Pos(u, h)) /\ f \in Frames
            /\ f.pc \in Calling => Inner(f) = z /\ Sec(u, h) = f.lg.d
        BY <3>2, <4>1, TopIn
      <4>3. CASE f.pc = "ran"
        BY <4>2, <4>3, Consts DEF Inner, Calling, FrameOK, FrameDesc, HasDesc, Early, Storing
      <4>4. CASE f.pc = "helped"
        BY <4>2, <4>4, Consts DEF Inner, Calling, FrameOK, FrameCur, HelpIn
      <4>5. CASE f.pc = "reentered"
        <5>1. Sec(u, h) = z
          BY <4>2, <4>5 DEF Inner, Calling
        <5> QED
          BY <4>2, <4>5, <5>1 DEF FrameOK, FrameShape, OutsideShape, Storing
      <4> QED
        BY <3>2, <4>2, <4>3, <4>4, <4>5 DEF Calling
    <3>5. z \in Descriptors \ A
      BY <3>2, <3>4, RunsHeld, InUseKept
    <3> QED
      BY <3>3, <3>5, SettledKept
  <2> QED
    BY <2>1, <2>2
<1> QED
  BY <1>1 DEF Returned, Calling

\* What has to be shown of a frame that has moved.
NewFrame(t, g, s, n) ==
  FrameShape(t, g, s, n) /\ FrameCur(t, g, s) /\ FrameDesc(t, g, s) /\ FrameCount(g)

\* The innermost frame keeps owning its descriptor.
LEMMA TopSameOwner ==
  ASSUME NEW t, NEW h, NEW g, stack'[t][h] = g, TopSame(stack[t][h], g), Sec(t, h)' = Sec(t, h)
  PROVE  Owner(t, h)' <=> Owner(t, h)
BY SameOwner DEF FrameSame

\* A thread in a call has made one.
LEMMA InCallKept ==
  ASSUME InvA, NEW t \in Threads, stack[t] # <<>>, Alone(t), \A u \in Threads \ {t} : stack'[u] = stack[u]
  PROVE  InCall'
BY DEF InvA, StackOK, InCall, Alone

\* Every call but the outermost is inside a section.
LEMMA InnerSections ==
  ASSUME InvA, NEW t \in Threads, NEW h \in Depth(t), h # 1
  PROVE  Sec(t, h) # None
<1>1. PICK k : k = h - 1
  OBVIOUS
<1>2. h \in Nat /\ h >= 1 /\ h <= Height(t) /\ Height(t) \in Nat
  BY FrameFacts
<1>3. k \in Depth(t) /\ k < Height(t) /\ k + 1 = h
  BY <1>1, <1>2 DEF Depth
<1>4. PICK f, s : f = stack[t][k] /\ s = Sec(t, k)
  OBVIOUS
<1>5. f.pc \in Calling /\ FrameOK(t, k, f, s, Pos(t, k))
  BY <1>3, <1>4, FrameFacts
<1>6. Inner(f) = Sec(t, h)
  BY <1>3, <1>4, <1>5 DEF InvA, StackOK, SectionsNest, NestsAt
<1>7. CASE f.pc = "ran"
  BY <1>5, <1>6, <1>7, Consts DEF Inner, FrameOK, FrameDesc, HasDesc, Early, Storing
<1>8. CASE f.pc = "helped"
  BY <1>5, <1>6, <1>8, Consts DEF Inner, FrameOK, FrameCur, HelpIn
<1>9. CASE f.pc = "reentered"
  <2>1. Sec(t, h) = s
    BY <1>4, <1>6, <1>9 DEF Inner, Sec, Calling
  <2> QED
    BY <1>5, <1>9, <2>1 DEF FrameOK, FrameShape, OutsideShape, Storing
<1> QED
  BY <1>5, <1>7, <1>8, <1>9 DEF Calling

\* The calls in progress after a step that goes on in the same call.
LEMMA ContStack ==
  ASSUME InvA, NEW A, Rely(A), TypeOK', HeapOK',
         NEW t \in Threads, stack[t] # <<>>, GivesBack(t), Alone(t), NEW g, Conts(t, g),
         NEW h, h = Height(t),
         g.pc \notin Calling, NEW s, s = Sec(t, h), lg'[t].d = s, NEW n, n = lg'[t].n,
         NewFrame(t, g, s, n)',
         id'[t] = TopId(t, g)',
         \A z : z = lg'[t] /\ z.d # None => BlockOK(z)',
         lg'[t].new => AtEnd(t)' /\ g.pc \in Extending
  PROVE  StackOK'
<1>1. ChildrenOK' /\ LocksOK'
  BY DEF HeapOK
<1>2. FrameShape(t, g, s, n)' /\ FrameCur(t, g, s)' /\ FrameDesc(t, g, s)' /\ FrameCount(g)'
  BY DEF NewFrame
<1>3. /\ CallersWait' /\ SectionsNest' /\ FramesOK'
      /\ \A k \in Depth(t) : k < h => stack'[t][k] = stack[t][k]
      /\ Depth(t)' = Depth(t)
      /\ h \in Depth(t) /\ Sec(t, h)' = s /\ stack'[t][h] = g
  BY <1>1, <1>2, ContOK
<1>4. \A u \in Threads \ {t} : stack'[u] = stack[u]
  BY DEF Conts, Kept
<1>5. Height(t)' = h
  BY DEF Conts
<1>6. Ids'
  BY <1>3, <1>4, <1>5, IdsKept
<1>7. InCall'
  BY <1>4, InCallKept
<1>8. \A k \in Depth(t) : k < h \/ k = h
  BY TopIn
<1>9. BlocksOK'
  <2>1. \A k \in Depth(t)' : stack'[t][k].pc \in {"ran", "helped"} =>
              /\ k \in Depth(t) /\ stack[t][k].pc \in {"ran", "helped"}
              /\ stack'[t][k].lg = stack[t][k].lg
    BY <1>3, <1>8 DEF Calling
  <2>2. lg'[t].new => (AtEnd(t) /\ stack[t] # <<>> /\ Top(t).pc \in Extending)'
    <3>1. Top(t)' = g
      BY <1>3, <1>5 DEF Top, Height
    <3>2. stack'[t] # <<>>
      BY <1>5, TopIn DEF Height
    <3> QED
      BY <3>1, <3>2 DEF Extending
  <2> QED
    BY <1>4, <2>1, <2>2, BlocksKept
<1>10. Returned'
  BY <1>3, <1>4, <1>5, ReturnedKept
<1> QED
  BY <1>3, <1>6, <1>7, <1>9, <1>10 DEF StackOK

\* The owners after such a step.
LEMMA ContOwners ==
  ASSUME InvA, NEW A, Rely(A), TypeOK', HeapOK', PoolKept,
         NEW t \in Threads, stack[t] # <<>>, GivesBack(t), Alone(t), NEW g, Conts(t, g),
         NEW h, h = Height(t),
         g.pc \notin Calling, NEW s, s = Sec(t, h), lg'[t].d = s, NEW n, n = lg'[t].n,
         NewFrame(t, g, s, n)',
         TopSame(stack[t][h], g),
         g.pc = "retire" => Owner(t, h) /\ (s # None => ChildDone(s)')
  PROVE  OwnersOK'
<1>1. ChildrenOK' /\ LocksOK'
  BY DEF HeapOK
<1>2. FrameShape(t, g, s, n)' /\ FrameCur(t, g, s)' /\ FrameDesc(t, g, s)' /\ FrameCount(g)'
  BY DEF NewFrame
<1>3. /\ \A u \in Threads : \A k \in Depth(u) : u # t \/ k < h =>
              /\ stack'[u][k] = stack[u][k]
              /\ Sec(u, k)' = Sec(u, k) /\ (Owner(u, k)' <=> Owner(u, k))
      /\ \A u \in Threads : Depth(u)' = Depth(u)
      /\ h \in Depth(t) /\ Sec(t, h)' = s /\ stack'[t][h] = g
  BY <1>1, <1>2, ContOK
<1>4. \A k \in Depth(t) : k < h \/ k = h
  BY TopIn
<1>5. DescsKept
  BY <1>3, <1>4, DescsCont
<1>6. ASSUME NEW u \in Threads, NEW k \in Depth(u)', stack'[u][k].pc = "retire"
      PROVE  \/ k \in Depth(u) /\ stack[u][k].pc = "retire"
             \/ Owner(u, k)' /\ (Sec(u, k)' # None => \A z : z = Sec(u, k)' => ChildDone(z)')
  <2>1. CASE u = t /\ k = h
    <3>1. Owner(t, h)'
      BY <1>3, <1>6, <2>1, TopSameOwner
    <3> QED
      BY <1>3, <1>6, <2>1, <3>1
  <2>2. CASE ~(u = t /\ k = h)
    <3>1. k \in Depth(u) /\ (u # t \/ k < h)
      BY <1>3, <1>4, <2>2
    <3> QED
      BY <1>3, <1>6, <3>1
  <2> QED
    BY <2>1, <2>2
<1> QED
  BY <1>5, <1>6, OwnersNeutral

\* The calls in progress after a step that calls a section.
LEMMA PushStack ==
  ASSUME InvA, NEW A, Rely(A), TypeOK', HeapOK',
         NEW t \in Threads, stack[t] # <<>>, GivesBack(t), Alone(t), NEW c, NEW g, Pushes(t, c, g),
         NEW h, h = Height(t),
         c.pc \in Calling, g.pc \notin Calling, NEW s, s = Sec(t, h), c.lg.d = s, NEW n, n = c.lg.n,
         NewFrame(t, c, s, n)',
         NEW e, e = lg'[t].d, Inner(c) = e, NEW m, m = lg'[t].n, e # None => Guarded(t, h + 1, e)',
         NewFrame(t, g, e, m)',
         id'[t] = TopId(t, g)',
         \A z : z = lg'[t] /\ z.d # None => BlockOK(z)',
         lg'[t].new => AtEnd(t)' /\ g.pc \in Extending,
         c.pc # "reentered" => \A z : z = c.lg => LgOK(z)'
  PROVE  StackOK'
<1>1. ChildrenOK' /\ LocksOK'
  BY DEF HeapOK
<1>2. /\ FrameShape(t, g, e, m)' /\ FrameCur(t, g, e)' /\ FrameDesc(t, g, e)' /\ FrameCount(g)'
      /\ FrameShape(t, c, s, n)' /\ FrameCur(t, c, s)' /\ FrameDesc(t, c, s)' /\ FrameCount(c)'
  BY DEF NewFrame
<1>3. /\ CallersWait' /\ SectionsNest' /\ FramesOK'
      /\ \A k \in Depth(t) : k < h => stack'[t][k] = stack[t][k]
      /\ h \in Depth(t) /\ stack'[t][h] = c
      /\ Depth(t)' = Depth(t) \cup {h + 1} /\ stack'[t][h + 1] = g
  BY <1>1, <1>2, PushOK
<1>4. \A u \in Threads \ {t} : stack'[u] = stack[u]
  BY DEF Pushes, Kept
<1>5. Height(t)' = h + 1
  BY DEF Pushes
<1>6. Ids'
  BY <1>3, <1>4, <1>5, IdsKept
<1>7. InCall'
  BY <1>4, InCallKept
<1>8. \A k \in Depth(t) : k < h \/ k = h
  BY TopIn
<1>9. BlocksOK'
  <2>1. ASSUME NEW k \in Depth(t)', stack'[t][k].pc \in {"ran", "helped"}
        PROVE \/ /\ k \in Depth(t) /\ stack[t][k].pc \in {"ran", "helped"}
                 /\ stack'[t][k].lg = stack[t][k].lg
              \/ \A z : z = stack'[t][k].lg => LgOK(z)'
    <3>1. CASE k = h + 1
      BY <1>3, <2>1, <3>1 DEF Calling
    <3>2. CASE k = h
      BY <1>3, <2>1, <3>2
    <3>3. CASE k \in Depth(t) /\ k < h
      BY <1>3, <2>1, <3>3
    <3> QED
      BY <1>3, <1>8, <3>1, <3>2, <3>3
  <2>2. lg'[t].new => (AtEnd(t) /\ stack[t] # <<>> /\ Top(t).pc \in Extending)'
    <3>1. Top(t)' = g
      BY <1>3, <1>5 DEF Top, Height
    <3>2. stack'[t] # <<>>
      BY <1>5, TopIn DEF Height
    <3> QED
      BY <3>1, <3>2 DEF Extending
  <2> QED
    BY <1>4, <2>1, <2>2, BlocksKept
<1>10. Returned'
  BY <1>3, <1>4, <1>5, ReturnedKept
<1> QED
  BY <1>3, <1>6, <1>7, <1>9, <1>10 DEF StackOK

\* The owners after such a step.
LEMMA PushOwners ==
  ASSUME InvA, NEW A, Rely(A), TypeOK', HeapOK', PoolKept,
         NEW t \in Threads, stack[t] # <<>>, GivesBack(t), Alone(t), NEW c, NEW g, Pushes(t, c, g),
         NEW h, h = Height(t),
         c.pc \in Calling, g.pc \notin Calling, NEW s, s = Sec(t, h), c.lg.d = s, NEW n, n = c.lg.n,
         NewFrame(t, c, s, n)',
         NEW e, e = lg'[t].d, Inner(c) = e, NEW m, m = lg'[t].n, e # None => Guarded(t, h + 1, e)',
         NewFrame(t, g, e, m)',
         TopSame(stack[t][h], c), ~HasDesc(g)
  PROVE  OwnersOK'
<1>1. ChildrenOK' /\ LocksOK'
  BY DEF HeapOK
<1>2. /\ FrameShape(t, g, e, m)' /\ FrameCur(t, g, e)' /\ FrameDesc(t, g, e)' /\ FrameCount(g)'
      /\ FrameShape(t, c, s, n)' /\ FrameCur(t, c, s)' /\ FrameDesc(t, c, s)' /\ FrameCount(c)'
  BY DEF NewFrame
<1>3. /\ \A u \in Threads : \A k \in Depth(u) : u # t \/ k < h =>
              /\ stack'[u][k] = stack[u][k]
              /\ Sec(u, k)' = Sec(u, k) /\ (Owner(u, k)' <=> Owner(u, k))
      /\ \A u \in Threads \ {t} : Depth(u)' = Depth(u)
      /\ h \in Depth(t) /\ Sec(t, h)' = s /\ stack'[t][h] = c
      /\ Depth(t)' = Depth(t) \cup {h + 1} /\ stack'[t][h + 1] = g
  BY <1>1, <1>2, PushOK
<1>4. \A k \in Depth(t) : k < h \/ k = h
  BY TopIn
<1>5. DescsKept
  BY <1>3, <1>4, DescsPush
<1>6. ASSUME NEW u \in Threads, NEW k \in Depth(u)', stack'[u][k].pc = "retire"
      PROVE  k \in Depth(u) /\ stack[u][k].pc = "retire"
  <2>1. CASE u = t /\ k = h
    BY <1>3, <1>6, <2>1 DEF Calling
  <2>2. CASE u = t /\ k = h + 1
    BY <1>3, <1>6, <2>2 DEF HasDesc, Early, Storing
  <2>3. CASE ~(u = t /\ k \in {h, h + 1})
    <3>1. k \in Depth(u) /\ (u # t \/ k < h)
      BY <1>3, <1>4, <2>3
    <3> QED
      BY <1>3, <1>6, <3>1
  <2> QED
    BY <2>1, <2>2, <2>3
<1> QED
  BY <1>5, <1>6, OwnersNeutral

\* The calls in progress after a return.
LEMMA PopStackOK ==
  ASSUME InvA, NEW A, Rely(A), TypeOK', HeapOK',
         NEW t \in Threads, stack[t] # <<>>, GivesBack(t), Alone(t), NEW r, Pops(t, r),
         NEW h, h = Height(t), NEW s, s = Sec(t, h), lg'[t].d = s, id'[t] = id[t],
         stack[t][h].pc \notin Inherited \cup {"ran"},
         \A z : z = lg'[t] /\ z.d # None => BlockOK(z)',
         ~lg'[t].new, s # None => Settled(s)'
  PROVE  StackOK'
<1>1. ChildrenOK' /\ LocksOK'
  BY DEF HeapOK
<1>2. /\ h \in Depth(t) /\ h \in Nat /\ h >= 1 /\ id[t] = TopId(t, stack[t][h])
      /\ \A k \in Depth(t) : k < h \/ k = h
  BY TopIn
<1>3. id[t] = IdIn(t, s)
  <2>1. Sec(t, h) = lg[t].d
    BY TopIn DEF Calling, Inherited, Inner
  <2> QED
    BY <1>2, <2>1 DEF TopId
<1>4. h = 1 => s = None
  BY DEF InvA, StackOK, SectionsNest
<1>5. h = 1 => id'[t] = t
  BY <1>3, <1>4 DEF IdIn
<1>6. /\ CallersWait' /\ SectionsNest' /\ FramesOK'
      /\ \A u \in Threads : \A k \in Depth(u) : u # t \/ k < h =>
           SameButRes(stack'[u][k], stack[u][k]) /\ Sec(u, k)' = Sec(u, k)
      /\ Depth(t)' = Depth(t) \ {h}
  BY <1>1, <1>5, PopOK
<1>7. \A u \in Threads \ {t} : stack'[u] = stack[u]
  BY DEF Pops, Kept
<1>8. Height(t)' = h - 1
  BY DEF Pops
<1>9. InCall'
  BY <1>7, InCallKept
<1>10. (s # None => s \in Descriptors \ A) /\ calls'[t] = calls[t]
  BY <1>2, NotAllocated DEF Alone
<1>11. IdIn(t, s)' = IdIn(t, s)
  BY <1>10, InKept
<1>12. ASSUME NEW g, stack'[t] # <<>>, g = stack'[t][Height(t)'] PROVE id'[t] = TopId(t, g)'
  <2>1. PICK k : k = h - 1
    OBVIOUS
  <2>2. h # 1
    <3>1. stack'[t] \in Seq(Frames)
      BY DEF TypeOK
    <3>2. stack'[t] = <<>> <=> Height(t)' = 0
      BY <3>1, EmptyIs DEF Height
    <3> QED
      BY <1>2, <1>8, <1>12, <3>2
  <2>3. k \in Depth(t) /\ k < h /\ k + 1 = h /\ k \in Nat
    BY <1>2, <2>1, <2>2 DEF Depth
  <2>4. g = stack'[t][k] /\ SameButRes(g, stack[t][k])
    BY <1>6, <1>8, <1>12, <2>1, <2>3
  <2>5. stack[t][k].pc \in Calling /\ Inner(stack[t][k]) = s
    <3>1. NestsAt(t, k) /\ stack[t][k].pc \in Calling
      BY <2>3, FrameFacts DEF InvA, StackOK, SectionsNest
    <3>2. Inner(stack[t][k]) = Sec(t, k + 1)
      BY <2>3, <3>1 DEF NestsAt
    <3> QED
      BY <2>3, <3>1, <3>2
  <2>6. g.pc = "helped" => g.cur = s
    BY <2>4, <2>5 DEF Inner, SameButRes
  <2>7. g.pc = "helped" => s # None
    <3>1. g.pc = "helped" => stack[t][k].cur \in Descriptors
      <4>1. FrameCur(t, stack[t][k], Sec(t, k))
        BY <2>3, FrameFacts DEF FrameOK
      <4>2. g.pc = stack[t][k].pc
        BY <2>4 DEF SameButRes
      <4> QED
        BY <4>1, <4>2 DEF FrameCur, HelpIn
    <3> QED
      BY <2>4, <2>6, <3>1, Consts DEF SameButRes
  <2>8. CASE g.pc = "helped"
    <3>1. IdIn(t, s)' = desc'[g.cur].thread
      BY <2>6, <2>7, <2>8 DEF IdIn
    <3> QED
      BY <1>3, <1>11, <2>8, <3>1 DEF TopId, Inherited
  <2>9. CASE g.pc # "helped"
    <3>1. g.pc \notin Inherited
      BY <2>4, <2>5, <2>9 DEF Inherited, Calling, SameButRes
    <3> QED
      BY <1>3, <1>11, <3>1 DEF TopId
  <2> QED
    BY <2>8, <2>9
<1>13. Ids'
  BY <1>7, <1>12, IdsKept
<1>14. BlocksOK'
  <2>1. \A k \in Depth(t)' : stack'[t][k].pc \in {"ran", "helped"} =>
              /\ k \in Depth(t) /\ stack[t][k].pc \in {"ran", "helped"}
              /\ stack'[t][k].lg = stack[t][k].lg
    BY <1>2, <1>6 DEF SameButRes
  <2> QED
    BY <1>7, <2>1, BlocksKept
<1>15. Returned'
  <2>1. ASSUME stack'[t] # <<>> PROVE s # None
    <3>1. PICK k : k = h - 1
      OBVIOUS
    <3>2. h # 1
      <4>1. stack'[t] \in Seq(Frames)
        BY DEF TypeOK
      <4>2. stack'[t] = <<>> <=> Height(t)' = 0
        BY <4>1, EmptyIs DEF Height
      <4> QED
        BY <1>2, <1>8, <2>1, <4>2
    <3> QED
      BY <1>2, <3>2, InnerSections
  <2> QED
    BY <1>7, <2>1, ReturnedKept
<1> QED
  BY <1>6, <1>9, <1>13, <1>14, <1>15 DEF StackOK

\* The owners after a return from a call that has nothing to give back.
LEMMA PopOwners ==
  ASSUME InvA, NEW A, Rely(A), TypeOK', HeapOK', PoolKept,
         NEW t \in Threads, stack[t] # <<>>, GivesBack(t), Alone(t), NEW r, Pops(t, r),
         NEW h, h = Height(t), NEW s, s = Sec(t, h), lg'[t].d = s, h = 1 => id'[t] = t,
         ~Owner(t, h)
  PROVE  OwnersOK'
<1>1. ChildrenOK' /\ LocksOK'
  BY DEF HeapOK
<1>2. /\ \A u \in Threads : \A k \in Depth(u) : u # t \/ k < h =>
              /\ SameButRes(stack'[u][k], stack[u][k])
              /\ Sec(u, k)' = Sec(u, k) /\ (Owner(u, k)' <=> Owner(u, k))
      /\ \A u \in Threads \ {t} : Depth(u)' = Depth(u)
      /\ h \in Depth(t) /\ Depth(t)' = Depth(t) \ {h}
  BY <1>1, PopOK
<1>3. \A k \in Depth(t) : k < h \/ k = h
  BY TopIn
<1>4. DescsKept
  BY <1>2, <1>3, DescsPop
<1>5. ASSUME NEW u \in Threads, NEW k \in Depth(u)', stack'[u][k].pc = "retire"
      PROVE  k \in Depth(u) /\ stack[u][k].pc = "retire"
  <2>1. k \in Depth(u) /\ (u # t \/ k < h)
    BY <1>2, <1>3
  <2> QED
    BY <1>2, <1>5, <2>1 DEF SameButRes
<1> QED
  BY <1>4, <1>5, OwnersNeutral

\* Continue goes on,
LEMMA ContIs ==
  ASSUME TypeOK, NEW t \in Threads, stack[t] # <<>>, NEW g \in Frames, Continue(t, g)
  PROVE  Conts(t, g) /\ stack' \in [Threads -> Seq(Frames)]
BY ContinueStack DEF Conts, Height, Kept

\* CallThen calls,
LEMMA PushIs ==
  ASSUME TypeOK, NEW t \in Threads, stack[t] # <<>>, NEW g \in Frames, NEW f \in Frames,
         CallThen(t, g, f)
  PROVE  Pushes(t, [f EXCEPT !.lg = lg[t]], g) /\ stack' \in [Threads -> Seq(Frames)]
BY CallStack DEF Pushes, Height, Kept

\* and Return returns.
LEMMA PopIs ==
  ASSUME TypeOK, NEW t \in Threads, stack[t] # <<>>, NEW r, r \in BOOLEAN, Return(t, r)
  PROVE  /\ Pops(t, r) /\ stack' \in [Threads -> Seq(Frames)]
         /\ stores' \in [Locks -> Nat] /\ prog' = prog /\ calls' = calls /\ callOf' = callOf /\ made' = made
<1>1. ReturnTo(t, Callers(t), r) /\ UNCHANGED <<prog, calls, callOf, made>>
  BY DEF Return
<1>2. Pops(t, r) /\ stack' \in [Threads -> Seq(Frames)]
  BY <1>1, ReturnStack DEF Pops, Height, Kept
<1>3. stores' \in [Locks -> Nat]
  <2>1. stores \in [Locks -> Nat]
    BY DEF TypeOK
  <2>2. CASE stores' = stores
    BY <2>1, <2>2
  <2>3. CASE stores' # stores
    <3>1. \E z : stores' = [stores EXCEPT ![z] = @ + 1]
      BY <2>3 DEF Return
    <3>2. PICK z : stores' = [stores EXCEPT ![z] = @ + 1]
      BY <3>1
    <3>3. stores' = [l \in Locks |-> IF l = z THEN stores[l] + 1 ELSE stores[l]]
      BY <2>1, <3>2
    <3>4. \A l \in Locks : stores[l] \in Nat /\ stores[l] + 1 \in Nat
      BY <2>1
    <3> QED
      BY <3>3, <3>4
  <2> QED
    BY <2>2, <2>3
<1> QED
  BY <1>1, <1>2, <1>3

\* A step that leaves the heap alone.
HeapSame ==
  /\ lck' = lck /\ desc' = desc /\ log' = log /\ ext' = ext /\ status' = status
  /\ freeList' = freeList /\ prog' = prog /\ callOf' = callOf

\* A step that leaves the heap alone keeps all that is known of it.
LEMMA SameRely ==
  ASSUME InvA, HeapSame
  PROVE  Rely({})
<1>1. ASSUME NEW d \in Descriptors PROVE DescKept(d)
  <2>1. /\ Held(d)' <=> Held(d)
        /\ Installed(d)' <=> Installed(d)
        /\ Over(d)' <=> Over(d)
    BY DEF HeapSame, Held, Installed, Over, Moved
  <2>2. \A j : EntryKept(d, j)
    BY DEF HeapSame, EntryKept
  <2>3. ext[d] <= ext'[d] /\ desc[d].counter <= desc'[d].counter
    BY DescType DEF HeapSame, InvA
  <2>4. \A l : AtMost(l, desc[d].counter) <=> AtMost(l, desc[d].counter)'
    BY DEF HeapSame, AtMost
  <2> QED
    BY <2>1, <2>2, <2>3, <2>4 DEF HeapSame, DescKept
<1>2. \A d \in Descriptors : StatusKept(d)
  BY DEF HeapSame, StatusKept, Safe
<1>3. \A l, c : LockKept(l, c)
  BY DEF HeapSame, LockKept, AtMost, Moved
<1> QED
  BY <1>1, <1>2, <1>3 DEF HeapSame, Rely

\* Such a step keeps what is true of the heap.
LEMMA SameHeap ==
  ASSUME InvA, HeapSame
  PROVE  HeapOK'
<1>1. HeapOK
  BY DEF InvA
<1>2. /\ FlatReuse' /\ PathsFit' /\ ReuseFlat' /\ PrefixSet' /\ LogsKnown' /\ InBlocks'
  BY <1>1 DEF HeapOK, HeapSame, FlatReuse, PathsFit, ReuseFlat, PrefixSet, LogsKnown, InBlocks, Size
<1>3. LoadsOK' /\ ValuesOK'
  BY <1>1 DEF HeapOK, HeapSame, LoadsOK, ValuesOK, Levels, Size, OwnUpTo, Own, LoadEntry, Known, Held,
     Installed, Base, Value, Mark, AtMost
<1>4. ChildrenOK'
  <2>1. /\ \A d, i : Forks(d, i)' <=> Forks(d, i)
        /\ \A d, i : ChildAt(d, i)' = ChildAt(d, i)
        /\ \A d : Levels(d)' = Levels(d)
    BY DEF HeapSame, Levels, Size, OwnUpTo, Own, Forks, ChildAt, Off
  <2>2. \A d, i, e : ChildOK(d, i, e)' <=> ChildOK(d, i, e)
    BY DEF HeapSame, ChildOK, Size
  <2>3. ASSUME NEW d \in Descriptors, NEW i \in Levels(d)', Forks(d, i)'
        PROVE  \/ ChildAt(d, i)' = Unset
               \/ IsDone(ChildAt(d, i)')
               \/ ChildAt(d, i)'[1] = "word" /\ \A e : e = ChildAt(d, i)'[2] => ChildOK(d, i, e)'
    BY <1>1, <2>1, <2>2, <2>3 DEF HeapOK, ChildrenOK
  <2> QED
    BY <2>3 DEF ChildrenOK
<1>5. NotTwice' /\ FreshBlank' /\ UsedFull' /\ FreeOK' /\ LocksOK'
  BY <1>1 DEF HeapOK, HeapSame, NotTwice, FreshBlank, UsedFull, FreeOK, LocksOK
<1>6. CountersOK' /\ RetiredOver'
  BY <1>1 DEF HeapOK, HeapSame, CountersOK, RetiredOver, Over, Held, Installed, Moved
<1>7. DoneSettled' /\ ChainOrdered'
  BY SameRely, DoneSettledKept, ChainKept DEF HeapSame
<1> QED
  BY <1>2, <1>3, <1>4, <1>5, <1>6, <1>7 DEF HeapOK

\* The calls of a section are in its log.
LEMMA SameChild ==
  ASSUME desc' = desc, log' = log, prog' = prog
  PROVE  \A d, e : HasChild(d, e)' <=> HasChild(d, e)
BY DEF HasChild, Levels, Size, Forks, OwnUpTo, Own, ChildAt, Off

\* A step that leaves the heap alone leaves the pools alone.
LEMMA SamePool ==
  ASSUME InvA, HeapSame, TypeOK'
  PROVE  PoolKept
<1>1. \A d, e : HasChild(d, e)' => HasChild(d, e)
  BY SameChild DEF HeapSame
<1>2. ASSUME NEW t \in Threads, NEW k \in Depth(t), stack[t][k].pc = "commit", NEW e, e = stack[t][k].d
      PROVE  ~Held(e)' /\ ~desc'[e].acquired
  BY <1>2 DEF InvA, OwnersOK, Privacy, HeapSame, Held, Installed
<1>3. DescsKept => RootOK'
  BY SameRely, RootNeutral DEF HeapSame
<1> QED
  BY <1>1, <1>2, <1>3 DEF PoolKept, HeapSame

\* It gives nothing back.
LEMMA SameGives ==
  ASSUME status' = status, NEW t
  PROVE  GivesBack(t)
BY DEF GivesBack

\* A call that shares its descriptor goes on with the same one.
Moves(f, g) ==
  /\ Sharing(f) /\ Sharing(g)
  /\ g.lock = f.lock /\ g.path = f.path /\ g.d = f.d /\ g.le = f.le
  /\ ~prog.with => g.cur = f.cur

\* A frame that goes on within the same call keeps its shape.
LEMMA MoveShape ==
  ASSUME NEW t, NEW f, NEW g, NEW s, NEW n, Moves(f, g), prog' = prog, FrameShape(t, f, s, n)',
         g.pc \in WithOnly => prog.with, g.pc \in TryOnly => ~prog.with,
         s # None \/ g.pc \notin {"acquire", "recheck"},
         f.pc \in {"acquire", "recheck"} \/ g.pc \notin {"acquire", "recheck"}
  PROVE  FrameShape(t, g, s, n)'
<1>1. /\ f.pc \notin Storing /\ g.pc \notin Storing
      /\ g.pc \notin {"load", "with", "self", "reentered", "alloc", "commit"}
      /\ f.pc \notin {"load", "with", "self", "reentered", "alloc", "commit"}
  BY DEF Moves, Sharing, Early
<1>2. LockShape(t, g, s)'
  <2>1. LockShape(t, f, s)'
    BY <1>1 DEF FrameShape
  <2> QED
    BY <2>1 DEF LockShape, Moves
<1>3. s = None => OutsideShape(t, g)'
  <2>1. s = None => OutsideShape(t, f)'
    BY <1>1 DEF FrameShape
  <2> QED
    BY <1>1, <2>1 DEF OutsideShape, Moves
<1>4. s # None => InsideShape(g, s, n, Level(g, s))'
  <2>1. Level(g, s)' = Level(f, s)'
    BY DEF Level, Moves
  <2>2. PICK i : i = Level(f, s)'
    OBVIOUS
  <2>3. s # None => InsideShape(f, s, n, i)'
    BY <1>1, <2>2 DEF FrameShape
  <2>4. s # None => InsideShape(g, s, n, i)'
    BY <1>1, <2>3 DEF InsideShape, Moves
  <2> QED
    BY <2>1, <2>2, <2>4
<1> QED
  BY <1>1, <1>2, <1>3, <1>4 DEF FrameShape

\* It keeps what it knows of its descriptor.
LEMMA MoveDesc ==
  ASSUME NEW t, NEW f, NEW g, NEW s, Moves(f, g), prog' = prog, FrameDesc(t, f, s)',
         s # None /\ g.le = 0 =>
           /\ g.pc = "recheck" => (desc[g.d].acquired \/ IsDone(ChildAt(s, Level(g, s))))'
           /\ g.pc \notin {"acquire", "recheck"} => Safe(g.d)'
  PROVE  FrameDesc(t, g, s)'
<1>1. HasDesc(f) /\ HasDesc(g)
  BY DEF HasDesc, Moves, Sharing
<1>2. ~prog.with => CounterOf(g) = CounterOf(f)
  BY DEF Moves, CounterOf
<1>3. s # None /\ IsDone(ChildAt(s, Level(g, s)))' => Over(g.d)'
  <2>1. PICK i : i = Level(f, s)'
    OBVIOUS
  <2>2. Level(g, s)' = i /\ g.d = f.d /\ Sharing(f)
    BY <2>1 DEF Level, Moves
  <2>3. s # None /\ IsDone(ChildAt(s, i))' => Over(f.d)'
    BY <2>1, <2>2 DEF FrameDesc
  <2> QED
    BY <2>2, <2>3
<1> QED
  BY <1>1, <1>2, <1>3 DEF FrameDesc, Moves

\* The descriptor stays safe.
LEMMA MoveSafe ==
  ASSUME NEW t, NEW f, NEW s, NEW g, FrameDesc(t, f, s)', Moves(f, g), f.pc \notin {"acquire", "recheck"}
  PROVE  s # None /\ g.le = 0 => Safe(g.d)'
BY DEF FrameDesc, Moves

\* It stays the descriptor of the frame.
LEMMA MoveTop ==
  ASSUME NEW f, NEW g, Moves(f, g)
  PROVE  TopSame(f, g)
BY DEF Moves, TopSame, Sharing

\* The step of a call that goes on with its descriptor.
LEMMA MoveStep ==
  ASSUME InvA, Rely({}), TypeOK', HeapOK', PoolKept,
         NEW t \in Threads, stack[t] # <<>>, GivesBack(t), Alone(t), NEW g, Conts(t, g),
         NEW h, h = Height(t), NEW f, f = stack[t][h], NEW s, s = Sec(t, h), NEW n, n = Pos(t, h),
         lg'[t].d = s, lg'[t].n = n, ~lg'[t].new,
         \A z : z = lg'[t] /\ z.d # None => BlockOK(z)',
         Moves(f, g), g.pc \notin Calling,
         g.pc \in WithOnly => prog.with, g.pc \in TryOnly => ~prog.with,
         s # None \/ g.pc \notin {"acquire", "recheck"},
         f.pc \in {"acquire", "recheck"} \/ g.pc \notin {"acquire", "recheck"},
         s # None /\ g.le = 0 =>
           /\ g.pc = "recheck" => (desc[g.d].acquired \/ IsDone(ChildAt(s, Level(g, s))))'
           /\ g.pc \notin {"acquire", "recheck"} => Safe(g.d)',
         FrameCur(t, g, s)', FrameCount(g)', id'[t] = TopId(t, g)',
         g.pc = "retire" => Owner(t, h) /\ (s # None => ChildDone(s)')
  PROVE  StackOK' /\ OwnersOK'
<1>1. ChildrenOK' /\ LocksOK' /\ prog' = prog
  BY DEF HeapOK, Rely
<1>2. h \in Depth(t) /\ calls'[t] = calls[t]
  BY TopIn DEF Alone
<1>3. FrameShape(t, f, s, n)' /\ FrameDesc(t, f, s)'
  BY <1>1, <1>2, FrameKept
<1>4. FrameShape(t, g, s, n)'
  BY <1>1, <1>3, MoveShape
<1>5. FrameDesc(t, g, s)'
  BY <1>1, <1>3, MoveDesc
<1>6. NewFrame(t, g, s, n)'
  BY <1>4, <1>5 DEF NewFrame
<1>7. PICK m : m = lg'[t].n
  OBVIOUS
<1>8. NewFrame(t, g, s, m)'
  BY <1>6, <1>7
<1>9. StackOK'
  BY <1>7, <1>8, ContStack
<1>10. TopSame(stack[t][h], g)
  BY MoveTop
<1>11. OwnersOK'
  BY <1>7, <1>8, <1>10, ContOwners
<1> QED
  BY <1>9, <1>11

\* What is needed of the log when the call stays in it.
LEMMA LgSame ==
  ASSUME InvA, NEW A, Rely(A), TypeOK', NEW t \in Threads, stack[t] # <<>>, lg'[t] = lg[t],
         NEW h, h = Height(t), stack[t][h].pc \notin {"ran", "helped"}
  PROVE  /\ \A z : z = lg'[t] /\ z.d # None => BlockOK(z)'
         /\ lg'[t].d = Sec(t, h) /\ (stack[t][h].pc # "reentered" => lg'[t].n = Pos(t, h))
         /\ stack[t][h].pc \notin Extending => ~lg'[t].new
         /\ lg'[t].d = None => lg'[t] = EmptyLog
<1>1. PICK f : f = stack[t][h]
  OBVIOUS
<1>2. h \in Depth(t) /\ f = Top(t)
  BY <1>1, TopIn
<1>3. lg[t].d = Sec(t, h) /\ (f.pc # "reentered" => lg[t].n = Pos(t, h))
  BY <1>1, TopIn DEF Calling, Inner
<1>4. lg[t] \in Log
  BY DEF InvA, TypeOK
<1>5. ASSUME NEW z, z = lg'[t], z.d # None PROVE BlockOK(z)'
  <2>1. z \in Log /\ BlockOK(z)
    BY <1>4, <1>5 DEF InvA, StackOK, BlocksOK
  <2>2. z.d \in Descriptors \ A
    BY <1>2, <1>3, <1>5, NotAllocated
  <2> QED
    BY <2>1, <2>2, BlockKept DEF InvA
<1>6. f.pc \notin Extending => ~lg[t].new
  BY <1>2 DEF InvA, StackOK, BlocksOK
<1>7. lg[t].d = None => lg[t] = EmptyLog
  BY DEF InvA, StackOK, SectionsNest
<1> QED
  BY <1>1, <1>3, <1>5, <1>6, <1>7

\* And when it comes back from a section that it ran.
LEMMA LgBack ==
  ASSUME InvA, NEW A, Rely(A), TypeOK', NEW t \in Threads, stack[t] # <<>>,
         NEW h, h = Height(t), stack[t][h].pc \in {"ran", "helped"}, lg'[t] = stack[t][h].lg
  PROVE  /\ \A z : z = lg'[t] /\ z.d # None => BlockOK(z)'
         /\ lg'[t].d = Sec(t, h) /\ lg'[t].n = Pos(t, h)
         /\ ~lg'[t].new
         /\ lg'[t].d = None => lg'[t] = EmptyLog
<1>1. PICK f : f = stack[t][h]
  OBVIOUS
<1>2. h \in Depth(t) /\ f \in Frames
  BY <1>1, TopIn
<1>3. f.lg.d = Sec(t, h) /\ f.lg.n = Pos(t, h)
  BY <1>1, TopIn DEF Calling
<1>4. f.lg \in Log
  BY <1>2, FrameType
<1>5. ASSUME NEW z, z = lg'[t], z.d # None PROVE BlockOK(z)'
  <2>1. z \in Log /\ BlockOK(z)
    BY <1>1, <1>2, <1>4, <1>5 DEF InvA, StackOK, BlocksOK
  <2>2. z.d \in Descriptors \ A
    BY <1>1, <1>2, <1>3, <1>5, NotAllocated
  <2> QED
    BY <2>1, <2>2, BlockKept DEF InvA
<1>6. ~f.lg.new /\ (f.lg.d = None => f.lg = EmptyLog)
  BY <1>1, <1>2 DEF InvA, StackOK, BlocksOK
<1> QED
  BY <1>1, <1>3, <1>5, <1>6

\* The thread that a call acts for, except while it helps.
LEMMA IdHere ==
  ASSUME InvA, NEW t \in Threads, stack[t] # <<>>, NEW h, h = Height(t), NEW s, s = Sec(t, h),
         stack[t][h].pc \notin Inherited
  PROVE  id[t] = IdIn(t, s)
<1>1. PICK f : f = stack[t][h]
  OBVIOUS
<1>2. /\ id[t] = IdIn(t, lg[t].d) /\ f \in Frames /\ h \in Depth(t)
  BY <1>1, TopIn DEF TopId
<1>3. CASE f.pc # "ran"
  BY <1>1, <1>2, <1>3, TopIn DEF Calling, Inner, Inherited
<1>4. CASE f.pc = "ran"
  <2>1. lg[t].d = f.d
    BY <1>1, <1>4, TopIn DEF Calling, Inner
  <2>2. FrameDesc(t, f, s)
    BY <1>1, TopIn DEF FrameOK
  <2>3. f.d \in Descriptors /\ desc[f.d].thread = IdIn(t, s)
    BY <1>4, <2>2 DEF FrameDesc, HasDesc, Early, Storing
  <2> QED
    BY <1>2, <2>1, <2>3, Consts DEF IdIn
<1> QED
  BY <1>3, <1>4

\* It keeps acting for that thread.
LEMMA IdStays ==
  ASSUME InvA, NEW A, Rely(A), NEW t \in Threads, stack[t] # <<>>, NEW h, h = Height(t),
         NEW s, s = Sec(t, h), stack[t][h].pc \notin Inherited, calls'[t] = calls[t],
         lg'[t].d = s, NEW g, g.pc \notin Inherited
  PROVE  IdIn(t, s)' = id[t] /\ TopId(t, g)' = id[t]
<1>1. id[t] = IdIn(t, s)
  BY IdHere
<1>2. s # None => s \in Descriptors \ A
  BY TopIn, NotAllocated
<1>3. IdIn(t, s)' = IdIn(t, s)
  BY <1>2, InKept
<1>4. TopId(t, g)' = IdIn(t, s)'
  BY DEF TopId
<1> QED
  BY <1>1, <1>3, <1>4

\* A step that leaves the heap alone keeps all that frames know.
LEMMA SameParts ==
  ASSUME HeapSame, NEW t, calls'[t] = calls[t], NEW g, NEW s, NEW n
  PROVE  /\ FrameCur(t, g, s)' <=> FrameCur(t, g, s)
         /\ FrameCount(g)' <=> FrameCount(g)
         /\ FrameDesc(t, g, s)' <=> FrameDesc(t, g, s)
         /\ FrameShape(t, g, s, n)' <=> FrameShape(t, g, s, n)
<1>1. FrameCur(t, g, s)' <=> FrameCur(t, g, s)
  BY DEF HeapSame, FrameCur, Known, Held, Installed, Safe, IdIn
<1>2. FrameCount(g)' <=> FrameCount(g)
  <2>1. /\ \A c : AtMost(g.lock, c)' <=> AtMost(g.lock, c)
        /\ \A c : Moved(g.lock, c)' <=> Moved(g.lock, c)
        /\ Held(g.d)' <=> Held(g.d)
        /\ Over(g.d)' <=> Over(g.d)
    BY DEF HeapSame, AtMost, Moved, Held, Installed, Over
  <2> QED
    BY <2>1 DEF HeapSame, FrameCount
<1>3. FrameDesc(t, g, s)' <=> FrameDesc(t, g, s)
  <2>1. Over(g.d)' <=> Over(g.d)
    BY DEF HeapSame, Moved, Installed, Over
  <2>2. /\ IdIn(t, s)' = IdIn(t, s) /\ PathIn(t, s)' = PathIn(t, s) /\ NumberIn(t, s)' = NumberIn(t, s)
        /\ Size(g.d)' = Size(g.d) /\ (Safe(g.d)' <=> Safe(g.d)) /\ Level(g, s)' = Level(g, s)
    BY DEF HeapSame, IdIn, PathIn, NumberIn, Size, Safe, Level
  <2>3. \A i : ChildAt(s, i)' = ChildAt(s, i)
    BY DEF HeapSame, ChildAt, Off
  <2> QED
    BY <2>1, <2>2, <2>3 DEF HeapSame, FrameDesc
<1>4. FrameShape(t, g, s, n)' <=> FrameShape(t, g, s, n)
  <2>1. StoreShape(g, s, n)' <=> StoreShape(g, s, n)
    BY DEF HeapSame, StoreShape, Target, Size, Base, OwnUpTo, Own, Value
  <2>2. LockShape(t, g, s)' <=> LockShape(t, g, s)
    BY DEF HeapSame, LockShape, PathIn
  <2>3. OutsideShape(t, g)' <=> OutsideShape(t, g)
    BY DEF OutsideShape
  <2>4. \A i : InsideShape(g, s, n, i)' <=> InsideShape(g, s, n, i)
    <3>1. \A i : Own(s, i)' <=> Own(s, i)
      BY DEF HeapSame, Own
    <3>2. \A i : OwnUpTo(s, i)' <=> OwnUpTo(s, i)
      BY <3>1 DEF OwnUpTo
    <3>3. Off' = Off /\ \A i : ChildAt(s, i)' = ChildAt(s, i)
      BY DEF HeapSame, Off, ChildAt
    <3> QED
      BY <3>1, <3>2, <3>3 DEF HeapSame, InsideShape
  <2>5. Level(g, s)' = Level(g, s)
    BY DEF HeapSame, Level, Size
  <2> QED
    BY <2>1, <2>2, <2>3, <2>4, <2>5 DEF FrameShape
<1> QED
  BY <1>1, <1>2, <1>3, <1>4

\* The descriptor of a run that lost the commit is safe.
LEMMA SafeHere ==
  ASSUME InvA, NEW t \in Threads, stack[t] # <<>>, NEW h, h = Height(t), NEW f, f = stack[t][h],
         NEW s, s = Sec(t, h), Sharing(f), f.pc \notin {"acquire", "recheck"}
  PROVE  s # None /\ f.le = 0 => Safe(f.d)
<1>1. FrameDesc(t, f, s)
  BY TopIn DEF FrameOK
<1> QED
  BY <1>1 DEF FrameDesc

\* A step of a call with a descriptor that leaves the heap alone.
LEMMA SameMove ==
  ASSUME InvA, HeapSame, TypeOK',
         NEW t \in Threads, stack[t] # <<>>, Alone(t), NEW g, Conts(t, g),
         NEW h, h = Height(t), NEW f, f = stack[t][h], NEW s, s = Sec(t, h),
         lg'[t] = lg[t], Moves(f, g), f.pc \notin Calling, g.pc \notin Calling,
         g.pc \in WithOnly => prog.with, g.pc \in TryOnly => ~prog.with,
         g.pc \notin {"acquire", "recheck", "retire"},
         s # None /\ g.le = 0 => Safe(g.d),
         FrameCur(t, g, s), FrameCount(g), id'[t] = TopId(t, g)'
  PROVE  InvA'
<1>1. Rely({}) /\ HeapOK' /\ PoolKept /\ GivesBack(t)
  BY SameRely, SameHeap, SamePool, SameGives DEF HeapSame
<1>2. calls'[t] = calls[t]
  BY DEF Alone
<1>3. FrameCur(t, g, s)' /\ FrameCount(g)'
  BY <1>2, SameParts
<1>4. s # None /\ g.le = 0 => Safe(g.d)'
  BY DEF HeapSame, Safe
<1>5. /\ \A z : z = lg'[t] /\ z.d # None => BlockOK(z)'
      /\ lg'[t].d = s /\ (f.pc # "reentered" => lg'[t].n = Pos(t, h))
      /\ f.pc \notin Extending => ~lg'[t].new
  BY <1>1, LgSame DEF Calling
<1>6. ~lg'[t].new
  BY <1>5 DEF Moves, Sharing, Extending, Early, Storing
<1>7. PICK n : n = Pos(t, h)
  OBVIOUS
<1>8. lg'[t].n = n
  BY <1>5, <1>7 DEF Calling
<1>9. StackOK' /\ OwnersOK'
  BY <1>1, <1>3, <1>4, <1>5, <1>6, <1>7, <1>8, MoveStep
<1> QED
  BY <1>1, <1>9 DEF InvA

\* The types of a step that leaves the heap alone.
LEMMA SameTypes ==
  ASSUME TypeOK, HeapSame, x' \in [Locks -> Nat], calls' = calls, stores' \in [Locks -> Nat],
         made' \in SUBSET (Threads \X Nat),
         stack' \in [Threads -> Seq(Frames)], lg' \in [Threads -> Log],
         id' \in [Threads -> Threads], helping' \in [Threads -> BOOLEAN]
  PROVE  TypeOK'
BY DEF TypeOK, HeapSame

\* A step that moves no log and no other thread.
LEMMA AloneStays ==
  ASSUME InvA, NEW t \in Threads, calls' = calls, lg' = lg,
         \A u \in Threads \ {t} : id'[u] = id[u] /\ helping'[u] = helping[u]
  PROVE  Alone(t)
BY DEF Alone, InvA, StackOK, SectionsNest

\* Frames that have the lock, the path and the descriptor in common.
Alike(f, g) == g.lock = f.lock /\ g.path = f.path /\ g.d = f.d /\ g.le = f.le

\* The places of a frame.
LEMMA PcNames ==
  /\ "load" \in Pcs /\ "self" \in Pcs /\ "reentered" \in Pcs /\ "alloc" \in Pcs /\ "commit" \in Pcs
  /\ "acquire" \in Pcs /\ "recheck" \in Pcs /\ "cas" \in Pcs /\ "check" \in Pcs /\ "ran" \in Pcs
  /\ "clear" \in Pcs /\ "result" \in Pcs /\ "retire" \in Pcs /\ "help" \in Pcs /\ "help_id" \in Pcs
  /\ "help_acquire" \in Pcs /\ "help_check" \in Pcs /\ "helped" \in Pcs /\ "help_clear" \in Pcs /\ "with" \in Pcs
  /\ "count" \in Pcs /\ "raise" \in Pcs /\ "test" \in Pcs /\ "take" \in Pcs /\ "again" \in Pcs
  /\ "get" \in Pcs /\ "skip" \in Pcs /\ "store" \in Pcs /\ "mark" \in Pcs
BY DEF Pcs

\* The logs of descriptors.
LEMMA LogKnown ==
  EmptyLog \in Log /\ \A d \in Descriptors : LogOf(d) \in Log /\ LogOf(d).d = d /\ LogOf(d).n = 0
                                             /\ LogOf(d).block = 0 /\ ~LogOf(d).new
BY Consts DEF EmptyLog, LogOf, Log

\* What is known of the innermost frame when a step of its thread begins.
LEMMA Enter ==
  ASSUME InvA, NEW t \in Threads, NEW w, At(t, w), NEW h, h = Height(t), NEW f, f = stack[t][h],
         NEW s, s = Sec(t, h), NEW n, n = Pos(t, h)
  PROVE  /\ stack[t] # <<>> /\ f = Top(t) /\ f.pc = w /\ f \in Frames /\ h \in Depth(t)
         /\ FrameShape(t, f, s, n) /\ FrameCur(t, f, s) /\ FrameDesc(t, f, s) /\ FrameCount(f)
         /\ s \in Descriptors \cup {None} /\ n \in 0 .. LogLen
         /\ s # None => Guarded(t, h, s)
         /\ TypeOK
<1>1. stack[t] # <<>> /\ Top(t).pc = w
  BY DEF At
<1>2. f = Top(t) /\ f \in Frames /\ h \in Depth(t) /\ FrameOK(t, h, f, s, n)
  BY <1>1, TopIn
<1>3. s \in Descriptors \cup {None} /\ n \in 0 .. LogLen
  BY <1>2, FrameFacts
<1> QED
  BY <1>1, <1>2, <1>3 DEF FrameOK, InvA

\* The call that a thread is in: its frame f, section s and log position n.
Here(t, w, h, f, s, n) ==
  /\ h = Height(t) /\ f = stack[t][h] /\ s = Sec(t, h) /\ n = Pos(t, h)
  /\ stack[t] # <<>> /\ f = Top(t) /\ f.pc = w /\ f \in Frames /\ h \in Depth(t)
  /\ FrameShape(t, f, s, n) /\ FrameCur(t, f, s) /\ FrameDesc(t, f, s) /\ FrameCount(f)
  /\ s \in Descriptors \cup {None} /\ n \in 0 .. LogLen /\ (s # None => Guarded(t, h, s))

\* There is such an innermost frame.
LEMMA HereIs ==
  ASSUME InvA, NEW t \in Threads, NEW w, At(t, w)
  PROVE  \E h, f, s, n : Here(t, w, h, f, s, n)
<1>1. PICK h, f : h = Height(t) /\ f = stack[t][h]
  OBVIOUS
<1>2. PICK s, n : s = Sec(t, h) /\ n = Pos(t, h)
  OBVIOUS
<1>3. Here(t, w, h, f, s, n)
  BY <1>1, <1>2, Enter DEF Here
<1> QED
  BY <1>3

\* What a thread reads in a lock.
LEMMA LockWordOK ==
  ASSUME InvA, NEW l \in Locks, NEW c, c = lck[l]
  PROVE  /\ c \in Nat \cup Descriptors
         /\ c \in Nat => c > 0 /\ AtMost(l, c)
         /\ c \in Descriptors => /\ Installed(c) /\ Held(c) /\ Known(c)
                                 /\ status[c] = "live" /\ desc[c].lock = l
<1>1. c \in Nat \cup Descriptors
  BY DEF InvA, TypeOK
<1>2. (c \in Nat => c > 0) /\ (c \in Descriptors => desc[c].lock = l /\ status[c] = "live")
  BY DEF InvA, HeapOK, LocksOK
<1>3. c \in Nat => AtMost(l, c)
  BY Consts DEF AtMost
<1>4. c \in Descriptors => Installed(c) /\ Held(c)
  BY DEF Installed, Held
<1> QED
  BY <1>1, <1>2, <1>3, <1>4 DEF Known

\* The steps of try_lock and of with_lock.
LEMMA WithPath ==
  ASSUME NEW t, NEW f, NEW s, NEW n, FrameShape(t, f, s, n)
  PROVE  /\ f.pc \in WithOnly => prog.with
         /\ f.pc \in TryOnly => ~prog.with
BY DEF FrameShape, LockShape, WithOnly, TryOnly, Storing

\* The descriptor of a frame that shares it.
LEMMA HasD ==
  ASSUME NEW t, NEW f, NEW s, FrameDesc(t, f, s), Sharing(f)
  PROVE  f.d \in Descriptors /\ status[f.d] # "fresh" /\ desc[f.d].lock = f.lock
BY DEF FrameDesc, Sharing, HasDesc

\* Nothing but the thread's own call changes.
Quiet(t) ==
  /\ HeapSame /\ calls' = calls /\ x' = x /\ stores' = stores /\ made' = made
  /\ id' \in [Threads -> Threads] /\ helping' \in [Threads -> BOOLEAN]
  /\ \A u \in Threads \ {t} : id'[u] = id[u] /\ helping'[u] = helping[u]

\* A step that only moves the frame.
LEMMA SameGo ==
  ASSUME InvA, NEW t \in Threads, NEW w, NEW h, NEW f, NEW s, NEW n, Here(t, w, h, f, s, n),
         NEW g \in Frames, Continue(t, g), Quiet(t), lg' = lg,
         Moves(f, g), f.pc \notin Calling, g.pc \notin Calling,
         g.pc \in WithOnly => prog.with, g.pc \in TryOnly => ~prog.with,
         g.pc \notin {"acquire", "recheck", "retire"},
         f.pc \in {"acquire", "recheck"} => (s # None /\ g.le = 0 => Safe(g.d)),
         FrameCur(t, g, s), FrameCount(g), id'[t] = TopId(t, g)'
  PROVE  InvA'
<1>1. h = Height(t) /\ f = stack[t][h] /\ s = Sec(t, h)
  BY DEF Here
<1>2. stack[t] # <<>> /\ f = Top(t) /\ f \in Frames /\ TypeOK
  BY DEF Here, InvA
<1>3. Conts(t, g) /\ stack' \in [Threads -> Seq(Frames)]
  BY <1>2, ContIs
<1>4. TypeOK'
  BY <1>2, <1>3, SameTypes DEF TypeOK, Quiet
<1>5. Alone(t)
  BY AloneStays DEF Quiet
<1>6. s # None /\ g.le = 0 => Safe(g.d)
  BY <1>1, <1>2, SafeHere DEF Moves
<1>7. HeapSame
  BY DEF Quiet
<1> QED
  BY <1>1, <1>2, <1>3, <1>4, <1>5, <1>6, <1>7, SameMove

\* The thread goes on with its own identity.
LEMMA PlainGo ==
  ASSUME InvA, NEW t \in Threads, NEW w, NEW h, NEW f, NEW s, NEW n, Here(t, w, h, f, s, n),
         NEW g \in Frames, Continue(t, g),
         UNCHANGED <<heapVars, poolVars, localVars, histVars>>,
         Moves(f, g), f.pc \notin Calling, g.pc \notin Calling,
         f.pc \notin Inherited, g.pc \notin Inherited,
         g.pc \in WithOnly => prog.with, g.pc \in TryOnly => ~prog.with,
         g.pc \notin {"acquire", "recheck", "retire"},
         f.pc \in {"acquire", "recheck"} => (s # None /\ g.le = 0 => Safe(g.d)),
         FrameCur(t, g, s), FrameCount(g)
  PROVE  InvA'
<1>1. h = Height(t) /\ f = stack[t][h] /\ s = Sec(t, h)
  BY DEF Here
<1>2. stack[t] # <<>> /\ f = Top(t) /\ f \in Frames /\ TypeOK
  BY DEF Here, InvA
<1>3. Quiet(t) /\ lg' = lg /\ id' = id
  BY <1>2 DEF Quiet, HeapSame, heapVars, poolVars, localVars, histVars, TypeOK
<1>4. TopId(t, g)' = id[t]
  <2>1. Rely({})
    BY <1>3, SameRely DEF Quiet
  <2>2. lg'[t].d = s
    BY <1>1, <1>2, <1>3, TopIn
  <2>3. calls'[t] = calls[t]
    BY <1>3 DEF Quiet
  <2> QED
    BY <1>1, <1>2, <2>1, <2>2, <2>3, IdStays
<1>5. id'[t] = TopId(t, g)'
  BY <1>3, <1>4
<1> QED
  BY <1>3, <1>5, SameGo

\* WithAgain keeps the invariant.
LEMMA WithAgainOK ==
  ASSUME InvA, NEW t \in Threads, WithAgain(t)
  PROVE  InvA'
<1>1. PICK h, f, s, n : Here(t, "again", h, f, s, n)
  BY HereIs DEF WithAgain
<1>2. f = Top(t) /\ f.pc = "again" /\ f \in Frames
  BY <1>1 DEF Here
<1>3. FrameShape(t, f, s, n) /\ FrameDesc(t, f, s) /\ FrameCount(f)
  BY <1>1 DEF Here
<1>4. PICK c : c = lck[f.lock]
  OBVIOUS
<1>5. PICK g : g = [f EXCEPT !.cur = c, !.pc = "count"]
  OBVIOUS
<1>6. f.lock \in Locks
  BY <1>2, FrameType
<1>7. /\ c \in Nat \cup Descriptors
      /\ c \in Nat => c > 0 /\ AtMost(f.lock, c)
      /\ c \in Descriptors => Held(c) /\ Known(c)
  BY <1>4, <1>6, LockWordOK
<1>8. g \in Frames /\ g.pc = "count" /\ Alike(f, g) /\ g.cur = c
  BY <1>2, <1>5, <1>7, PcNames DEF Frames, Alike
<1>9. Continue(t, g)
  BY <1>2, <1>4, <1>5 DEF WithAgain
<1>10. prog.with
  BY <1>2, <1>3, WithPath DEF WithOnly
<1>11. Moves(f, g)
  BY <1>2, <1>8, <1>10 DEF Moves, Alike, Sharing, Early, Storing
<1>12. FrameCur(t, g, s)
  BY <1>7, <1>8 DEF FrameCur, HelpIn, Inherited
<1>13. f.d \in Descriptors
  BY <1>3, <1>11, HasD DEF Moves
<1>14. FrameCount(g)
  BY <1>2, <1>3, <1>7, <1>8, <1>13, Consts DEF FrameCount, Storing, HasDesc, Early, Alike
<1>15. /\ f.pc \notin Calling \cup Inherited \cup {"acquire", "recheck"}
       /\ g.pc \notin Calling \cup Inherited \cup {"acquire", "recheck", "retire"} \cup TryOnly
  BY <1>2, <1>8 DEF Calling, Inherited, TryOnly
<1>16. UNCHANGED <<heapVars, poolVars, localVars, histVars>>
  BY DEF WithAgain
<1> QED
  BY <1>1, <1>8, <1>9, <1>10, <1>11, <1>12, <1>14, <1>15, <1>16, PlainGo

\* WithCount keeps the invariant.
LEMMA WithCountOK ==
  ASSUME InvA, NEW t \in Threads, WithCount(t)
  PROVE  InvA'
<1>1. PICK h, f, s, n : Here(t, "count", h, f, s, n)
  BY HereIs DEF WithCount
<1>2. f = Top(t) /\ f.pc = "count" /\ f \in Frames
  BY <1>1 DEF Here
<1>3. FrameShape(t, f, s, n) /\ FrameCur(t, f, s) /\ FrameDesc(t, f, s) /\ FrameCount(f)
  BY <1>1 DEF Here
<1>4. Sharing(f) /\ prog.with
  BY <1>2, <1>3, WithPath DEF WithOnly, Sharing, Early, Storing
<1>5. f.d \in Descriptors /\ desc[f.d].counter \in Nat
  BY <1>3, <1>4, HasD, DescType DEF InvA
<1>6. UNCHANGED <<heapVars, poolVars, localVars, histVars>>
  BY DEF WithCount
<1>7. f.cur \in Nat \cup Descriptors
  BY <1>2, <1>3 DEF FrameCount, Storing
<1>8. CASE ~IsLocked(f.cur) /\ desc[f.d].counter < f.cur
  <2>1. PICK c : c = desc[f.d].counter
    OBVIOUS
  <2>2. PICK g : g = [f EXCEPT !.old = c, !.pc = "raise"]
    OBVIOUS
  <2>3. g \in Frames /\ g.pc = "raise" /\ Alike(f, g) /\ g.cur = f.cur /\ g.old = c
    BY <1>2, <1>5, <2>1, <2>2, PcNames DEF Frames, Alike
  <2>4. Continue(t, g)
    BY <1>2, <1>8, <2>1, <2>2 DEF WithCount
  <2>5. Moves(f, g)
    BY <1>2, <1>4, <2>3 DEF Moves, Alike, Sharing, Early, Storing
  <2>6. FrameCur(t, g, s)
    BY <1>2, <1>3, <2>3 DEF FrameCur, HelpIn, Inherited, Storing
  <2>7. FrameCount(g)
    BY <1>2, <1>3, <1>5, <1>7, <1>8, <2>1, <2>3 DEF FrameCount, Storing, HasDesc, Early, Alike, IsLocked
  <2>8. /\ f.pc \notin Calling \cup Inherited \cup {"acquire", "recheck"}
        /\ g.pc \notin Calling \cup Inherited \cup {"acquire", "recheck", "retire"} \cup TryOnly
    BY <1>2, <2>3 DEF Calling, Inherited, TryOnly
  <2> QED
    BY <1>1, <1>4, <1>6, <2>3, <2>4, <2>5, <2>6, <2>7, <2>8, PlainGo
<1>9. CASE ~(~IsLocked(f.cur) /\ desc[f.d].counter < f.cur)
  <2>1. PICK g : g = [f EXCEPT !.pc = "test"]
    OBVIOUS
  <2>3. g \in Frames /\ g.pc = "test" /\ Alike(f, g) /\ g.cur = f.cur
    BY <1>2, <2>1, PcNames DEF Frames, Alike
  <2>4. Continue(t, g)
    BY <1>2, <1>9, <2>1 DEF WithCount
  <2>5. Moves(f, g)
    BY <1>2, <1>4, <2>3 DEF Moves, Alike, Sharing, Early, Storing
  <2>6. FrameCur(t, g, s)
    BY <1>2, <1>3, <2>3 DEF FrameCur, HelpIn, Inherited, Storing
  <2>7. FrameCount(g)
    BY <1>2, <1>3, <1>5, <1>7, <1>9, <2>3, Consts DEF FrameCount, Storing, HasDesc, Early, Alike, IsLocked
  <2>8. /\ f.pc \notin Calling \cup Inherited \cup {"acquire", "recheck"}
        /\ g.pc \notin Calling \cup Inherited \cup {"acquire", "recheck", "retire"} \cup TryOnly
    BY <1>2, <2>3 DEF Calling, Inherited, TryOnly
  <2> QED
    BY <1>1, <1>4, <1>6, <2>3, <2>4, <2>5, <2>6, <2>7, <2>8, PlainGo
<1> QED
  BY <1>8, <1>9

\* While a thread reads its outermost lock, no lock holds a descriptor of its own.
LEMMA RootLoads ==
  ASSUME InvA, NEW t \in Threads, NEW w, w \in {"load", "with"}, NEW h, NEW f, NEW n, Here(t, w, h, f, None, n),
         NEW e \in Descriptors, Installed(e)
  PROVE  desc[e].thread # t
<1>1. h \in Depth(t) /\ f = stack[t][h] /\ Sec(t, h) = None /\ f.pc \in {"load", "with"}
  BY DEF Here
<1>2. h = 1
  BY <1>1, InnerSections
<1>3. ~Sharing(stack[t][1])
  BY <1>1, <1>2 DEF Sharing, Early
<1>4. \E r : RootIs(e, desc[e].thread, r)
  BY DEF InvA, OwnersOK, RootOK
<1> QED
  BY <1>3, <1>4 DEF RootIs

\* A descriptor that holds or held the lock has the counter of its time.
LEMMA HeldMoved ==
  ASSUME InvA, ~prog.with, NEW d \in Descriptors, Held(d), NEW l \in Locks, desc[d].lock = l
  PROVE  Moved(l, desc[d].counter)
<1>1. CASE desc[d].done
  BY <1>1 DEF InvA, HeapOK, CountersOK
<1>2. CASE Installed(d)
  <2>1. PICK m \in Locks : lck[m] = d
    BY <1>2 DEF Installed
  <2>2. m = l
    BY <2>1 DEF InvA, HeapOK, LocksOK
  <2>3. desc[d].counter \in Nat
    BY DescType DEF InvA
  <2> QED
    BY <2>1, <2>2, <2>3 DEF Moved
<1> QED
  BY <1>1, <1>2 DEF Held

\* try_lock gives up on a lock that it found taken: it never tried itself.
LEMMA HelpOver ==
  ASSUME InvA, NEW t, NEW f \in Frames, NEW s, FrameDesc(t, f, s), FrameCur(t, f, s), f.pc \in HelpIn, ~prog.with
  PROVE  Over(f.d)
<1>1. HasDesc(f)
  BY DEF HasDesc, HelpIn, Early, Storing
<1>2. f.d \in Descriptors /\ desc[f.d].lock = f.lock /\ desc[f.d].counter = CounterOf(f)
  BY <1>1 DEF FrameDesc
<1>3. desc[f.d].counter = 0
  BY <1>2 DEF FrameCur, CounterOf, IsLocked
<1>4. ~Held(f.d)
  BY <1>2, <1>3 DEF InvA, HeapOK, CountersOK
<1>5. f.lock \in Locks
  BY FrameType
<1>6. Moved(f.lock, 0)
  <2>1. lck[f.lock] \in Nat \cup Descriptors /\ (lck[f.lock] \in Nat => lck[f.lock] > 0)
    BY <1>5 DEF InvA, TypeOK, HeapOK, LocksOK
  <2>2. lck[f.lock] \in Descriptors => desc[lck[f.lock]].counter \in Nat
    BY DescType DEF InvA
  <2> QED
    BY <2>1, <2>2 DEF Moved
<1> QED
  BY <1>2, <1>3, <1>4, <1>6 DEF Over, Held

\* After helping a call goes on as one that has not taken the lock.
LEMMA AfterHelpOK ==
  ASSUME InvA, NEW t, NEW f \in Frames, NEW s, NEW n, FrameShape(t, f, s, n), FrameDesc(t, f, s),
         FrameCur(t, f, s), FrameCount(f), f.pc \in HelpIn,
         NEW g, g.pc = AfterHelp, Alike(f, g), g.cur = f.cur
  PROVE  /\ FrameCur(t, g, s) /\ FrameCount(g) /\ Moves(f, g)
         /\ g.pc \in WithOnly => prog.with
         /\ g.pc \in {"again", "result"}
<1>1. g.pc \in {"again", "result"} /\ (g.pc = "again" <=> prog.with)
  BY DEF AfterHelp
<1>2. f.pc \notin Storing /\ HasDesc(f) /\ Sharing(f) /\ Sharing(g) /\ HasDesc(g)
  BY <1>1 DEF HelpIn, Storing, HasDesc, Sharing, Early
<1>3. FrameCur(t, g, s)
  BY <1>1, <1>2 DEF FrameCur, HelpIn, Inherited
<1>4. g.pc = "result" => Over(g.d)
  BY <1>1, HelpOver DEF Alike
<1>5. f.cur \in Nat \cup Descriptors
  BY <1>2 DEF FrameCur
<1>6. FrameCount(g)
  BY <1>1, <1>2, <1>4, <1>5 DEF FrameCount, Alike
<1> QED
  BY <1>1, <1>2, <1>3, <1>6 DEF Moves, Alike, WithOnly

\* Help keeps the invariant.
LEMMA HelpOK ==
  ASSUME InvA, NEW t \in Threads, Help(t)
  PROVE  InvA'
<1>1. PICK h, f, s, n : Here(t, "help", h, f, s, n)
  BY HereIs DEF Help
<1>2. f = Top(t) /\ f.pc = "help" /\ f \in Frames
  BY <1>1 DEF Here
<1>3. FrameShape(t, f, s, n) /\ FrameCur(t, f, s) /\ FrameDesc(t, f, s) /\ FrameCount(f)
  BY <1>1 DEF Here
<1>4. UNCHANGED <<heapVars, poolVars, localVars, histVars>>
  BY DEF Help
<1>5. PICK p : p = IF helping[t] \/ lck[f.lock] # f.cur THEN AfterHelp ELSE "help_id"
  OBVIOUS
<1>6. PICK g : g = [f EXCEPT !.pc = p]
  OBVIOUS
<1>7. p = AfterHelp \/ p = "help_id"
  BY <1>5
<1>8. p \in Pcs
  BY <1>7, PcNames DEF AfterHelp
<1>9. g \in Frames /\ g.pc = p /\ Alike(f, g) /\ g.cur = f.cur
  BY <1>2, <1>6, <1>8 DEF Frames, Alike
<1>10. Continue(t, g)
  BY <1>2, <1>5, <1>6 DEF Help, Goto
<1>11. f.pc \in HelpIn /\ f.pc \notin Calling \cup Inherited \cup {"acquire", "recheck"}
  BY <1>2 DEF HelpIn, Calling, Inherited
<1>12. CASE p = AfterHelp
  <2>1. /\ FrameCur(t, g, s) /\ FrameCount(g) /\ Moves(f, g)
        /\ g.pc \in WithOnly => prog.with
        /\ g.pc \in {"again", "result"}
    BY <1>2, <1>3, <1>9, <1>11, <1>12, AfterHelpOK
  <2>2. g.pc \notin Calling \cup Inherited \cup {"acquire", "recheck", "retire"} \cup TryOnly
    BY <2>1 DEF Calling, Inherited, TryOnly
  <2> QED
    BY <1>1, <1>4, <1>9, <1>10, <1>11, <2>1, <2>2, PlainGo
<1>13. CASE p = "help_id"
  <2>1. Moves(f, g)
    BY <1>2, <1>9, <1>13 DEF Moves, Alike, Sharing, Early, Storing
  <2>2. FrameCur(t, g, s)
    BY <1>2, <1>3, <1>9, <1>13 DEF FrameCur, HelpIn, Inherited, Storing
  <2>3. FrameCount(g)
    BY <1>2, <1>3, <1>9, <1>13 DEF FrameCount, Storing, HasDesc, Early, Alike
  <2>4. g.pc \notin Calling \cup Inherited \cup {"acquire", "recheck", "retire"} \cup TryOnly \cup WithOnly
    BY <1>9, <1>13 DEF Calling, Inherited, TryOnly, WithOnly
  <2> QED
    BY <1>1, <1>4, <1>9, <1>10, <1>11, <2>1, <2>2, <2>3, <2>4, PlainGo
<1> QED
  BY <1>7, <1>12, <1>13

\* A section has an identity.
LEMMA IdTyped ==
  ASSUME InvA, NEW t \in Threads, NEW w, NEW h, NEW f, NEW s, NEW n, Here(t, w, h, f, s, n)
  PROVE  IdIn(t, s) \in Threads
<1>1. s # None => s \in Descriptors /\ status[s] # "fresh"
  BY DEF Here, Guarded, InUse
<1> QED
  BY <1>1 DEF InvA, HeapOK, UsedFull, IdIn

\* HelpInherit keeps the invariant.
LEMMA HelpInheritOK ==
  ASSUME InvA, NEW t \in Threads, HelpInherit(t)
  PROVE  InvA'
<1>1. PICK h, f, s, n : Here(t, "help_id", h, f, s, n)
  BY HereIs DEF HelpInherit
<1>2. /\ f = Top(t) /\ f.pc = "help_id" /\ f \in Frames /\ TypeOK
      /\ h = Height(t) /\ f = stack[t][h] /\ s = Sec(t, h) /\ stack[t] # <<>>
  BY <1>1 DEF Here, InvA
<1>3. FrameShape(t, f, s, n) /\ FrameCur(t, f, s) /\ FrameDesc(t, f, s) /\ FrameCount(f)
  BY <1>1 DEF Here
<1>4. id[t] = IdIn(t, s) /\ id[t] \in Threads
  BY <1>1, <1>2, IdHere, IdTyped DEF Inherited
<1>5. PICK i : i = id[t]
  OBVIOUS
<1>6. PICK g : g = [f EXCEPT !.id = i, !.pc = "help_acquire"]
  OBVIOUS
<1>7. g \in Frames /\ g.pc = "help_acquire" /\ Alike(f, g) /\ g.cur = f.cur /\ g.id = i
  BY <1>2, <1>4, <1>5, <1>6, PcNames DEF Frames, Alike
<1>8. Continue(t, g)
  BY <1>2, <1>5, <1>6 DEF HelpInherit
<1>9. f.cur \in Descriptors /\ desc[f.cur].thread \in Threads
  BY <1>2, <1>3 DEF FrameCur, HelpIn, Storing, Known, InvA, HeapOK, UsedFull
<1>10. HeapSame /\ calls' = calls /\ x' = x /\ stores' = stores /\ made' = made /\ lg' = lg
       /\ helping' = helping /\ id' = [id EXCEPT ![t] = desc[f.cur].thread]
  BY <1>2 DEF HelpInherit, HeapSame, heapVars, poolVars, localVars, histVars
<1>11. Quiet(t)
  BY <1>2, <1>9, <1>10 DEF Quiet, TypeOK
<1>12. id'[t] = TopId(t, g)'
  BY <1>2, <1>7, <1>10 DEF TopId, Inherited, HeapSame, TypeOK
<1>13. Moves(f, g)
  BY <1>2, <1>7 DEF Moves, Alike, Sharing, Early, Storing
<1>14. FrameCur(t, g, s)
  BY <1>2, <1>3, <1>4, <1>5, <1>7 DEF FrameCur, HelpIn, Inherited, Storing
<1>15. FrameCount(g)
  BY <1>2, <1>3, <1>7 DEF FrameCount, Storing, HasDesc, Early, Alike
<1>16. /\ f.pc \notin Calling \cup {"acquire", "recheck"}
       /\ g.pc \notin Calling \cup {"acquire", "recheck", "retire"} \cup TryOnly \cup WithOnly
  BY <1>2, <1>7 DEF Calling, TryOnly, WithOnly
<1> QED
  BY <1>1, <1>7, <1>8, <1>10, <1>11, <1>12, <1>13, <1>14, <1>15, <1>16, SameGo

\* HelpCheck keeps the invariant when the lock has been released.
LEMMA HelpCheckStops ==
  ASSUME InvA, NEW t \in Threads, HelpCheck(t), lck[Top(t).lock] # Top(t).cur
  PROVE  InvA'
<1>1. PICK h, f, s, n : Here(t, "help_check", h, f, s, n)
  BY HereIs DEF HelpCheck
<1>2. /\ f = Top(t) /\ f.pc = "help_check" /\ f \in Frames /\ TypeOK
      /\ h = Height(t) /\ f = stack[t][h] /\ s = Sec(t, h) /\ stack[t] # <<>>
  BY <1>1 DEF Here, InvA
<1>3. FrameShape(t, f, s, n) /\ FrameCur(t, f, s) /\ FrameDesc(t, f, s) /\ FrameCount(f)
  BY <1>1 DEF Here
<1>4. f.id = IdIn(t, s) /\ f.id \in Threads
  BY <1>1, <1>2, <1>3, IdTyped DEF Inherited, FrameCur
<1>5. StopHelping(t, f) /\ UNCHANGED lg /\ UNCHANGED <<heapVars, poolVars, histVars>>
  BY <1>2 DEF HelpCheck
<1>6. PICK p : p = AfterHelp
  OBVIOUS
<1>7. PICK g : g = [f EXCEPT !.res = FALSE, !.id = None, !.pc = p]
  OBVIOUS
<1>8. p \in Pcs
  BY <1>6, PcNames DEF AfterHelp
<1>9. g \in Frames /\ g.pc = p /\ Alike(f, g) /\ g.cur = f.cur
  BY <1>2, <1>7, <1>8 DEF Frames, Alike
<1>10. Continue(t, g)
  BY <1>5, <1>6, <1>7 DEF StopHelping
<1>11. HeapSame /\ calls' = calls /\ x' = x /\ stores' = stores /\ made' = made /\ lg' = lg
       /\ helping' = [helping EXCEPT ![t] = FALSE] /\ id' = [id EXCEPT ![t] = f.id]
  BY <1>5 DEF StopHelping, HeapSame, heapVars, poolVars, histVars
<1>12. Quiet(t)
  BY <1>2, <1>4, <1>11 DEF Quiet, TypeOK
<1>13. f.pc \in HelpIn /\ f.pc \notin Calling \cup {"acquire", "recheck"}
  BY <1>2 DEF HelpIn, Calling
<1>14. /\ FrameCur(t, g, s) /\ FrameCount(g) /\ Moves(f, g)
       /\ g.pc \in WithOnly => prog.with
       /\ g.pc \in {"again", "result"}
  BY <1>2, <1>3, <1>6, <1>9, <1>13, AfterHelpOK
<1>15. g.pc \notin Calling \cup Inherited \cup {"acquire", "recheck", "retire"} \cup TryOnly
  BY <1>14 DEF Calling, Inherited, TryOnly
<1>16. id'[t] = TopId(t, g)'
  <2>1. lg'[t].d = s
    BY <1>2, <1>11, <1>13, TopIn
  <2>2. TopId(t, g)' = IdIn(t, s)'
    BY <1>15, <2>1 DEF TopId
  <2>3. IdIn(t, s)' = IdIn(t, s)
    BY <1>11 DEF IdIn, HeapSame
  <2> QED
    BY <1>2, <1>4, <1>11, <2>2, <2>3 DEF TypeOK
<1> QED
  BY <1>1, <1>9, <1>10, <1>11, <1>12, <1>13, <1>14, <1>15, <1>16, SameGo

\* TryCheck keeps the invariant when the lock was not taken.
LEMMA TryCheckFails ==
  ASSUME InvA, NEW t \in Threads, TryCheck(t), ~TookLock(Top(t))
  PROVE  InvA'
<1>1. PICK h, f, s, n : Here(t, "check", h, f, s, n)
  BY HereIs DEF TryCheck
<1>2. f = Top(t) /\ f.pc = "check" /\ f \in Frames
  BY <1>1 DEF Here
<1>3. FrameShape(t, f, s, n) /\ FrameCur(t, f, s) /\ FrameDesc(t, f, s) /\ FrameCount(f)
  BY <1>1 DEF Here
<1>4. UNCHANGED <<heapVars, poolVars, localVars, histVars>>
  BY <1>2 DEF TryCheck, localVars
<1>5. PICK g : g = [f EXCEPT !.pc = "result"]
  OBVIOUS
<1>6. g \in Frames /\ g.pc = "result" /\ Alike(f, g) /\ g.cur = f.cur
  BY <1>2, <1>5, PcNames DEF Frames, Alike
<1>7. Continue(t, g)
  BY <1>2, <1>5 DEF TryCheck, Goto
<1>8. Moves(f, g) /\ HasDesc(f) /\ ~prog.with
  BY <1>2, <1>3, <1>6, WithPath DEF Moves, Alike, Sharing, Early, Storing, HasDesc, TryOnly
<1>9. f.d \in Descriptors /\ desc[f.d].lock = f.lock /\ desc[f.d].counter = CounterOf(f)
  BY <1>3, <1>8 DEF FrameDesc
<1>10. f.cur \in Nat /\ (Held(f.d) \/ Moved(f.lock, f.cur))
  BY <1>2, <1>3 DEF FrameCount, Storing
<1>11. ~Held(f.d)
  <2>1. ~desc[f.d].done /\ lck[f.lock] # f.d
    BY <1>2 DEF TookLock
  <2>2. ASSUME NEW l \in Locks, lck[l] = f.d PROVE FALSE
    BY <1>9, <2>1, <2>2 DEF InvA, HeapOK, LocksOK
  <2> QED
    BY <2>1, <2>2 DEF Held, Installed
<1>12. desc[f.d].counter = f.cur
  BY <1>9, <1>10, Consts DEF CounterOf, IsLocked
<1>13. Over(f.d)
  BY <1>8, <1>9, <1>10, <1>11, <1>12 DEF Over, Held
<1>14. FrameCur(t, g, s)
  BY <1>2, <1>3, <1>6 DEF FrameCur, HelpIn, Inherited, Storing
<1>15. FrameCount(g)
  BY <1>2, <1>3, <1>6, <1>13 DEF FrameCount, Storing, HasDesc, Early, Alike
<1>16. /\ f.pc \notin Calling \cup Inherited \cup {"acquire", "recheck"}
       /\ g.pc \notin Calling \cup Inherited \cup {"acquire", "recheck", "retire"} \cup TryOnly \cup WithOnly
  BY <1>2, <1>6 DEF Calling, Inherited, TryOnly, WithOnly
<1> QED
  BY <1>1, <1>4, <1>6, <1>7, <1>8, <1>14, <1>15, <1>16, PlainGo

\* WithTest keeps the invariant when the lock is not taken yet.
LEMMA WithTestGoes ==
  ASSUME InvA, NEW t \in Threads, WithTest(t), ~(desc[Top(t).d].done \/ Top(t).cur = Top(t).d)
  PROVE  InvA'
<1>1. PICK h, f, s, n : Here(t, "test", h, f, s, n)
  BY HereIs DEF WithTest
<1>2. f = Top(t) /\ f.pc = "test" /\ f \in Frames
  BY <1>1 DEF Here
<1>3. FrameShape(t, f, s, n) /\ FrameCur(t, f, s) /\ FrameDesc(t, f, s) /\ FrameCount(f)
  BY <1>1 DEF Here
<1>4. UNCHANGED <<heapVars, poolVars, localVars, histVars>>
  BY <1>2 DEF WithTest, localVars
<1>5. PICK p : p = IF IsLocked(f.cur) THEN "help" ELSE "take"
  OBVIOUS
<1>6. PICK g : g = [f EXCEPT !.pc = p]
  OBVIOUS
<1>7. (p = "help" /\ f.cur \in Descriptors) \/ (p = "take" /\ f.cur \notin Descriptors)
  BY <1>5 DEF IsLocked
<1>8. p \in Pcs
  BY <1>7, PcNames
<1>9. g \in Frames /\ g.pc = p /\ Alike(f, g) /\ g.cur = f.cur
  BY <1>2, <1>6, <1>8 DEF Frames, Alike
<1>10. Continue(t, g)
  BY <1>2, <1>5, <1>6 DEF WithTest, Goto
<1>11. Moves(f, g) /\ HasDesc(f) /\ prog.with
  BY <1>2, <1>3, <1>7, <1>9, WithPath DEF Moves, Alike, Sharing, Early, Storing, HasDesc, WithOnly
<1>12. f.d \in Descriptors /\ desc[f.d].lock = f.lock
  BY <1>3, <1>11 DEF FrameDesc
<1>13. f.cur \in Nat \cup Descriptors /\ (f.cur \in Nat => f.cur <= desc[f.d].counter)
  BY <1>2, <1>3 DEF FrameCount, Storing
<1>14. Held(f.d) /\ f.cur \in Nat => Moved(f.lock, f.cur)
  <2>1. ~desc[f.d].done
    BY <1>2
  <2>2. ASSUME NEW l \in Locks, lck[l] = f.d PROVE l = f.lock
    BY <1>12, <2>2 DEF InvA, HeapOK, LocksOK
  <2> QED
    BY <1>12, <1>13, <2>1, <2>2 DEF Held, Installed, Moved
<1>15. FrameCur(t, g, s)
  BY <1>2, <1>3, <1>7, <1>9 DEF FrameCur, HelpIn, Inherited, Storing
<1>16. FrameCount(g)
  BY <1>2, <1>3, <1>7, <1>9, <1>13, <1>14 DEF FrameCount, Storing, HasDesc, Early, Alike
<1>17. /\ f.pc \notin Calling \cup Inherited \cup {"acquire", "recheck"}
       /\ g.pc \notin Calling \cup Inherited \cup {"acquire", "recheck", "retire"} \cup TryOnly
  BY <1>2, <1>7, <1>9 DEF Calling, Inherited, TryOnly
<1> QED
  BY <1>1, <1>4, <1>9, <1>10, <1>11, <1>15, <1>16, <1>17, PlainGo

\* WithCas keeps the invariant when the lock has changed.
LEMMA WithCasFails ==
  ASSUME InvA, NEW t \in Threads, WithCas(t), lck[Top(t).lock] # Top(t).cur
  PROVE  InvA'
<1>1. PICK h, f, s, n : Here(t, "take", h, f, s, n)
  BY HereIs DEF WithCas
<1>2. f = Top(t) /\ f.pc = "take" /\ f \in Frames
  BY <1>1 DEF Here
<1>3. FrameShape(t, f, s, n) /\ FrameCur(t, f, s) /\ FrameDesc(t, f, s) /\ FrameCount(f)
  BY <1>1 DEF Here
<1>4. UNCHANGED <<heapVars, poolVars, localVars, histVars>>
  BY <1>2 DEF WithCas, localVars, heapVars
<1>5. PICK g : g = [f EXCEPT !.pc = "again"]
  OBVIOUS
<1>6. g \in Frames /\ g.pc = "again" /\ Alike(f, g) /\ g.cur = f.cur
  BY <1>2, <1>5, PcNames DEF Frames, Alike
<1>7. Continue(t, g)
  BY <1>2, <1>5 DEF WithCas, Goto
<1>8. Moves(f, g) /\ prog.with
  BY <1>2, <1>3, <1>6, WithPath DEF Moves, Alike, Sharing, Early, Storing, WithOnly
<1>9. FrameCur(t, g, s)
  BY <1>2, <1>3, <1>6 DEF FrameCur, HelpIn, Inherited, Storing
<1>10. FrameCount(g)
  BY <1>2, <1>3, <1>6 DEF FrameCount, Storing, HasDesc, Early, Alike
<1>11. /\ f.pc \notin Calling \cup Inherited \cup {"acquire", "recheck"}
       /\ g.pc \notin Calling \cup Inherited \cup {"acquire", "recheck", "retire"} \cup TryOnly
  BY <1>2, <1>6 DEF Calling, Inherited, TryOnly
<1> QED
  BY <1>1, <1>4, <1>6, <1>7, <1>8, <1>9, <1>10, <1>11, PlainGo

\* Where a call inside a section looks for its descriptor.
LEMMA ForksHere ==
  ASSUME TypeOK, NEW t \in Threads, NEW f \in Frames, NEW s \in Descriptors, NEW n, FrameShape(t, f, s, n),
         f.pc \notin Storing \cup {"load", "self", "reentered"}, NEW i, i = Level(f, s)
  PROVE  i \in Levels(s) /\ Forks(s, i) /\ InsideShape(f, s, n, i)
<1>1. LockShape(t, f, s) /\ InsideShape(f, s, n, i)
  BY Consts DEF FrameShape
<1>2. i \in Levels(s)
  BY <1>1, LevelIn
<1>3. Forks(s, i)
  BY <1>1, <1>2, EntryFacts DEF Forks, InsideShape
<1> QED
  BY <1>1, <1>2, <1>3

\* Another run's descriptor, as long as it is in the log.
LEMMA ChildHere ==
  ASSUME InvA, NEW t \in Threads, NEW f \in Frames, NEW s \in Descriptors, NEW n, FrameShape(t, f, s, n),
         Sharing(f), FrameDesc(t, f, s), NEW i, i = Level(f, s), ~IsDone(ChildAt(s, i))
  PROVE  ChildAt(s, i) = Word(f.d) /\ f.d \in Descriptors /\ status[f.d] = "live" /\ HasChild(s, f.d)
<1>1. TypeOK /\ ChildrenOK
  BY DEF InvA, HeapOK
<1>2. f.pc \notin Storing \cup {"load", "self", "reentered"}
  BY DEF Sharing, Early
<1>3. i \in Levels(s) /\ Forks(s, i) /\ InsideShape(f, s, n, i)
  BY <1>1, <1>2, ForksHere
<1>4. ChildAt(s, i) = Word(f.d)
  BY <1>3 DEF InsideShape
<1>5. ChildAt(s, i)[2] = f.d /\ ChildAt(s, i) # Unset
  BY <1>4, EntryFacts
<1>6. ChildOK(s, i, f.d)
  BY <1>1, <1>3, <1>5 DEF ChildrenOK
<1> QED
  BY <1>3, <1>4, <1>6 DEF ChildOK, HasChild

\* TryRecheck keeps the invariant when the descriptor is still in the log: it
\* has been acquired in time.
LEMMA TryRecheckGoes ==
  ASSUME InvA, NEW t \in Threads, TryRecheck(t), ~IsDone(log[lg[t].d][lg[t].n])
  PROVE  InvA'
<1>1. PICK h, f, s, n : Here(t, "recheck", h, f, s, n)
  BY HereIs DEF TryRecheck
<1>2. /\ f = Top(t) /\ f.pc = "recheck" /\ f \in Frames
      /\ h = Height(t) /\ f = stack[t][h] /\ s = Sec(t, h) /\ n = Pos(t, h) /\ stack[t] # <<>> /\ h \in Depth(t)
  BY <1>1 DEF Here
<1>3. FrameShape(t, f, s, n) /\ FrameCur(t, f, s) /\ FrameDesc(t, f, s) /\ FrameCount(f)
  BY <1>1 DEF Here
<1>4. UNCHANGED <<heapVars, poolVars, localVars, histVars>>
  BY <1>2 DEF TryRecheck
<1>5. PICK p : p = Acquiring(f)
  OBVIOUS
<1>6. PICK g : g = [f EXCEPT !.pc = p]
  OBVIOUS
<1>7. \/ p = "count" /\ prog.with
      \/ p = "help" /\ ~prog.with /\ f.cur \in Descriptors
      \/ p = "cas" /\ ~prog.with /\ f.cur \notin Descriptors
  BY <1>5 DEF Acquiring, IsLocked
<1>8. p \in Pcs
  BY <1>7, PcNames
<1>9. g \in Frames /\ g.pc = p /\ Alike(f, g) /\ g.cur = f.cur
  BY <1>2, <1>6, <1>8 DEF Frames, Alike
<1>10. Continue(t, g)
  BY <1>2, <1>5, <1>6 DEF TryRecheck, Goto
<1>11. Moves(f, g) /\ HasDesc(f) /\ HasDesc(g)
  BY <1>2, <1>3, <1>7, <1>9 DEF Moves, Alike, Sharing, Early, Storing, HasDesc
<1>12. f.d \in Descriptors /\ desc[f.d].lock = f.lock /\ (~prog.with => desc[f.d].counter = CounterOf(f))
  BY <1>3, <1>11 DEF FrameDesc
<1>13. s # None /\ s \in Descriptors
  BY <1>1, <1>2, <1>3 DEF FrameShape, OutsideShape, Storing, Here
<1>14. PICK i : i = Level(f, s)
  OBVIOUS
<1>15. lg[t].d = s /\ lg[t].n = n
  BY <1>2, TopIn DEF Calling
<1>16. n = i + 1 + Off
  <2>1. InsideShape(f, s, n, i)
    BY <1>2, <1>3, <1>13, <1>14 DEF FrameShape, Storing
  <2> QED
    BY <1>11, <2>1 DEF InsideShape, Moves
<1>17. ~IsDone(ChildAt(s, i))
  BY <1>15, <1>16 DEF ChildAt
<1>18. f.le = 0 => Safe(f.d)
  <2>1. status[f.d] = "live"
    BY <1>2, <1>3, <1>11, <1>13, <1>14, <1>17, ChildHere DEF Moves
  <2>2. f.le = 0 => desc[f.d].acquired
    BY <1>2, <1>3, <1>11, <1>13, <1>14, <1>17 DEF FrameDesc, Moves
  <2> QED
    BY <2>1, <2>2 DEF Safe
<1>19. ~prog.reuse
  BY <1>2, <1>13, ReuseOutside DEF Storing
<1>20. f.cur \in Nat \cup Descriptors /\ (f.cur \in Descriptors => Held(f.cur))
  BY <1>2, <1>3, <1>19 DEF FrameCount, FrameCur, Known, Storing
<1>21. ~prog.with /\ f.cur \in Nat /\ Held(f.d) => Moved(f.lock, f.cur)
  <2>1. f.lock \in Locks
    BY <1>2, FrameType
  <2>2. ~prog.with /\ Held(f.d) => Moved(f.lock, desc[f.d].counter)
    BY <1>12, <2>1, HeldMoved
  <2> QED
    BY <1>12, <2>2, Consts DEF CounterOf, IsLocked
<1>22. FrameCur(t, g, s)
  BY <1>2, <1>3, <1>7, <1>9 DEF FrameCur, HelpIn, Inherited, Storing
<1>23. FrameCount(g)
  BY <1>2, <1>3, <1>7, <1>9, <1>11, <1>12, <1>20, <1>21, Consts DEF FrameCount, Storing, Alike
<1>24. /\ f.pc \notin Calling \cup Inherited
       /\ g.pc \notin Calling \cup Inherited \cup {"acquire", "recheck", "retire"}
       /\ g.pc \in WithOnly => prog.with
       /\ g.pc \in TryOnly => ~prog.with
  BY <1>2, <1>7, <1>9 DEF Calling, Inherited, TryOnly, WithOnly
<1>25. s # None /\ g.le = 0 => Safe(g.d)
  BY <1>9, <1>18 DEF Alike
<1> QED
  BY <1>1, <1>4, <1>9, <1>10, <1>11, <1>22, <1>23, <1>24, <1>25, PlainGo

\* Nothing but the thread's own call and its place in the log changes, and
\* perhaps an atomic.
Calm(t) ==
  /\ HeapSame /\ calls' = calls /\ id' = id /\ helping' = helping
  /\ x' \in [Locks -> Nat] /\ stores' \in [Locks -> Nat] /\ made' \in SUBSET (Threads \X Nat)
  /\ lg' \in [Threads -> Log] /\ \A u \in Threads \ {t} : lg'[u] = lg[u]

\* A step that changes nothing but the stack and the position of t in its log
\* keeps the types,
LEMMA CalmTypes ==
  ASSUME InvA, NEW t \in Threads, Calm(t), stack' \in [Threads -> Seq(Frames)]
  PROVE  TypeOK'
BY SameTypes DEF InvA, TypeOK, Calm

\* what is true of the heap,
LEMMA CalmHeap ==
  ASSUME InvA, NEW t \in Threads, Calm(t), TypeOK'
  PROVE  Rely({}) /\ HeapOK' /\ PoolKept /\ GivesBack(t)
BY SameRely, SameHeap, SamePool, SameGives DEF Calm, HeapSame

\* and the other threads.
LEMMA CalmAlone ==
  ASSUME NEW t \in Threads, Calm(t), lg'[t].d = None => lg'[t] = EmptyLog
  PROVE  Alone(t)
BY DEF Calm, Alone

\* It keeps positions in their blocks.
LEMMA SameBlock ==
  ASSUME HeapSame, NEW z, BlockOK(z)
  PROVE  BlockOK(z)'
BY DEF HeapSame, BlockOK

\* It keeps the invariant when the call goes on,
LEMMA CalmCont ==
  ASSUME InvA, NEW t \in Threads, NEW w, NEW h, NEW f, NEW s, NEW n, Here(t, w, h, f, s, n),
         NEW g \in Frames, Conts(t, g), stack' \in [Threads -> Seq(Frames)], Calm(t),
         lg'[t].d = s, NEW m, m = lg'[t].n, NewFrame(t, g, s, m),
         f.pc \notin Calling, g.pc \notin Calling, f.pc \notin Inherited, g.pc \notin Inherited,
         TopSame(f, g), g.pc # "retire",
         \A z : z = lg'[t] /\ z.d # None => BlockOK(z),
         lg'[t].new => AtEnd(t)' /\ g.pc \in Extending,
         lg'[t].d = None => lg'[t] = EmptyLog
  PROVE  InvA'
<1>1. h = Height(t) /\ f = stack[t][h] /\ s = Sec(t, h) /\ stack[t] # <<>> /\ TypeOK
  BY DEF Here, InvA
<1>3. TypeOK'
  BY CalmTypes
<1>4. Rely({}) /\ HeapOK' /\ PoolKept /\ GivesBack(t) /\ HeapSame
  BY <1>3, CalmHeap DEF Calm
<1>5. Alone(t) /\ calls'[t] = calls[t] /\ id'[t] = id[t]
  BY CalmAlone DEF Calm
<1>6. NewFrame(t, g, s, m)'
  <2>1. FrameShape(t, g, s, m) /\ FrameCur(t, g, s) /\ FrameDesc(t, g, s) /\ FrameCount(g)
    BY DEF NewFrame
  <2>2. FrameShape(t, g, s, m)' /\ FrameCur(t, g, s)' /\ FrameDesc(t, g, s)' /\ FrameCount(g)'
    BY <1>4, <1>5, <2>1, SameParts
  <2> QED
    BY <2>2 DEF NewFrame
<1>7. \A z : z = lg'[t] /\ z.d # None => BlockOK(z)'
  BY <1>4, SameBlock
<1>8. TopId(t, g)' = id[t]
  BY <1>1, <1>4, <1>5, IdStays
<1>9. id'[t] = TopId(t, g)'
  BY <1>5, <1>8
<1>10. StackOK'
  BY <1>1, <1>3, <1>4, <1>5, <1>6, <1>7, <1>9, ContStack
<1>11. OwnersOK'
  BY <1>1, <1>3, <1>4, <1>5, <1>6, ContOwners
<1> QED
  BY <1>3, <1>4, <1>10, <1>11 DEF InvA

\* when it returns,
LEMMA CalmPop ==
  ASSUME InvA, NEW t \in Threads, NEW w, NEW h, NEW f, NEW s, NEW n, Here(t, w, h, f, s, n),
         NEW r, Pops(t, r), stack' \in [Threads -> Seq(Frames)], Calm(t),
         lg'[t].d = s, f.pc \notin Inherited \cup {"ran"}, ~Owner(t, h),
         \A z : z = lg'[t] /\ z.d # None => BlockOK(z),
         ~lg'[t].new, lg'[t].d = None => lg'[t] = EmptyLog, s # None => Settled(s)
  PROVE  InvA'
<1>1. h = Height(t) /\ f = stack[t][h] /\ s = Sec(t, h) /\ stack[t] # <<>> /\ TypeOK
  BY DEF Here, InvA
<1>3. TypeOK'
  BY CalmTypes
<1>4. Rely({}) /\ HeapOK' /\ PoolKept /\ GivesBack(t) /\ HeapSame
  BY <1>3, CalmHeap DEF Calm
<1>5. Alone(t) /\ calls'[t] = calls[t] /\ id'[t] = id[t]
  BY CalmAlone DEF Calm
<1>7. \A z : z = lg'[t] /\ z.d # None => BlockOK(z)'
  BY <1>4, SameBlock
<1>8. h = 1 => id'[t] = t
  <2>1. id[t] = IdIn(t, s)
    BY <1>1, IdHere
  <2>2. h = 1 => s = None
    BY <1>1 DEF InvA, StackOK, SectionsNest
  <2> QED
    BY <1>5, <2>1, <2>2 DEF IdIn
<1>9. s # None => Settled(s)'
  <2>1. s # None => s \in Descriptors
    BY DEF Here
  <2> QED
    BY <1>4, <2>1, SettledKept
<1>10. StackOK'
  BY <1>1, <1>3, <1>4, <1>5, <1>7, <1>9, PopStackOK
<1>11. OwnersOK'
  BY <1>1, <1>3, <1>4, <1>5, <1>8, PopOwners
<1> QED
  BY <1>3, <1>4, <1>10, <1>11 DEF InvA

\* and when it calls a section.
LEMMA CalmPush ==
  ASSUME InvA, NEW t \in Threads, NEW w, NEW h, NEW f, NEW s, NEW n, Here(t, w, h, f, s, n),
         NEW c, NEW g, Pushes(t, c, g), TypeOK', Rely({}), HeapOK', PoolKept, GivesBack(t), Alone(t),
         c.pc \in Calling, g.pc \notin Calling, c.lg.d = s, c.lg.n = n, NewFrame(t, c, s, n)',
         NEW e, e = lg'[t].d, Inner(c) = e, NEW m, m = lg'[t].n, e # None => Guarded(t, h + 1, e)',
         NewFrame(t, g, e, m)',
         id'[t] = TopId(t, g)',
         \A z : z = lg'[t] /\ z.d # None => BlockOK(z)',
         lg'[t].new => AtEnd(t)' /\ g.pc \in Extending,
         c.pc # "reentered" => \A z : z = c.lg => LgOK(z)',
         TopSame(f, c), ~HasDesc(g)
  PROVE  InvA'
<1>1. h = Height(t) /\ f = stack[t][h] /\ s = Sec(t, h) /\ stack[t] # <<>> /\ TypeOK
  BY DEF Here, InvA
<1>2. PICK k : k = c.lg.n
  OBVIOUS
<1>3. NewFrame(t, c, s, k)'
  BY <1>2
<1>10. StackOK'
  BY <1>1, <1>2, <1>3, PushStack
<1>11. OwnersOK'
  BY <1>1, <1>2, <1>3, PushOwners
<1> QED
  BY <1>10, <1>11 DEF InvA

\* The log and the position of the innermost frame.
LEMMA LgHere ==
  ASSUME InvA, NEW t \in Threads, NEW w, NEW h, NEW f, NEW s, NEW n, Here(t, w, h, f, s, n),
         f.pc \notin {"ran", "helped"}
  PROVE  /\ lg[t].d = s /\ (f.pc # "reentered" => lg[t].n = n)
         /\ \A z : z = lg[t] /\ z.d # None => BlockOK(z)
         /\ f.pc \notin Extending => ~lg[t].new
         /\ lg[t].new => AtEnd(t)
         /\ lg[t].d = None => lg[t] = EmptyLog
         /\ lg[t] \in Log
<1>1. h = Height(t) /\ f = stack[t][h] /\ s = Sec(t, h) /\ stack[t] # <<>> /\ f = Top(t) /\ n = Pos(t, h)
  BY DEF Here
<1>2. lg[t].d = s /\ (f.pc # "reentered" => lg[t].n = n)
  BY <1>1, TopIn DEF Calling, Inner
<1> QED
  BY <1>1, <1>2 DEF InvA, TypeOK, StackOK, BlocksOK, SectionsNest

\* A step that leaves the log where it is.
LEMMA CalmStays ==
  ASSUME InvA, NEW t \in Threads, UNCHANGED <<heapVars, poolVars, localVars, prog, calls, callOf, made>>,
         stores' \in [Locks -> Nat]
  PROVE  Calm(t) /\ lg' = lg
BY DEF Calm, InvA, TypeOK, HeapSame, heapVars, poolVars, localVars

\* A step without a commit that goes on keeps the invariant,
LEMMA StayCont ==
  ASSUME InvA, NEW t \in Threads, NEW w, NEW h, NEW f, NEW s, NEW n, Here(t, w, h, f, s, n),
         NEW g \in Frames, Continue(t, g), Calm(t), lg' = lg, NewFrame(t, g, s, n),
         f.pc \notin Calling, g.pc \notin Calling, f.pc \notin Inherited, g.pc \notin Inherited,
         f.pc \notin Extending, TopSame(f, g), g.pc # "retire"
  PROVE  InvA'
<1>1. stack[t] # <<>> /\ TypeOK
  BY DEF Here, InvA
<1>2. Conts(t, g) /\ stack' \in [Threads -> Seq(Frames)]
  BY <1>1, ContIs
<1>3. /\ lg'[t].d = s /\ n = lg'[t].n
      /\ \A z : z = lg'[t] /\ z.d # None => BlockOK(z)
      /\ ~lg'[t].new
      /\ lg'[t].d = None => lg'[t] = EmptyLog
  BY LgHere DEF Calling
<1> QED
  BY <1>2, <1>3, CalmCont

\* and so does one that returns.
LEMMA StayPop ==
  ASSUME InvA, NEW t \in Threads, NEW w, NEW h, NEW f, NEW s, NEW n, Here(t, w, h, f, s, n),
         NEW r, r \in BOOLEAN, Return(t, r), UNCHANGED <<heapVars, poolVars, localVars>>,
         f.pc \notin Inherited \cup {"ran"}, f.pc \notin Extending, ~Owner(t, h),
         s # None => Settled(s)
  PROVE  InvA'
<1>1. stack[t] # <<>> /\ TypeOK
  BY DEF Here, InvA
<1>2. /\ Pops(t, r) /\ stack' \in [Threads -> Seq(Frames)]
      /\ stores' \in [Locks -> Nat] /\ prog' = prog /\ calls' = calls /\ callOf' = callOf /\ made' = made
  BY <1>1, PopIs
<1>3. Calm(t) /\ lg' = lg
  BY <1>2, CalmStays
<1>4. /\ lg'[t].d = s
      /\ \A z : z = lg'[t] /\ z.d # None => BlockOK(z)
      /\ ~lg'[t].new
      /\ lg'[t].d = None => lg'[t] = EmptyLog
  BY <1>3, LgHere DEF Inherited
<1> QED
  BY <1>2, <1>3, <1>4, CalmPop

\* WithRead keeps the invariant.
LEMMA WithReadOK ==
  ASSUME InvA, NEW t \in Threads, WithRead(t)
  PROVE  InvA'
<1>1. PICK h, f, s, n : Here(t, "with", h, f, s, n)
  BY HereIs DEF WithRead
<1>2. f = Top(t) /\ f.pc = "with" /\ f \in Frames
  BY <1>1 DEF Here
<1>3. FrameShape(t, f, s, n) /\ FrameDesc(t, f, s) /\ FrameCount(f)
  BY <1>1 DEF Here
<1>4. PICK c : c = lck[f.lock]
  OBVIOUS
<1>5. PICK g : g = [f EXCEPT !.cur = c, !.pc = "alloc"]
  OBVIOUS
<1>6. f.lock \in Locks
  BY <1>2, FrameType
<1>7. /\ c \in Nat \cup Descriptors
      /\ c \in Nat => c > 0 /\ AtMost(f.lock, c)
      /\ c \in Descriptors => Held(c) /\ Known(c)
  BY <1>4, <1>6, LockWordOK
<1>8. g \in Frames /\ g.pc = "alloc" /\ Alike(f, g) /\ g.cur = c
  BY <1>2, <1>5, <1>7, PcNames DEF Frames, Alike
<1>9. Continue(t, g)
  BY <1>2, <1>4, <1>5 DEF WithRead
<1>10. prog.with /\ Off = 0
  BY <1>2, <1>3, WithPath DEF WithOnly, Off
<1>11. ~Sharing(g) /\ ~Sharing(f) /\ ~HasDesc(g) /\ g.pc \notin Storing /\ f.pc \notin Storing
  BY <1>2, <1>8 DEF Sharing, HasDesc, Early, Storing
<1>12. FrameShape(t, g, s, n)
  <2>1. LockShape(t, g, s)
    BY <1>2, <1>3, <1>8, <1>11 DEF FrameShape, LockShape, Alike, WithOnly, TryOnly
  <2>2. s = None => OutsideShape(t, g)
    BY <1>2, <1>3, <1>8, <1>11 DEF FrameShape, OutsideShape, Alike
  <2>3. s # None => InsideShape(g, s, n, Level(g, s))
    <3>1. PICK i : i = Level(f, s)
      OBVIOUS
    <3>2. i = Level(g, s)
      BY <1>8, <3>1 DEF Level, Alike
    <3>3. s # None => InsideShape(f, s, n, i)
      BY <1>3, <1>11, <3>1 DEF FrameShape
    <3>4. s # None => InsideShape(g, s, n, i) /\ i = 0
      BY <1>2, <1>8, <1>10, <1>11, <3>3 DEF InsideShape, Alike
    <3> QED
      BY <3>2, <3>4
  <2> QED
    BY <1>11, <2>1, <2>2, <2>3 DEF FrameShape
<1>13. FrameCur(t, g, s)
  <2>1. s = None /\ c \in Descriptors => desc[c].thread # t
    BY <1>1, <1>4, <1>6, RootLoads DEF Installed
  <2> QED
    BY <1>7, <1>8, <2>1 DEF FrameCur, HelpIn, Inherited
<1>14. FrameCount(g)
  BY <1>7, <1>8, <1>11 DEF FrameCount, Alike
<1>15. FrameDesc(t, g, s)
  BY <1>11 DEF FrameDesc
<1>16. TopSame(f, g)
  BY <1>2, <1>8, <1>11 DEF TopSame
<1>17. f.pc \notin Calling \cup Inherited \cup Extending /\ g.pc \notin Calling \cup Inherited \cup {"retire"}
  BY <1>2, <1>8 DEF Calling, Inherited, Extending
<1>18. Calm(t) /\ lg' = lg
  BY CalmStays DEF WithRead, histVars, InvA, TypeOK
<1> QED
  BY <1>1, <1>8, <1>9, <1>12, <1>13, <1>14, <1>15, <1>16, <1>17, <1>18, StayCont DEF NewFrame

\* TryReentered keeps the invariant.
LEMMA TryReenteredOK ==
  ASSUME InvA, NEW t \in Threads, TryReentered(t)
  PROVE  InvA'
<1>1. PICK h, f, s, n : Here(t, "reentered", h, f, s, n)
  BY HereIs DEF TryReentered
<1>2. f = Top(t) /\ f.pc = "reentered" /\ f \in Frames /\ f = stack[t][h]
  BY <1>1 DEF Here
<1>3. PICK r : r = f.res
  OBVIOUS
<1>4. r \in BOOLEAN /\ Return(t, r) /\ UNCHANGED <<heapVars, poolVars, localVars>>
  BY <1>2, <1>3, FrameType DEF TryReentered
<1>5. ~Owner(t, h)
  BY <1>2 DEF Owner, Sharing, Early
<1>6. f.pc \notin Inherited \cup {"ran"} \cup Extending
  BY <1>2 DEF Inherited, Extending
<1>7. s = lg[t].d
  BY <1>1, <1>2, LgHere
<1>8. Settled(s)
  <2>1. stack[t] # <<>> /\ Top(t).pc \in Calling
    BY <1>1, <1>2 DEF Here, Calling
  <2> QED
    BY <1>7, <2>1 DEF InvA, StackOK, Returned
<1> QED
  BY <1>1, <1>4, <1>5, <1>6, <1>8, StayPop

\* TryRecheck keeps the invariant when the call is over.
LEMMA TryRecheckReturns ==
  ASSUME InvA, NEW t \in Threads, TryRecheck(t), IsDone(log[lg[t].d][lg[t].n])
  PROVE  InvA'
<1>1. PICK h, f, s, n : Here(t, "recheck", h, f, s, n)
  BY HereIs DEF TryRecheck
<1>2. f = Top(t) /\ f.pc = "recheck" /\ f \in Frames /\ f = stack[t][h] /\ FrameShape(t, f, s, n) /\ s = Sec(t, h)
  BY <1>1 DEF Here
<1>3. PICK r : r = log[lg[t].d][lg[t].n][2]
  OBVIOUS
<1>4. Return(t, r) /\ UNCHANGED <<heapVars, poolVars, localVars>>
  BY <1>2, <1>3 DEF TryRecheck
<1>5. lg[t].d = s /\ lg[t].n = n
  BY <1>1, <1>2, LgHere
<1>6. s # None /\ s \in Descriptors
  BY <1>1, <1>2 DEF FrameShape, OutsideShape, Storing, Here
<1>7. PICK i : i = Level(f, s)
  OBVIOUS
<1>8. InsideShape(f, s, n, i) /\ i \in Levels(s)
  <2>1. f.pc \notin Storing \cup {"load", "self", "reentered"}
    BY <1>2 DEF Storing
  <2> QED
    BY <1>2, <1>6, <1>7, <2>1, ForksHere DEF InvA
<1>9. n = i + 1 + Off
  BY <1>2, <1>8 DEF InsideShape, Sharing, Early, Storing
<1>10. n \in 1 .. LogLen
  BY <1>6, <1>8, <1>9, FitsLog DEF InvA, HeapOK
<1>11. log[s][n] \in Entries
  BY <1>6, <1>10, DescType DEF InvA
<1>12. r \in BOOLEAN
  BY <1>3, <1>5, <1>11, EntryKinds, EntryFacts
<1>13. ~Owner(t, h)
  BY <1>2, <1>6, <1>8 DEF Owner, InsideShape
<1>14. f.pc \notin Inherited \cup {"ran"} \cup Extending
  BY <1>2 DEF Inherited, Extending
<1>15. Settled(s)
  <2>1. f.pc \notin Storing \cup {"load", "self", "reentered"}
    BY <1>2 DEF Storing
  <2>2. Forks(s, i)
    BY <1>2, <1>6, <1>7, <2>1, ForksHere DEF InvA
  <2>3. IsDone(ChildAt(s, i))
    BY <1>5, <1>9 DEF ChildAt
  <2> QED
    BY <1>8, <2>2, <2>3 DEF Settled, ChildDone
<1> QED
  BY <1>1, <1>4, <1>12, <1>13, <1>14, <1>15, StayPop

\* How the block of an entry grows.
LEMMA Blocks ==
  ASSUME NEW n \in Nat
  PROVE  /\ n \div BlockLen \in Nat /\ n \div BlockLen <= n
         /\ n \div BlockLen <= (n + 1) \div BlockLen
         /\ (n + 1) \div BlockLen \in Nat
         /\ (n + 1) \div BlockLen <= n \div BlockLen + 1
BY LogLenAssumption

\* A lock that is not one's own is not entered again.
LEMMA TrySelfGoes ==
  ASSUME InvA, NEW t \in Threads, TrySelf(t), ~OwnLock(t, Top(t).cur)
  PROVE  InvA'
<1>1. PICK h, f, s, n : Here(t, "self", h, f, s, n)
  BY HereIs DEF TrySelf
<1>2. /\ f = Top(t) /\ f.pc = "self" /\ f \in Frames /\ h = Height(t) /\ f = stack[t][h] /\ s = Sec(t, h)
      /\ stack[t] # <<>> /\ s \in Descriptors \cup {None}
  BY <1>1 DEF Here
<1>3. FrameShape(t, f, s, n) /\ FrameCur(t, f, s) /\ FrameCount(f)
  BY <1>1 DEF Here
<1>4. PICK g : g = [f EXCEPT !.pc = "alloc"]
  OBVIOUS
<1>5. g \in Frames /\ g.pc = "alloc" /\ Alike(f, g) /\ g.cur = f.cur
  BY <1>2, <1>4, PcNames DEF Frames, Alike
<1>6. Continue(t, g)
  BY <1>2, <1>4 DEF TrySelf, Goto
<1>7. ~prog.with /\ Off = 1
  BY <1>2, <1>3, WithPath DEF TryOnly, Off
<1>8. ~Sharing(g) /\ ~Sharing(f) /\ ~HasDesc(g) /\ g.pc \notin Storing /\ f.pc \notin Storing
  BY <1>2, <1>5 DEF Sharing, HasDesc, Early, Storing
<1>9. FrameShape(t, g, s, n)
  <2>1. LockShape(t, g, s)
    BY <1>2, <1>3, <1>5, <1>8 DEF FrameShape, LockShape, Alike, WithOnly, TryOnly
  <2>2. s = None => OutsideShape(t, g)
    BY <1>2, <1>3, <1>5, <1>8 DEF FrameShape, OutsideShape, Alike
  <2>3. s # None => InsideShape(g, s, n, Level(g, s))
    <3>1. PICK i : i = Level(f, s)
      OBVIOUS
    <3>2. i = Level(g, s)
      BY <1>5, <3>1 DEF Level, Alike
    <3>3. s # None => InsideShape(f, s, n, i)
      BY <1>3, <1>8, <3>1 DEF FrameShape
    <3>4. s # None => log[s][i + 1] = Word(f.cur)
      BY <1>2, <1>7, <3>3 DEF InsideShape
    <3>5. s # None => ~Own(s, i + 1)
      <4>1. id[t] = IdIn(t, s)
        BY <1>2, IdHere DEF Inherited
      <4> QED
        BY <1>2, <3>4, <4>1, EntryFacts DEF Own, OwnLock, IsLocked, IdIn
    <3>6. s # None => InsideShape(g, s, n, i)
      BY <1>2, <1>5, <1>7, <1>8, <3>3, <3>5 DEF InsideShape, Alike
    <3> QED
      BY <3>2, <3>6
  <2> QED
    BY <1>8, <2>1, <2>2, <2>3 DEF FrameShape
<1>10. FrameCur(t, g, s)
  BY <1>2, <1>3, <1>5 DEF FrameCur, HelpIn, Inherited, Storing
<1>11. FrameCount(g)
  BY <1>2, <1>3, <1>5, <1>8 DEF FrameCount, Alike
<1>12. FrameDesc(t, g, s)
  BY <1>8 DEF FrameDesc
<1>13. TopSame(f, g)
  BY <1>2, <1>5, <1>8 DEF TopSame
<1>14. f.pc \notin Calling \cup Inherited \cup Extending /\ g.pc \notin Calling \cup Inherited \cup {"retire"}
  BY <1>2, <1>5 DEF Calling, Inherited, Extending
<1>15. Calm(t) /\ lg' = lg
  BY CalmStays DEF TrySelf, histVars, InvA, TypeOK
<1> QED
  BY <1>1, <1>5, <1>6, <1>9, <1>10, <1>11, <1>12, <1>13, <1>14, <1>15, StayCont DEF NewFrame

\* What a step inside a store leaves.
LEMMA StoreFrame ==
  ASSUME NEW t, NEW f, NEW s, NEW n, FrameShape(t, f, s, n), f.pc \in Storing, NEW g, Alike(f, g), g.cur = f.cur,
         f.pc # "get", NEW m,
         \/ g.pc \in {"store", "mark"} /\ m = Size(s) + 2
         \/ g.pc = "skip" /\ m = Size(s) + 1
  PROVE  NewFrame(t, g, s, m) /\ TopSame(f, g)
<1>1. g.pc \in Storing /\ ~HasDesc(g) /\ ~Sharing(g) /\ ~Sharing(f) /\ g.pc \notin HelpIn \cup Inherited
  BY DEF Storing, HasDesc, Sharing, HelpIn, Inherited
<1>2. StoreShape(f, s, n)
  BY DEF FrameShape
<1>3. StoreShape(g, s, m)
  BY <1>1, <1>2 DEF StoreShape, Alike
<1>4. FrameShape(t, g, s, m)
  BY <1>1, <1>3 DEF FrameShape
<1>5. FrameCur(t, g, s)
  BY <1>1 DEF FrameCur, HelpIn, Inherited
<1>6. FrameDesc(t, g, s) /\ FrameCount(g)
  BY <1>1 DEF FrameDesc, FrameCount
<1>7. TopSame(f, g)
  BY <1>1 DEF TopSame, Storing
<1> QED
  BY <1>4, <1>5, <1>6, <1>7 DEF NewFrame

\* A store is made inside of a section.
LEMMA StoreSection ==
  ASSUME InvA, NEW t \in Threads, NEW w, NEW h, NEW f, NEW s, NEW n, Here(t, w, h, f, s, n), f.pc \in Storing
  PROVE  /\ s \in Descriptors /\ s # None /\ StoreShape(f, s, n) /\ desc[s].thread \in Threads /\ Held(s)
         /\ Size(s) \in Nat /\ Size(s) + 1 \in 1 .. LogLen /\ Size(s) + 2 \in 1 .. LogLen
<1>1. s # None /\ StoreShape(f, s, n) /\ s \in Descriptors /\ Guarded(t, h, s)
  BY DEF Here, FrameShape, StoreShape
<1>2. desc[s].thread \in Threads
  BY <1>1 DEF Guarded, InUse, InvA, HeapOK, UsedFull
<1>3. Size(s) \in Nat /\ Size(s) + 1 \in 1 .. LogLen /\ Size(s) + 2 \in 1 .. LogLen
  BY <1>1, FitsLog DEF InvA, HeapOK
<1> QED
  BY <1>1, <1>2, <1>3 DEF Guarded

\* StoreCas keeps the invariant.
LEMMA StoreCasOK ==
  ASSUME InvA, NEW t \in Threads, StoreCas(t)
  PROVE  InvA'
<1>1. PICK h, f, s, n : Here(t, "store", h, f, s, n)
  BY HereIs DEF StoreCas
<1>2. /\ f = Top(t) /\ f.pc = "store" /\ f \in Frames /\ f.pc \in Storing /\ FrameShape(t, f, s, n)
  BY <1>1 DEF Here, Storing
<1>3. s \in Descriptors /\ s # None /\ StoreShape(f, s, n) /\ desc[s].thread \in Threads
  BY <1>1, <1>2, StoreSection
<1>4. f.cur \in Nat /\ n = Size(s) + 2
  BY <1>2, <1>3 DEF StoreShape
<1>5. PICK g : g = [f EXCEPT !.pc = "mark"]
  OBVIOUS
<1>6. g \in Frames /\ g.pc = "mark" /\ Alike(f, g) /\ g.cur = f.cur
  BY <1>2, <1>5, PcNames DEF Frames, Alike
<1>7. Continue(t, g)
  BY <1>2, <1>5 DEF StoreCas, Goto
<1>8. NewFrame(t, g, s, n) /\ TopSame(f, g)
  BY <1>2, <1>4, <1>6, StoreFrame
<1>9. lg[t].d = s
  BY <1>1, <1>2, LgHere
<1>10. x' \in [Locks -> Nat]
  <2>1. x \in [Locks -> Nat]
    BY DEF InvA, TypeOK
  <2>2. x' = x \/ x' = [x EXCEPT ![f.lock] = f.cur + 1]
    BY <1>2 DEF StoreCas
  <2> QED
    BY <1>4, <2>1, <2>2
<1>11. made' \in SUBSET (Threads \X Nat)
  <2>1. made \in SUBSET (Threads \X Nat) /\ callOf[s] \in Nat
    BY <1>3, DescType DEF InvA, TypeOK
  <2>2. CallId(s) \in Threads \X Nat
    BY <1>3, <2>1 DEF CallId
  <2>3. made' = made \/ made' = made \cup {CallId(s)}
    BY <1>2, <1>9 DEF StoreCas
  <2> QED
    BY <2>1, <2>2, <2>3
<1>12. Calm(t) /\ lg' = lg
  BY <1>10, <1>11 DEF StoreCas, Calm, HeapSame, poolVars, localVars, InvA, TypeOK
<1>13. f.pc \notin Calling \cup Inherited \cup Extending /\ g.pc \notin Calling \cup Inherited \cup {"retire"}
  BY <1>2, <1>6 DEF Calling, Inherited, Extending
<1> QED
  BY <1>1, <1>6, <1>7, <1>8, <1>12, <1>13, StayCont

\* The next entry of a log, once it is known to be there.
LEMMA NextEntryOK ==
  ASSUME InvA, NEW g \in Log, g.d \in Descriptors, BlockOK(g), ~(g.n \div BlockLen > g.block),
         g.n + 1 <= LogLen, NEW z, z = [g EXCEPT !.n = @ + 1]
  PROVE  z \in Log /\ z.d = g.d /\ z.n = g.n + 1 /\ z.block = g.block /\ z.new = g.new /\ BlockOK(z)
<1>1. g.n \in Nat /\ g.block \in Nat
  BY LogType
<1>2. z \in Log /\ z.d = g.d /\ z.n = g.n + 1 /\ z.block = g.block /\ z.new = g.new
  BY <1>1, Consts DEF Log
<1>3. z.block <= z.n \div BlockLen
  BY <1>1, <1>2, Blocks DEF BlockOK
<1>4. (z.n - 1) \div BlockLen <= z.block
  BY <1>1, <1>2, Blocks
<1> QED
  BY <1>1, <1>2, <1>3, <1>4 DEF BlockOK

\* StoreSkip keeps the invariant.
LEMMA StoreSkipOK ==
  ASSUME InvA, NEW t \in Threads, StoreSkip(t)
  PROVE  InvA'
<1>1. PICK h, f, s, n : Here(t, "skip", h, f, s, n)
  BY HereIs DEF StoreSkip
<1>2. /\ f = Top(t) /\ f.pc = "skip" /\ f \in Frames /\ f.pc \in Storing /\ FrameShape(t, f, s, n)
      /\ stack[t] # <<>> /\ f = stack[t][h] /\ TypeOK
  BY <1>1 DEF Here, Storing, InvA
<1>3. s \in Descriptors /\ s # None /\ StoreShape(f, s, n) /\ Size(s) \in Nat /\ Size(s) + 2 \in 1 .. LogLen
  BY <1>1, <1>2, StoreSection
<1>4. n = Size(s) + 1
  BY <1>2, <1>3 DEF StoreShape
<1>5. /\ lg[t].d = s /\ lg[t].n = n /\ lg[t] \in Log
      /\ \A z : z = lg[t] /\ z.d # None => BlockOK(z)
      /\ lg[t].new => AtEnd(t)
  BY <1>1, <1>2, LgHere
<1>6. PICK k : k = lg[t]
  OBVIOUS
<1>7. PICK z : z = [k EXCEPT !.n = @ + 1]
  OBVIOUS
<1>8. ~AtEnd(t) /\ lg' = [lg EXCEPT ![t].n = @ + 1]
  BY DEF StoreSkip
<1>9. z \in Log /\ z.d = s /\ z.n = n + 1 /\ z.new = k.new /\ BlockOK(z)
  <2>1. ~(k.n \div BlockLen > k.block)
    BY <1>3, <1>5, <1>6, <1>8 DEF AtEnd
  <2>2. k \in Log /\ k.d = s /\ k.n = n /\ BlockOK(k)
    BY <1>3, <1>5, <1>6
  <2>3. k.n + 1 <= LogLen
    BY <1>3, <1>4, <2>2
  <2> QED
    BY <1>3, <1>7, <2>1, <2>2, <2>3, NextEntryOK
<1>10. lg' = [lg EXCEPT ![t] = z]
  BY <1>6, <1>7, <1>8
<1>11. lg' \in [Threads -> Log] /\ lg'[t] = z /\ \A u \in Threads \ {t} : lg'[u] = lg[u]
  BY <1>2, <1>9, <1>10 DEF TypeOK
<1>12. /\ lg'[t].d = s /\ lg'[t].n = n + 1 /\ ~lg'[t].new
       /\ \A y : y = lg'[t] /\ y.d # None => BlockOK(y)
       /\ lg'[t].d = None => lg'[t] = EmptyLog
  BY <1>3, <1>5, <1>6, <1>8, <1>9, <1>11
<1>13. CASE Entry(t) = Unset
  <2>1. PICK g : g = [f EXCEPT !.pc = "store"]
    OBVIOUS
  <2>2. g \in Frames /\ g.pc = "store" /\ Alike(f, g) /\ g.cur = f.cur
    BY <1>2, <2>1, PcNames DEF Frames, Alike
  <2>3. Continue(t, g)
    BY <1>2, <1>13, <2>1 DEF StoreSkip, Goto
  <2>4. PICK m : m = n + 1
    OBVIOUS
  <2>5. m = Size(s) + 2
    BY <1>3, <1>4, <2>4
  <2>6. NewFrame(t, g, s, m) /\ TopSame(f, g)
    BY <1>2, <2>2, <2>5, StoreFrame
  <2>7. Calm(t)
    BY <1>11, <1>13 DEF StoreSkip, Calm, HeapSame, poolVars, heapVars, histVars, InvA, TypeOK
  <2>8. f.pc \notin Calling \cup Inherited /\ g.pc \notin Calling \cup Inherited \cup {"retire"}
    BY <1>2, <2>2 DEF Calling, Inherited
  <2>9. Conts(t, g) /\ stack' \in [Threads -> Seq(Frames)]
    BY <1>2, <2>2, <2>3, ContIs
  <2> QED
    BY <1>1, <1>12, <2>2, <2>4, <2>6, <2>7, <2>8, <2>9, CalmCont
<1>14. CASE Entry(t) # Unset
  <2>1. Return(t, TRUE)
    BY <1>14 DEF StoreSkip
  <2>2. /\ Pops(t, TRUE) /\ stack' \in [Threads -> Seq(Frames)]
        /\ stores' \in [Locks -> Nat] /\ prog' = prog /\ calls' = calls /\ callOf' = callOf /\ made' = made
    BY <1>2, <2>1, PopIs
  <2>3. Calm(t)
    BY <1>11, <2>2 DEF StoreSkip, Calm, HeapSame, poolVars, heapVars, InvA, TypeOK
  <2>4. f.pc \notin Inherited \cup {"ran"} /\ ~Owner(t, h)
    BY <1>2 DEF Inherited, Owner, Sharing, Storing
  <2>5. Settled(s)
    <3>1. Base(s)
      BY <1>3 DEF StoreShape
    <3>2. Entry(t) = log[s][Size(s) + 2]
      BY <1>3, <1>4, <1>5 DEF Entry
    <3> QED
      BY <1>14, <3>1, <3>2 DEF Settled, Mark
  <2> QED
    BY <1>1, <1>12, <2>2, <2>3, <2>4, <2>5, CalmPop
<1> QED
  BY <1>13, <1>14

\* A step that leaves the stack alone.
LEMMA StackStays ==
  ASSUME TypeOK, NEW t \in Threads, stack[t] # <<>>, stack' = stack
  PROVE  Conts(t, Top(t)) /\ stack' \in [Threads -> Seq(Frames)]
<1>1. Top(t) = stack[t][Height(t)]
  BY HeightType
<1> QED
  BY <1>1 DEF Conts, Kept, TypeOK, Height

\* ExtendLoad keeps the invariant.
LEMMA ExtendLoadOK ==
  ASSUME InvA, NEW t \in Threads, ExtendLoad(t)
  PROVE  InvA'
<1>1. PICK w : w = Top(t).pc
  OBVIOUS
<1>2. PICK h, f, s, n : Here(t, w, h, f, s, n)
  <2>1. At(t, w)
    BY <1>1 DEF ExtendLoad, At
  <2> QED
    BY <2>1, HereIs
<1>3. /\ f = Top(t) /\ f.pc = w /\ f \in Frames /\ stack[t] # <<>> /\ f = stack[t][h] /\ TypeOK
      /\ FrameShape(t, f, s, n) /\ FrameCur(t, f, s) /\ FrameDesc(t, f, s) /\ FrameCount(f)
  BY <1>2 DEF Here, InvA
<1>4. f.pc \in Extending
  BY <1>3 DEF ExtendLoad, Extending
<1>5. f.pc \notin Calling \cup Inherited \cup {"retire", "ran", "helped", "reentered"}
  BY <1>4 DEF Calling, Inherited, Extending
<1>6. PICK k : k = lg[t]
  OBVIOUS
<1>7. /\ k.d = s /\ k.n = n /\ k \in Log /\ (k.d # None => BlockOK(k))
  BY <1>2, <1>5, <1>6, LgHere
<1>8. k.d # None /\ k.n \div BlockLen > k.block
  BY <1>6 DEF ExtendLoad, AtEnd
<1>9. k.d \in Descriptors /\ k.n \in Nat /\ k.block \in Nat /\ ext[k.d] \in 0 .. LogLen
  BY <1>3, <1>7, <1>8, LogType, DescType
<1>10. PICK z : z = IF ext[k.d] > k.block THEN [k EXCEPT !.block = @ + 1] ELSE [k EXCEPT !.new = TRUE]
  OBVIOUS
<1>11. /\ z \in Log /\ z.d = k.d /\ z.n = k.n /\ BlockOK(z)
       /\ z.new => ~(ext[k.d] > k.block) \/ k.new
       /\ z.new => z.block = k.block \/ k.new
  <2>1. k.n \div BlockLen \in Nat /\ (k.n > 0 => (k.n - 1) \div BlockLen <= k.block) /\ k.block <= ext[k.d]
    BY <1>7, <1>8, <1>9, Blocks DEF BlockOK
  <2>2. CASE ext[k.d] > k.block
    <3>1. z = [k EXCEPT !.block = @ + 1]
      BY <1>10, <2>2
    <3>4. k.block + 1 \in 0 .. LogLen
      BY <1>9, <2>2, Consts
    <3>2. z \in Log /\ z.d = k.d /\ z.n = k.n /\ z.block = k.block + 1 /\ z.new = k.new
      BY <1>7, <3>1, <3>4 DEF Log
    <3>3. z.n > 0 => (z.n - 1) \div BlockLen \in Nat
      <4>1. CASE k.n > 0
        <5>1. PICK j \in Nat : j + 1 = k.n
          <6>1. k.n - 1 \in Nat /\ (k.n - 1) + 1 = k.n
            BY <1>9, <4>1
          <6> QED
            BY <6>1
        <5>2. j = k.n - 1 /\ j \div BlockLen \in Nat
          BY <1>9, <5>1, Blocks
        <5> QED
          BY <3>2, <5>2
      <4> QED
        BY <3>2, <4>1
    <3> QED
      BY <1>8, <1>9, <2>1, <2>2, <3>2, <3>3 DEF BlockOK
  <2>3. CASE ~(ext[k.d] > k.block)
    <3>1. z = [k EXCEPT !.new = TRUE]
      BY <1>10, <2>3
    <3>2. z \in Log /\ z.d = k.d /\ z.n = k.n /\ z.block = k.block
      BY <1>7, <3>1 DEF Log
    <3> QED
      BY <1>7, <1>8, <2>3, <3>2 DEF BlockOK
  <2> QED
    BY <2>2, <2>3
<1>12. ~k.new
  BY <1>6 DEF ExtendLoad
<1>13. lg' = [lg EXCEPT ![t] = z]
  BY <1>6, <1>10 DEF ExtendLoad
<1>14. lg' \in [Threads -> Log] /\ lg'[t] = z /\ \A u \in Threads \ {t} : lg'[u] = lg[u]
  BY <1>3, <1>11, <1>13 DEF TypeOK
<1>15. /\ lg'[t].d = s /\ n = lg'[t].n /\ s # None
       /\ \A y : y = lg'[t] /\ y.d # None => BlockOK(y)
       /\ lg'[t].d = None => lg'[t] = EmptyLog
       /\ lg'[t].new => AtEnd(t)' /\ f.pc \in Extending
  BY <1>4, <1>7, <1>8, <1>11, <1>12, <1>14 DEF AtEnd
<1>16. Calm(t)
  BY <1>14 DEF ExtendLoad, Calm, HeapSame, poolVars, heapVars, histVars, InvA, TypeOK
<1>17. Conts(t, f) /\ stack' \in [Threads -> Seq(Frames)]
  BY <1>3, StackStays DEF ExtendLoad
<1>18. NewFrame(t, f, s, n) /\ TopSame(f, f)
  BY <1>3 DEF NewFrame, TopSame
<1> QED
  BY <1>2, <1>3, <1>5, <1>15, <1>16, <1>17, <1>18, CalmCont

\* The frame that a section begins with.
LEMMA BodyType ==
  ASSUME NEW l \in Locks, NEW path \in Seq(Locks)
  PROVE  Body(l, path) \in Frames
<1>1. path # <<>> => Head(path) \in Locks /\ Tail(path) \in Seq(Locks)
  OBVIOUS
<1>2. EmptyLog \in Log /\ 0 \in 0 .. LogLen /\ 0 \in Nat
  BY LogKnown, Consts
<1>3. \A p \in Pcs : \A m \in Locks : \A q \in Seq(Locks) : Frame(p, m, q) \in Frames
  BY <1>2 DEF Frame, Frames
<1>4. "get" \in Pcs /\ "with" \in Pcs /\ "load" \in Pcs
  BY PcNames
<1>5. CASE path = <<>>
  <2>1. Body(l, path) = Frame("get", l, path)
    BY <1>5 DEF Body
  <2> QED
    BY <1>3, <1>4, <2>1
<1>6. CASE path # <<>>
  <2>1. Body(l, path) = Frame("with", Head(path), Tail(path)) \/ Body(l, path) = Frame("load", Head(path), Tail(path))
    BY <1>6 DEF Body
  <2> QED
    BY <1>1, <1>3, <1>4, <1>6, <2>1
<1> QED
  BY <1>5, <1>6

\* The fields of a new frame.
LEMMA FrameIs ==
  ASSUME NEW p, NEW m, NEW q, NEW g, g = Frame(p, m, q)
  PROVE  g.pc = p /\ g.lock = m /\ g.path = q /\ g.cur = None /\ g.d = None /\ g.le = 0 /\ g.lg = EmptyLog
BY DEF Frame

\* The path of the call inside.
LEMMA RestTail ==
  ASSUME NEW p \in Seq(Locks), NEW q \in Seq(Locks), IsRest(q, p), q # <<>>
  PROVE  /\ Tail(q) \in Seq(Locks) /\ Len(Tail(q)) = Len(q) - 1 /\ Len(q) >= 1
         /\ IsRest(Tail(q), p) /\ Len(Tail(q)) < Len(p)
         /\ Head(q) = p[Len(p) - Len(Tail(q))]
<1>1. /\ Tail(q) \in Seq(Locks) /\ Len(Tail(q)) = Len(q) - 1 /\ Len(q) >= 1 /\ Len(q) \in Nat /\ Len(p) \in Nat
      /\ Head(q) = q[1] /\ \A j \in 1 .. Len(q) - 1 : Tail(q)[j] = q[j + 1]
  OBVIOUS
<1>2. Len(q) <= Len(p)
  BY DEF IsRest
<1>3. Head(q) = p[Len(p) - Len(Tail(q))]
  <2>1. q[1] = p[1 + Len(p) - Len(q)]
    BY <1>1 DEF IsRest
  <2> QED
    BY <1>1, <2>1
<1>4. ASSUME NEW j \in 1 .. Len(Tail(q)) PROVE Tail(q)[j] = p[j + Len(p) - Len(Tail(q))]
  <2>1. Tail(q)[j] = q[j + 1] /\ j + 1 \in 1 .. Len(q)
    BY <1>1
  <2>2. q[j + 1] = p[(j + 1) + Len(p) - Len(q)]
    BY <2>1 DEF IsRest
  <2>3. (j + 1) + Len(p) - Len(q) = j + Len(p) - Len(Tail(q))
    BY <1>1
  <2> QED
    BY <2>1, <2>2, <2>3
<1> QED
  BY <1>1, <1>2, <1>3, <1>4 DEF IsRest

\* A section begins, or goes on under a lock that it holds already.
LEMMA BodyFrame ==
  ASSUME TypeOK, NEW t \in Threads, NEW s \in Descriptors, NEW l \in Locks, NEW path \in Seq(Locks),
         IsRest(path, desc[s].path), NEW i, i = Size(s) - Len(path), OwnUpTo(s, i), prog.with => i = 0,
         path = <<>> => l = Target(s), NEW g, g = Body(l, path)
  PROVE  /\ g \in Frames /\ NewFrame(t, g, s, i)
         /\ g.pc \in {"get", "load", "with"} /\ ~HasDesc(g)
<1>1. g \in Frames
  BY BodyType
<1>2. desc[s].path \in Seq(Locks) /\ Size(s) \in Nat /\ s # None /\ Size(s) = Len(desc[s].path)
  BY DescType, Consts DEF Size
<1>3. CASE path = <<>>
  <2>1. g = Frame("get", l, path)
    BY <1>3 DEF Body
  <2>2. g.pc = "get" /\ g.lock = l /\ g.path = <<>>
    BY <1>3, <2>1, FrameIs
  <2>3. i = Size(s)
    BY <1>2, <1>3
  <2>4. StoreShape(g, s, i)
    BY <1>2, <1>3, <2>2, <2>3 DEF StoreShape, Base
  <2>5. g.pc \in Storing /\ ~HasDesc(g) /\ ~Sharing(g) /\ g.pc \notin HelpIn \cup Inherited
    BY <2>2 DEF Storing, HasDesc, Sharing, HelpIn, Inherited
  <2>6. FrameShape(t, g, s, i) /\ FrameDesc(t, g, s) /\ FrameCount(g)
    BY <2>4, <2>5 DEF FrameShape, FrameDesc, FrameCount
  <2>7. FrameCur(t, g, s)
    BY <1>2, <2>2, <2>5 DEF FrameCur, HelpIn, Inherited
  <2> QED
    BY <1>1, <2>2, <2>5, <2>6, <2>7 DEF NewFrame
<1>4. CASE path # <<>>
  <2>1. /\ Len(Tail(path)) = Len(path) - 1 /\ Len(path) >= 1
        /\ IsRest(Tail(path), desc[s].path) /\ Len(Tail(path)) < Len(desc[s].path)
        /\ Head(path) = desc[s].path[Len(desc[s].path) - Len(Tail(path))]
    BY <1>2, <1>4, RestTail
  <2>2. PICK p : p = IF prog.with THEN "with" ELSE "load"
    OBVIOUS
  <2>3. g = Frame(p, Head(path), Tail(path))
    BY <1>4, <2>2 DEF Body
  <2>4. g.pc = p /\ g.lock = Head(path) /\ g.path = Tail(path) /\ g.cur = None /\ g.le = 0
    BY <2>3 DEF Frame
  <2>5. (p = "with" /\ prog.with) \/ (p = "load" /\ ~prog.with)
    BY <2>2
  <2>6. g.pc \notin Storing /\ ~HasDesc(g) /\ ~Sharing(g) /\ g.pc \notin HelpIn \cup Inherited
    BY <2>4, <2>5 DEF Storing, HasDesc, Sharing, HelpIn, Inherited, Early
  <2>7. LockShape(t, g, s)
    BY <1>2, <2>1, <2>4, <2>5 DEF LockShape, PathIn, WithOnly, TryOnly
  <2>8. Level(g, s) = i
    <3>1. Len(path) \in Nat /\ Len(g.path) = Len(path) - 1
      BY <2>1, <2>4
    <3> QED
      BY <1>2, <3>1 DEF Level
  <2>9. InsideShape(g, s, i, i)
    BY <2>4, <2>5, <2>6 DEF InsideShape
  <2>10. FrameShape(t, g, s, i)
    BY <1>2, <2>6, <2>7, <2>8, <2>9 DEF FrameShape
  <2>11. FrameDesc(t, g, s)
    BY <2>6 DEF FrameDesc
  <2>12. FrameCur(t, g, s)
    BY <2>4, <2>6, Consts DEF FrameCur, HelpIn, Inherited
  <2>13. FrameCount(g)
    BY <2>4, <2>5, <2>6, Consts DEF FrameCount
  <2> QED
    BY <1>1, <2>4, <2>5, <2>6, <2>10, <2>11, <2>12, <2>13 DEF NewFrame
<1> QED
  BY <1>3, <1>4

\* What is known of a new frame is kept by steps on the heap.
LEMMA NewFrameKept ==
  ASSUME InvA, NEW A, Rely(A), TypeOK', HeapOK', NEW t \in Threads, calls'[t] = calls[t], NEW g \in Frames, NEW n,
         NEW s, s # None => s \in Descriptors \ A, HasDesc(g) => g.d \notin A, NewFrame(t, g, s, n)
  PROVE  NewFrame(t, g, s, n)'
<1>1. FrameShape(t, g, s, n) /\ FrameCur(t, g, s) /\ FrameDesc(t, g, s) /\ FrameCount(g) /\ ChildrenOK' /\ LocksOK'
  BY DEF NewFrame, HeapOK
<1>2. FrameShape(t, g, s, n)'
  BY <1>1, ShapeKept
<1>3. FrameCur(t, g, s)'
  BY <1>1, CurKept
<1>4. FrameDesc(t, g, s)'
  BY <1>1, FrameDescKept
<1>5. FrameCount(g)'
  BY <1>1, CountKept
<1> QED
  BY <1>2, <1>3, <1>4, <1>5 DEF NewFrame

\* The call's own descriptor is in use, and another run's is kept for it.
LEMMA UseHere ==
  ASSUME InvA, NEW t \in Threads, NEW w, NEW h, NEW f, NEW s, NEW n, Here(t, w, h, f, s, n),
         Sharing(f), f.pc \notin {"acquire", "recheck"}
  PROVE  f.d \in Descriptors /\ InUse(f.d) /\ (Safe(f.d) \/ Owner(t, h))
<1>1. FrameDesc(t, f, s) /\ f = stack[t][h] /\ s = Sec(t, h) /\ h \in Depth(t)
  BY DEF Here
<1>2. f.d \in Descriptors
  BY <1>1, HasD
<1>3. CASE s = None \/ f.le # 0
  <2>1. Owner(t, h)
    BY <1>1, <1>3 DEF Owner
  <2>2. status[f.d] = "live"
    BY <1>1, <2>1 DEF InvA, OwnersOK, OwnersLive
  <2> QED
    BY <1>2, <2>1, <2>2 DEF InUse
<1>4. CASE ~(s = None \/ f.le # 0)
  <2>1. Safe(f.d)
    BY <1>1, <1>4 DEF FrameDesc
  <2> QED
    BY <1>2, <2>1 DEF InUse, Safe
<1> QED
  BY <1>3, <1>4

\* A call runs the section of a descriptor, its own or the one it helps.
LEMMA RunStep ==
  ASSUME InvA, NEW t \in Threads, NEW w, NEW h, NEW f, NEW s, NEW n, Here(t, w, h, f, s, n),
         Sharing(f), f.pc \notin Calling \cup {"acquire", "recheck"},
         NEW p, p \in {"ran", "helped"}, NEW e \in Descriptors,
         p = "ran" => e = f.d, p = "helped" => e = f.cur,
         RunUnder(t, e, [f EXCEPT !.pc = p]),
         Rely({}), HeapOK', TypeOK' => PoolKept, GivesBack(t), calls' = calls, desc' = desc, id' = id,
         stack' \in [Threads -> Seq(Frames)] /\ lg' \in [Threads -> Log] => TypeOK',
         helping' \in [Threads -> BOOLEAN], \A u \in Threads \ {t} : helping'[u] = helping[u],
         InUse(e)', Held(e)', Safe(e)' \/ (p = "ran" /\ Owner(t, h)),
         desc[e].thread = id[t], desc[e].lock \in Locks,
         \A c : c = [[f EXCEPT !.pc = p] EXCEPT !.lg = lg[t]] => FrameCur(t, c, s)' /\ FrameCount(c)'
  PROVE  InvA'
<1>1. /\ h = Height(t) /\ f = stack[t][h] /\ s = Sec(t, h) /\ n = Pos(t, h) /\ stack[t] # <<>> /\ TypeOK
      /\ f \in Frames /\ h \in Depth(t) /\ s \in Descriptors \cup {None}
  BY DEF Here, InvA
<1>2. PICK k : k = lg[t]
  OBVIOUS
<1>3. PICK c : c = [[f EXCEPT !.pc = p] EXCEPT !.lg = k]
  OBVIOUS
<1>4. f.pc \notin {"ran", "helped", "reentered"} \cup Extending
  BY DEF Calling, Sharing, Extending, Early, Storing
<1>5. /\ k.d = s /\ k.n = n /\ k \in Log /\ ~k.new /\ (k.d = None => k = EmptyLog)
      /\ k.d # None => BlockOK(k)
  BY <1>2, <1>4, LgHere
<1>6. p \in Pcs
  BY PcNames
<1>7. /\ c \in Frames /\ c.pc = p /\ Alike(f, c) /\ c.cur = f.cur /\ c.lg = k
  BY <1>1, <1>3, <1>5, <1>6 DEF Frames, Alike
<1>8. PICK g : g = Body(desc[e].lock, desc[e].path)
  OBVIOUS
<1>9. /\ g \in Frames /\ NewFrame(t, g, e, 0)
      /\ g.pc \in {"get", "load", "with"} /\ ~HasDesc(g)
  <2>1. desc[e].path \in Seq(Locks) /\ Size(e) \in Nat
    BY <1>1, DescType
  <2>2. IsRest(desc[e].path, desc[e].path)
    BY <2>1 DEF IsRest
  <2>3. 0 = Size(e) - Len(desc[e].path) /\ OwnUpTo(e, 0)
    BY <2>1 DEF Size, OwnUpTo
  <2>4. desc[e].path = <<>> => desc[e].lock = Target(e)
    BY DEF Target, Size
  <2> QED
    BY <1>1, <1>8, <2>1, <2>2, <2>3, <2>4, BodyFrame
<1>10. [f EXCEPT !.pc = p] \in Frames
  BY <1>1, <1>6 DEF Frames
<1>11. Pushes(t, c, g) /\ stack' \in [Threads -> Seq(Frames)]
  <2>1. CallThen(t, g, [f EXCEPT !.pc = p])
    BY <1>8 DEF RunUnder
  <2> QED
    BY <1>1, <1>2, <1>3, <1>9, <1>10, <2>1, PushIs
<1>12. lg' = [lg EXCEPT ![t] = LogOf(e)]
  BY DEF RunUnder
<1>13. /\ lg' \in [Threads -> Log] /\ lg'[t] = LogOf(e) /\ lg'[t].d = e /\ lg'[t].n = 0 /\ ~lg'[t].new
       /\ \A u \in Threads \ {t} : lg'[u] = lg[u]
  BY <1>1, <1>12, LogKnown DEF TypeOK
<1>14. TypeOK'
  BY <1>11, <1>13
<1>15. Alone(t) /\ calls'[t] = calls[t]
  BY <1>13, Consts DEF Alone
<1>16. NewFrame(t, g, e, 0)'
  BY <1>9, <1>14, <1>15, NewFrameKept
<1>17. Moves(f, c) /\ TopSame(f, c)
  <2>1. Moves(f, c)
    BY <1>7 DEF Moves, Alike, Sharing, Early, Storing
  <2> QED
    BY <2>1, MoveTop
<1>18. prog' = prog /\ ChildrenOK' /\ LocksOK'
  BY DEF Rely, HeapOK
<1>19. FrameShape(t, f, s, n)' /\ FrameDesc(t, f, s)'
  BY <1>1, <1>14, <1>15, <1>18, FrameKept
<1>20. FrameShape(t, c, s, n)'
  <2>1. c.pc \notin WithOnly \cup TryOnly \cup {"acquire", "recheck"}
    BY <1>7 DEF WithOnly, TryOnly
  <2> QED
    BY <1>17, <1>18, <1>19, <2>1, MoveShape
<1>21. FrameDesc(t, c, s)'
  <2>1. s # None /\ c.le = 0 => Safe(c.d)'
    BY <1>17, <1>19, MoveSafe
  <2> QED
    BY <1>7, <1>17, <1>18, <1>19, <2>1, MoveDesc
<1>22. NewFrame(t, c, s, n)'
  BY <1>2, <1>3, <1>20, <1>21 DEF NewFrame
<1>23. Inner(c) = e
  BY <1>7 DEF Inner, Alike
<1>24. Guarded(t, h + 1, e)'
  <2>1. Owner(t, h) => \E j \in 1 .. (h + 1) - 1 : Owner(t, j)' /\ stack'[t][j] = c
    <3>1. stack'[t][h] = c /\ h \in 1 .. (h + 1) - 1
      BY <1>1, <1>11, TopIn DEF Pushes
    <3>2. Sec(t, h)' = s
      BY <1>5, <1>7, <3>1 DEF Sec, Calling
    <3>3. Owner(t, h)' <=> Owner(t, h)
      BY <1>1, <1>17, <3>1, <3>2, TopSameOwner
    <3> QED
      BY <3>1, <3>3
  <2>2. p = "ran" => c.pc = "ran" /\ c.d = e
    BY <1>7 DEF Alike
  <2> QED
    BY <2>1, <2>2 DEF Guarded
<1>25. id'[t] = TopId(t, g)'
  <2>1. TopId(t, g)' = IdIn(t, e)'
    BY <1>9, <1>13 DEF TopId, Inherited
  <2> QED
    BY <2>1, Consts DEF IdIn
<1>26. \A z : z = lg'[t] /\ z.d # None => BlockOK(z)'
  <2>1. ext'[e] \in 0 .. LogLen /\ 0 \div BlockLen \in Nat
    BY <1>14, Blocks DEF TypeOK
  <2>2. LogOf(e).n = 0 /\ LogOf(e).block = 0 /\ LogOf(e).d = e
    BY LogKnown
  <2>3. ASSUME NEW z, z = LogOf(e) PROVE BlockOK(z)'
    BY <2>1, <2>2, <2>3 DEF BlockOK
  <2> QED
    BY <1>13, <2>3
<1>27. \A z : z = c.lg => LgOK(z)'
  <2>1. k.d # None => BlockOK(k)'
    BY <1>1, <1>5, <1>14, BlockKept
  <2> QED
    BY <1>5, <1>7, <2>1 DEF LgOK
<1>28. c.pc \in Calling /\ g.pc \notin Calling /\ c.lg.d = s /\ c.lg.n = n
  BY <1>5, <1>7, <1>9 DEF Calling
<1>29. PICK m : m = lg'[t].n
  OBVIOUS
<1>30. NewFrame(t, g, e, m)'
  BY <1>13, <1>16, <1>29
<1>31. PoolKept
  BY <1>14
<1> QED
  BY <1>9, <1>11, <1>13, <1>14, <1>15, <1>17, <1>22, <1>23, <1>24, <1>25, <1>26, <1>27, <1>28, <1>29, <1>30, <1>31, CalmPush

\* A run that leaves the heap alone.
LEMMA SameRun ==
  ASSUME InvA, NEW t \in Threads, NEW w, NEW h, NEW f, NEW s, NEW n, Here(t, w, h, f, s, n),
         Sharing(f), f.pc \notin Calling \cup {"acquire", "recheck"},
         NEW p, p \in {"ran", "helped"}, NEW e \in Descriptors,
         p = "ran" => e = f.d, p = "helped" => e = f.cur,
         RunUnder(t, e, [f EXCEPT !.pc = p]), UNCHANGED <<heapVars, poolVars, id, histVars>>,
         helping' \in [Threads -> BOOLEAN], \A u \in Threads \ {t} : helping'[u] = helping[u],
         InUse(e), Held(e), Safe(e) \/ (p = "ran" /\ Owner(t, h)),
         desc[e].thread = id[t], desc[e].lock \in Locks,
         \A c : c = [[f EXCEPT !.pc = p] EXCEPT !.lg = lg[t]] => FrameCur(t, c, s) /\ FrameCount(c)
  PROVE  InvA'
<1>1. HeapSame /\ calls' = calls /\ desc' = desc /\ id' = id
  BY DEF HeapSame, heapVars, poolVars, histVars
<1>2. Rely({}) /\ HeapOK' /\ GivesBack(t) /\ (TypeOK' => PoolKept)
  BY <1>1, SameRely, SameHeap, SamePool, SameGives DEF HeapSame
<1>3. stack' \in [Threads -> Seq(Frames)] /\ lg' \in [Threads -> Log] => TypeOK'
  BY <1>1, SameTypes DEF InvA, TypeOK, heapVars, histVars
<1>4. InUse(e)' /\ Held(e)' /\ (Safe(e) => Safe(e)')
  BY <1>1 DEF HeapSame, InUse, Held, Installed, Safe
<1>5. \A c : c = [[f EXCEPT !.pc = p] EXCEPT !.lg = lg[t]] => FrameCur(t, c, s)' /\ FrameCount(c)'
  BY <1>1, SameParts
<1>6. Safe(e)' \/ (p = "ran" /\ Owner(t, h))
  BY <1>4
<1> QED
  BY <1>1, <1>2, <1>3, <1>4, <1>5, <1>6, RunStep

\* The call that runs the section of its own descriptor.
LEMMA RanFrame ==
  ASSUME NEW t, NEW f \in Frames, NEW s, NEW k, FrameCur(t, f, s), FrameCount(f),
         f.pc \in {"check", "test", "take"}, Held(f.d)
  PROVE  \A c : c = [[f EXCEPT !.pc = "ran"] EXCEPT !.lg = k] => FrameCur(t, c, s) /\ FrameCount(c)
<1>1. SUFFICES ASSUME NEW c, c = [[f EXCEPT !.pc = "ran"] EXCEPT !.lg = k]
               PROVE  FrameCur(t, c, s) /\ FrameCount(c)
  OBVIOUS
<1>2. c.pc = "ran" /\ c.lock = f.lock /\ c.d = f.d /\ c.cur = f.cur
  BY <1>1 DEF Frames
<1>3. f.pc \notin Storing \cup {"load", "with"} /\ HasDesc(f) /\ c.pc \notin Storing
  BY <1>2 DEF Storing, HasDesc, Early
<1>4. FrameCur(t, c, s)
  BY <1>2, <1>3 DEF FrameCur, HelpIn, Inherited
<1>5. FrameCount(c)
  BY <1>2, <1>3 DEF FrameCount
<1> QED
  BY <1>4, <1>5

\* A run under the log of its own descriptor works under its own identity.
LEMMA OwnId ==
  ASSUME InvA, NEW t \in Threads, NEW w, NEW h, NEW f, NEW s, NEW n, Here(t, w, h, f, s, n),
         Sharing(f), f.pc \notin Inherited
  PROVE  f.d \in Descriptors /\ desc[f.d].thread = id[t] /\ desc[f.d].lock \in Locks
<1>1. FrameDesc(t, f, s) /\ f = stack[t][h] /\ s = Sec(t, h) /\ h = Height(t) /\ stack[t] # <<>> /\ f \in Frames
  BY DEF Here
<1>2. id[t] = IdIn(t, s)
  BY <1>1, IdHere
<1>3. desc[f.d].thread = IdIn(t, s) /\ desc[f.d].lock = f.lock /\ f.d \in Descriptors
  BY <1>1 DEF FrameDesc, HasDesc, Sharing
<1> QED
  BY <1>1, <1>2, <1>3, FrameType

\* A section that is run after the lock was found taken.
LEMMA SameRan ==
  ASSUME InvA, NEW t \in Threads, NEW w, NEW h, NEW f, NEW s, NEW n, Here(t, w, h, f, s, n),
         f.pc \in {"check", "test"}, RunUnder(t, f.d, [f EXCEPT !.pc = "ran"]),
         UNCHANGED <<heapVars, poolVars, id, helping, histVars>>, Held(f.d)
  PROVE  InvA'
<1>1. /\ Sharing(f) /\ f.pc \notin Calling \cup {"acquire", "recheck"} /\ f.pc \notin Inherited
      /\ f.pc \in {"check", "test", "take"}
  BY DEF Sharing, Early, Storing, Calling, Inherited
<1>2. f.d \in Descriptors /\ InUse(f.d) /\ (Safe(f.d) \/ Owner(t, h))
  BY <1>1, UseHere
<1>3. desc[f.d].thread = id[t] /\ desc[f.d].lock \in Locks
  BY <1>1, OwnId
<1>4. \A c : c = [[f EXCEPT !.pc = "ran"] EXCEPT !.lg = lg[t]] => FrameCur(t, c, s) /\ FrameCount(c)
  BY <1>1, RanFrame DEF Here
<1>5. helping' \in [Threads -> BOOLEAN] /\ \A u \in Threads \ {t} : helping'[u] = helping[u]
  BY DEF InvA, TypeOK
<1>6. UNCHANGED <<heapVars, poolVars, id, histVars>>
  OBVIOUS
<1>7. PICK p, e : p = "ran" /\ e = f.d /\ p \in {"ran", "helped"} /\ p # "helped" /\ e \in Descriptors
  BY <1>2
<1>8. RunUnder(t, e, [f EXCEPT !.pc = p])
  BY <1>7
<1> QED
  BY <1>1, <1>2, <1>3, <1>4, <1>5, <1>6, <1>7, <1>8, SameRun

\* TryCheck keeps the invariant when it runs the section.
LEMMA TryCheckRuns ==
  ASSUME InvA, NEW t \in Threads, TryCheck(t), TookLock(Top(t))
  PROVE  InvA'
<1>1. PICK h, f, s, n : Here(t, "check", h, f, s, n)
  BY HereIs DEF TryCheck
<1>2. f = Top(t) /\ f.pc = "check" /\ f \in Frames
  BY <1>1 DEF Here
<1>3. Held(f.d)
  BY <1>2, FrameType DEF TookLock, Held, Installed
<1>4. RunUnder(t, f.d, [f EXCEPT !.pc = "ran"]) /\ UNCHANGED <<heapVars, poolVars, id, helping, histVars>>
  BY <1>2 DEF TryCheck
<1> QED
  BY <1>1, <1>2, <1>3, <1>4, SameRan

\* WithTest keeps the invariant when it runs the section.
LEMMA WithTestRuns ==
  ASSUME InvA, NEW t \in Threads, WithTest(t), desc[Top(t).d].done \/ Top(t).cur = Top(t).d
  PROVE  InvA'
<1>1. PICK h, f, s, n : Here(t, "test", h, f, s, n)
  BY HereIs DEF WithTest
<1>2. f = Top(t) /\ f.pc = "test" /\ f \in Frames /\ FrameCount(f)
  BY <1>1 DEF Here
<1>3. Held(f.d)
  BY <1>2 DEF Held, FrameCount, Storing
<1>4. RunUnder(t, f.d, [f EXCEPT !.pc = "ran"]) /\ UNCHANGED <<heapVars, poolVars, id, helping, histVars>>
  BY <1>2 DEF WithTest
<1> QED
  BY <1>1, <1>2, <1>3, <1>4, SameRan

\* HelpCheck keeps the invariant when it runs the section.
LEMMA HelpCheckRuns ==
  ASSUME InvA, NEW t \in Threads, HelpCheck(t), lck[Top(t).lock] = Top(t).cur
  PROVE  InvA'
<1>1. PICK h, f, s, n : Here(t, "help_check", h, f, s, n)
  BY HereIs DEF HelpCheck
<1>2. /\ f = Top(t) /\ f.pc = "help_check" /\ f \in Frames /\ FrameCount(f) /\ FrameCur(t, f, s)
      /\ stack[t] # <<>>
  BY <1>1 DEF Here
<1>3. PICK e : e = f.cur
  OBVIOUS
<1>4. e \in Descriptors /\ f.lock \in Locks
  BY <1>2, <1>3, FrameType DEF FrameCur, HelpIn
<1>5. Held(e) /\ status[e] = "live" /\ desc[e].lock = f.lock
  BY <1>2, <1>3, <1>4, LockWordOK
<1>6. Safe(e) /\ InUse(e)
  BY <1>2, <1>3, <1>5 DEF FrameCur, Safe, InUse
<1>7. desc[e].thread = id[t]
  BY <1>2, <1>3 DEF InvA, StackOK, Ids, TopId, Inherited
<1>8. /\ RunUnder(t, e, [f EXCEPT !.pc = "helped"]) /\ UNCHANGED <<heapVars, poolVars, id, histVars>>
      /\ helping' = [helping EXCEPT ![t] = TRUE]
  BY <1>2, <1>3 DEF HelpCheck
<1>9. helping' \in [Threads -> BOOLEAN] /\ \A u \in Threads \ {t} : helping'[u] = helping[u]
  BY <1>8 DEF InvA, TypeOK
<1>10. ASSUME NEW c, c = [[f EXCEPT !.pc = "helped"] EXCEPT !.lg = lg[t]] PROVE FrameCur(t, c, s) /\ FrameCount(c)
  <2>1. c.pc = "helped" /\ c.lock = f.lock /\ c.d = f.d /\ c.cur = f.cur /\ c.id = f.id
    BY <1>2, <1>10 DEF Frames
  <2>2. f.pc \notin Storing \cup {"load", "with"} /\ HasDesc(f) /\ c.pc \notin Storing /\ f.pc \in Inherited /\ f.pc \in HelpIn
    BY <1>2, <2>1 DEF Storing, HasDesc, Early, Inherited, HelpIn
  <2>3. FrameCur(t, c, s)
    BY <1>2, <1>3, <1>5, <1>6, <2>1, <2>2 DEF FrameCur
  <2>4. FrameCount(c)
    BY <1>2, <2>1, <2>2 DEF FrameCount
  <2> QED
    BY <2>3, <2>4
<1>11. Sharing(f) /\ f.pc \notin Calling \cup {"acquire", "recheck"}
  BY <1>2 DEF Sharing, Early, Storing, Calling
<1>12. PICK p : p = "helped" /\ p \in {"ran", "helped"} /\ p # "ran"
  OBVIOUS
<1>13. RunUnder(t, e, [f EXCEPT !.pc = p]) /\ desc[e].lock \in Locks
  BY <1>4, <1>5, <1>8, <1>12
<1>14. \A c : c = [[f EXCEPT !.pc = p] EXCEPT !.lg = lg[t]] => FrameCur(t, c, s) /\ FrameCount(c)
  BY <1>10, <1>12
<1> QED
  BY <1>1, <1>3, <1>4, <1>5, <1>6, <1>7, <1>8, <1>9, <1>11, <1>12, <1>13, <1>14, SameRun

\* A thread that finds its own descriptor in the log goes on without a lock.
LEMMA TrySelfEnters ==
  ASSUME InvA, NEW t \in Threads, TrySelf(t), OwnLock(t, Top(t).cur)
  PROVE  InvA'
<1>1. PICK h, f, s, n : Here(t, "self", h, f, s, n)
  BY HereIs DEF TrySelf
<1>2. /\ f = Top(t) /\ f.pc = "self" /\ f \in Frames /\ FrameCount(f) /\ FrameCur(t, f, s)
      /\ stack[t] # <<>> /\ f = stack[t][h] /\ h = Height(t) /\ s = Sec(t, h) /\ h \in Depth(t)
      /\ FrameShape(t, f, s, n) /\ FrameDesc(t, f, s) /\ TypeOK
  BY <1>1 DEF Here, InvA
<1>3. f.cur \in Descriptors /\ desc[f.cur].thread = id[t]
  BY <1>2 DEF OwnLock, IsLocked
<1>4. id[t] = IdIn(t, s)
  BY <1>2, IdHere DEF Inherited
<1>5. s # None /\ s \in Descriptors /\ desc[s].thread = id[t] /\ Guarded(t, h, s)
  BY <1>1, <1>2, <1>3, <1>4 DEF FrameCur, IdIn, Here
<1>6. PICK i : i = Level(f, s)
  OBVIOUS
<1>7. LockShape(t, f, s) /\ InsideShape(f, s, n, i) /\ ~prog.with
  <2>1. LockShape(t, f, s) /\ InsideShape(f, s, n, i)
    BY <1>2, <1>5, <1>6 DEF FrameShape, Storing
  <2> QED
    BY <1>2, <2>1 DEF LockShape, TryOnly
<1>8. i \in Levels(s) /\ i \in Nat
  <2>1. i \in Levels(s)
    BY <1>2, <1>5, <1>6, <1>7, LevelIn
  <2> QED
    BY <1>2, <1>5, <2>1, DescType DEF Levels, Size
<1>9. log[s][i + 1] = Word(f.cur) /\ n = i + 1 /\ OwnUpTo(s, i)
  BY <1>2, <1>7 DEF InsideShape
<1>10. Own(s, i + 1)
  BY <1>3, <1>5, <1>9 DEF Own, Word
<1>11. OwnUpTo(s, n)
  BY <1>8, <1>9, <1>10 DEF OwnUpTo
<1>12. /\ lg[t].d = s /\ lg[t].n = n /\ lg[t] \in Log /\ ~lg[t].new
       /\ \A z : z = lg[t] /\ z.d # None => BlockOK(z)
  BY <1>1, <1>2, LgHere DEF Extending
<1>13. f.lock \in Locks /\ f.path \in Seq(Locks) /\ desc[s].path \in Seq(Locks) /\ Size(s) \in Nat
       /\ Size(s) = Len(desc[s].path) /\ Len(f.path) \in Nat
  BY <1>2, <1>5, FrameType, DescType DEF Size
<1>14. /\ IsRest(f.path, desc[s].path) /\ f.lock = desc[s].path[Len(desc[s].path) - Len(f.path)]
       /\ Len(f.path) < Size(s)
  BY <1>5, <1>7, <1>13 DEF LockShape, PathIn
<1>15. n = Size(s) - Len(f.path)
  BY <1>6, <1>9, <1>13 DEF Level
<1>16. f.path = <<>> => f.lock = Target(s)
  <2>1. f.path = <<>> => Len(f.path) = 0
    OBVIOUS
  <2> QED
    BY <1>13, <1>14, <2>1 DEF Target, Goal
<1>17. PICK g : g = Body(f.lock, f.path)
  OBVIOUS
<1>18. /\ g \in Frames /\ NewFrame(t, g, s, n)
       /\ g.pc \in {"get", "load", "with"} /\ ~HasDesc(g)
  BY <1>2, <1>5, <1>7, <1>11, <1>13, <1>14, <1>15, <1>16, <1>17, BodyFrame
<1>19. PICK k : k = lg[t]
  OBVIOUS
<1>20. PICK b : b = [f EXCEPT !.pc = "reentered"]
  OBVIOUS
<1>21. PICK c : c = [b EXCEPT !.lg = k]
  OBVIOUS
<1>22. b \in Frames
  BY <1>2, <1>20, PcNames DEF Frames
<1>23. c \in Frames /\ c.pc = "reentered" /\ Alike(f, c) /\ c.cur = f.cur /\ c.lg = k
  BY <1>2, <1>12, <1>19, <1>20, <1>21, PcNames DEF Frames, Alike
<1>24. CallThen(t, g, b)
  BY <1>2, <1>17, <1>20 DEF TrySelf
<1>25. Pushes(t, c, g) /\ stack' \in [Threads -> Seq(Frames)]
  BY <1>2, <1>18, <1>19, <1>21, <1>22, <1>24, PushIs
<1>26. HeapSame /\ lg' = lg /\ id' = id /\ helping' = helping /\ calls' = calls
  BY DEF TrySelf, HeapSame, heapVars, poolVars, localVars, histVars
<1>27. TypeOK'
  BY <1>2, <1>25, <1>26, SameTypes DEF TrySelf, TypeOK, heapVars, histVars
<1>28. Rely({}) /\ HeapOK' /\ PoolKept /\ GivesBack(t)
  BY <1>26, <1>27, SameRely, SameHeap, SamePool, SameGives DEF HeapSame
<1>29. Alone(t) /\ calls'[t] = calls[t]
  BY <1>26, AloneStays
<1>30. NewFrame(t, c, s, n)
  <2>1. c.pc \notin Storing \cup HelpIn \cup Inherited /\ ~Sharing(c) /\ ~HasDesc(c) /\ f.pc \notin Storing /\ ~Sharing(f)
    BY <1>2, <1>23 DEF Storing, HelpIn, Inherited, Sharing, HasDesc, Early
  <2>2. LockShape(t, c, s)
    BY <1>7, <1>23 DEF LockShape, Alike, WithOnly, TryOnly
  <2>3. Level(c, s) = i
    BY <1>6, <1>23 DEF Level, Alike
  <2>4. InsideShape(c, s, n, i)
    BY <1>2, <1>7, <1>10, <1>23, <2>1 DEF InsideShape, Alike
  <2>5. FrameShape(t, c, s, n)
    BY <1>5, <2>1, <2>2, <2>3, <2>4 DEF FrameShape
  <2>6. FrameCur(t, c, s)
    BY <1>2, <1>23, <2>1 DEF FrameCur, HelpIn, Inherited, Storing
  <2>7. FrameDesc(t, c, s)
    BY <2>1 DEF FrameDesc
  <2>8. FrameCount(c)
    BY <1>2, <1>23, <2>1 DEF FrameCount, Alike
  <2> QED
    BY <2>5, <2>6, <2>7, <2>8 DEF NewFrame
<1>31. NewFrame(t, c, s, n)' /\ NewFrame(t, g, s, n)'
  <2>1. ~HasDesc(c)
    BY <1>23 DEF HasDesc, Early
  <2>2. s # None => s \in Descriptors \ {}
    BY <1>5
  <2> QED
    BY <1>18, <1>23, <1>27, <1>28, <1>29, <1>30, <2>1, <2>2, NewFrameKept
<1>32. Guarded(t, h + 1, s)'
  <2>1. \A j \in 1 .. h - 1 : stack'[t][j] = stack[t][j]
    BY <1>2, <1>25 DEF Pushes, Kept
  <2> QED
    BY <1>2, <1>5, <1>28, <2>1, GuardKept
<1>33. id'[t] = TopId(t, g)'
  <2>1. g.pc \notin Inherited /\ lg'[t].d = s
    BY <1>12, <1>18, <1>26 DEF Inherited
  <2> QED
    BY <1>2, <1>26, <1>28, <1>29, <2>1, IdStays DEF Inherited
<1>34. \A z : z = lg'[t] /\ z.d # None => BlockOK(z)'
  BY <1>12, <1>26, SameBlock
<1>35. c.pc \in Calling /\ g.pc \notin Calling /\ c.lg.d = s /\ c.lg.n = n /\ Inner(c) = s
  BY <1>12, <1>18, <1>19, <1>23 DEF Calling, Inner
<1>36. TopSame(f, c)
  BY <1>2, <1>23 DEF TopSame, Sharing, HasDesc, Early
<1>37. lg'[t].d = s /\ lg'[t].n = n /\ ~lg'[t].new
  BY <1>12, <1>26
<1> QED
  BY <1>1, <1>18, <1>23, <1>25, <1>27, <1>28, <1>29, <1>31, <1>32, <1>33, <1>34, <1>35, <1>36, <1>37, CalmPush

\* An entry of a log is set for the first time.
Fill(d, j, v) ==
  /\ log[d][j] = Unset /\ log' = [log EXCEPT ![d][j] = v]
  /\ lck' = lck /\ desc' = desc /\ ext' = ext /\ status' = status
  /\ freeList' = freeList /\ prog' = prog /\ callOf' = callOf

\* What a commit does to the log.
LEMMA FillEntries ==
  ASSUME TypeOK, NEW d \in Descriptors, NEW j \in 1 .. LogLen, NEW v, Fill(d, j, v)
  PROVE  /\ log'[d][j] = v /\ log[d][j] = Unset
         /\ \A e \in Descriptors : \A k \in 1 .. LogLen : e # d \/ k # j => log'[e][k] = log[e][k]
         /\ v \in Entries => log' \in [Descriptors -> [1 .. LogLen -> Entries]]
<1>1. log \in [Descriptors -> [1 .. LogLen -> Entries]]
  BY DEF TypeOK
<1>2. log' = [log EXCEPT ![d][j] = v] /\ log[d][j] = Unset
  BY DEF Fill
<1> QED
  BY <1>1, <1>2

\* What a commit leaves alone.
LEMMA FillSame ==
  ASSUME InvA, NEW d \in Descriptors, NEW j \in 1 .. LogLen, NEW v, Fill(d, j, v)
  PROVE  /\ \A e : Held(e)' <=> Held(e)
         /\ \A e : Installed(e)' <=> Installed(e)
         /\ \A e : Over(e)' <=> Over(e)
         /\ \A e : Known(e)' <=> Known(e)
         /\ \A e : Safe(e)' <=> Safe(e)
         /\ \A e : Size(e)' = Size(e)
         /\ \A e : Levels(e)' = Levels(e)
         /\ Off' = Off /\ prog' = prog /\ Unset' = Unset
         /\ \A l, c : AtMost(l, c)' <=> AtMost(l, c)
         /\ \A l, c : Moved(l, c)' <=> Moved(l, c)
BY DEF Fill, Held, Installed, Over, Known, Safe, Size, Levels, Off, AtMost, Moved, Unset

\* A commit is a step that frames may rely on.
LEMMA FillRely ==
  ASSUME InvA, NEW d \in Descriptors, NEW j \in 1 .. LogLen, NEW v, Fill(d, j, v)
  PROVE  Rely({})
<1>1. TypeOK
  BY DEF InvA
<1>2. ASSUME NEW e \in Descriptors PROVE DescKept(e)
  <2>1. \A k \in 1 .. LogLen : EntryKept(e, k)
    <3>1. ASSUME NEW k \in 1 .. LogLen PROVE EntryKept(e, k)
      BY <1>1, FillEntries DEF EntryKept
    <3> QED
      BY <3>1
  <2>2. ext[e] <= ext'[e] /\ desc[e].counter <= desc'[e].counter
    BY <1>1, DescType DEF Fill
  <2>3. \A l \in Locks : AtMost(l, desc[e].counter) => AtMost(l, desc[e].counter)'
    BY DEF Fill, AtMost
  <2> QED
    BY <2>1, <2>2, <2>3, FillSame DEF Fill, DescKept
<1>3. \A e \in Descriptors : StatusKept(e)
  BY DEF Fill, StatusKept, Safe
<1>4. \A l, c : LockKept(l, c)
  BY DEF Fill, LockKept, AtMost, Moved
<1> QED
  BY <1>2, <1>3, <1>4 DEF Fill, Rely

\* The entries after it are unset.
LEMMA FillAfter ==
  ASSUME InvA, NEW d \in Descriptors, NEW j \in 1 .. LogLen, NEW v, Fill(d, j, v),
         NEW k \in 1 .. LogLen, j < k
  PROVE  log[d][k] = Unset /\ log'[d][k] = Unset
<1>1. log[d][j] = Unset /\ TypeOK
  BY DEF Fill, InvA
<1>2. log[d][k] = Unset
  BY <1>1 DEF InvA, HeapOK, PrefixSet
<1>3. k # j
  OBVIOUS
<1> QED
  BY <1>1, <1>2, <1>3, FillEntries

\* The entries of own locks after a commit.
LEMMA FillOwn ==
  ASSUME InvA, NEW d \in Descriptors, NEW j \in 1 .. LogLen, NEW v, Fill(d, j, v),
         NEW e \in Descriptors
  PROVE  /\ \A k \in 1 .. LogLen : e # d \/ k # j => (Own(e, k)' <=> Own(e, k))
         /\ \A m \in 0 .. LogLen : e # d \/ m < j => (OwnUpTo(e, m)' <=> OwnUpTo(e, m))
<1>1. ASSUME NEW k \in 1 .. LogLen, e # d \/ k # j PROVE Own(e, k)' <=> Own(e, k)
  <2>1. log'[e][k] = log[e][k] /\ desc' = desc
    BY <1>1, FillEntries DEF Fill, InvA
  <2> QED
    BY <2>1 DEF Own
<1>2. ASSUME NEW m \in 0 .. LogLen, e # d \/ m < j PROVE OwnUpTo(e, m)' <=> OwnUpTo(e, m)
  <2>1. \A k \in 1 .. m : k \in 1 .. LogLen /\ (e # d \/ k # j)
    BY <1>2, Consts
  <2>2. \A k \in 1 .. m : Own(e, k)' <=> Own(e, k)
    BY <1>1, <2>1
  <2> QED
    BY <2>2 DEF OwnUpTo
<1> QED
  BY <1>1, <1>2

\* Where the runs fork after a commit.
LEMMA FillForks ==
  ASSUME InvA, NEW d \in Descriptors, NEW j \in 1 .. LogLen, NEW v, Fill(d, j, v),
         NEW e \in Descriptors, NEW i, Forks(e, i)'
  PROVE  /\ i \in Levels(e)
         /\ Forks(e, i) \/ (e = d /\ i + 1 = j /\ ~prog.with /\ OwnUpTo(d, i))
<1>1. /\ i \in Levels(e)' /\ OwnUpTo(e, i)' /\ (prog'.with => i = 0)
      /\ ~prog'.with => log'[e][i + 1] # Unset' /\ ~Own(e, i + 1)'
  BY DEF Forks
<1>2. i \in Levels(e) /\ prog' = prog /\ Unset' = Unset
  BY <1>1, FillSame
<1>3. i \in Nat /\ i + 1 \in 1 .. LogLen /\ i \in 0 .. LogLen
  BY <1>2, FitsLog, Consts DEF InvA, HeapOK
<1>4. CASE e # d
  <2>1. OwnUpTo(e, i) /\ (Own(e, i + 1)' <=> Own(e, i + 1))
    BY <1>1, <1>3, <1>4, FillOwn
  <2>2. log'[e][i + 1] = log[e][i + 1]
    BY <1>3, <1>4, FillEntries DEF InvA
  <2> QED
    BY <1>1, <1>2, <2>1, <2>2 DEF Forks
<1>5. CASE e = d /\ j <= i
  <2>1. log'[d][i + 1] = Unset
    BY <1>3, <1>5, FillAfter
  <2> QED
    BY <1>1, <1>2, <1>5, <2>1
<1>6. CASE e = d /\ i < j
  <2>1. OwnUpTo(d, i)
    BY <1>1, <1>3, <1>6, FillOwn
  <2>2. CASE i + 1 = j
    BY <1>1, <1>2, <1>6, <2>1, <2>2 DEF Forks
  <2>3. CASE i + 1 # j
    <3>1. log'[d][i + 1] = log[d][i + 1] /\ (Own(d, i + 1)' <=> Own(d, i + 1))
      BY <1>3, <2>3, FillEntries, FillOwn DEF InvA
    <3> QED
      BY <1>1, <1>2, <1>6, <2>1, <3>1 DEF Forks
  <2> QED
    BY <2>2, <2>3
<1> QED
  BY <1>2, <1>3, <1>4, <1>5, <1>6

\* The sections that come to their store after a commit.
LEMMA FillBase ==
  ASSUME InvA, NEW d \in Descriptors, NEW j \in 1 .. LogLen, NEW v, Fill(d, j, v),
         NEW e \in Descriptors, Base(e)'
  PROVE  Base(e) \/ (e = d /\ j <= Size(d))
<1>1. prog'.with => Size(e)' = 0
  BY DEF Base
<1>2. Size(e)' = Size(e) /\ prog' = prog
  BY FillSame
<1>3. Size(e) \in Nat /\ Size(e) \in 0 .. LogLen
  BY FitsLog, Consts DEF InvA, HeapOK
<1>4. PICK m : m = Size(e)
  OBVIOUS
<1>5. OwnUpTo(e, m)' /\ m \in 0 .. LogLen
  BY <1>2, <1>3, <1>4 DEF Base
<1>6. CASE e # d \/ m < j
  BY <1>2, <1>1, <1>4, <1>5, <1>6, FillOwn DEF Base
<1>7. CASE e = d /\ ~(m < j)
  BY <1>3, <1>4, <1>7
<1> QED
  BY <1>6, <1>7

\* What may be written, and where.
FillOK(d, j, v) ==
  /\ v \in Entries /\ v # Unset /\ ~IsDone(v) /\ status[d] # "fresh"
  /\ (j - 1) \div BlockLen <= ext[d]
  /\ \A k \in 1 .. LogLen : k < j => log[d][k] # Unset
  /\ v[2] \in Descriptors => status[v[2]] # "fresh"
  /\ ~prog.with /\ j - 1 \in Levels(d) /\ OwnUpTo(d, j - 1) =>
       \/ v[2] \in Nat \ {0} /\ AtMost(desc[d].path[j], v[2])
       \/ v[2] \in Descriptors /\ Known(v[2])
  /\ \A i \in Levels(d) : Forks(d, i) /\ j = i + 1 + Off => ChildOK(d, i, v[2])
  /\ Base(d) /\ j = Size(d) + 1 => v[2] \in Nat
  /\ Base(d) /\ j = Size(d) + 2 => v = Word(1)

\* Committing a value keeps what is true of the heap.
LEMMA FillHeap ==
  ASSUME InvA, NEW d \in Descriptors, NEW j \in 1 .. LogLen, NEW v, Fill(d, j, v), FillOK(d, j, v)
  PROVE  HeapOK'
<1>1. HeapOK /\ TypeOK /\ PathsFit
  BY DEF InvA, HeapOK
<1>2. /\ log'[d][j] = v /\ log[d][j] = Unset
      /\ \A e \in Descriptors : \A k \in 1 .. LogLen : e # d \/ k # j => log'[e][k] = log[e][k]
  BY <1>1, FillEntries
<1>3. v \in Entries /\ v # Unset /\ ~IsDone(v) /\ v[1] = "word" /\ Unset' = Unset
  BY EntryKinds, FillSame DEF FillOK
<1>4. FlatReuse' /\ PathsFit' /\ ReuseFlat' /\ NotTwice' /\ UsedFull' /\ FreeOK' /\ LocksOK' /\ CountersOK' /\ RetiredOver'
  <2>1. FlatReuse' /\ PathsFit' /\ ReuseFlat' /\ NotTwice' /\ UsedFull' /\ FreeOK' /\ LocksOK'
    BY <1>1 DEF HeapOK, Fill, FlatReuse, PathsFit, ReuseFlat, Size, NotTwice, UsedFull, FreeOK, LocksOK
  <2> QED
    BY <1>1, <2>1 DEF HeapOK, Fill, CountersOK, RetiredOver, Over, Held, Installed, Moved
<1>5. PrefixSet'
  <2>1. ASSUME NEW e \in Descriptors, NEW k \in 1 .. LogLen, NEW m \in 1 .. LogLen, k < m, log'[e][k] = Unset
        PROVE  log'[e][m] = Unset
    <3>1. CASE e # d
      BY <1>1, <1>2, <2>1, <3>1 DEF HeapOK, PrefixSet
    <3>2. CASE e = d
      <4>1. k # j /\ log[d][k] = Unset
        BY <1>2, <1>3, <2>1, <3>2
      <4>2. j < k
        BY <4>1 DEF FillOK
      <4>3. j < m
        BY <2>1, <4>2
      <4> QED
        BY <3>2, <4>3, FillAfter
    <3> QED
      BY <3>1, <3>2
  <2> QED
    BY <1>3, <2>1 DEF PrefixSet
<1>6. LogsKnown'
  <2>1. ASSUME NEW e \in Descriptors, NEW k \in 1 .. LogLen, log'[e][k][1] = "word", log'[e][k][2] \in Descriptors
        PROVE  status'[log'[e][k][2]] # "fresh"
    <3>1. CASE e = d /\ k = j
      BY <1>2, <2>1, <3>1 DEF FillOK, Fill
    <3>2. CASE e # d \/ k # j
      BY <1>1, <1>2, <2>1, <3>2 DEF HeapOK, LogsKnown, Fill
    <3> QED
      BY <3>1, <3>2
  <2> QED
    BY <2>1 DEF LogsKnown
<1>7. InBlocks'
  <2>1. ASSUME NEW e \in Descriptors, NEW k \in 1 .. LogLen, log'[e][k] # Unset
        PROVE  (k - 1) \div BlockLen <= ext'[e]
    <3>1. CASE e = d /\ k = j
      BY <3>1 DEF FillOK, Fill
    <3>2. CASE e # d \/ k # j
      BY <1>1, <1>2, <2>1, <3>2 DEF HeapOK, InBlocks, Fill
    <3> QED
      BY <3>1, <3>2
  <2> QED
    BY <1>3, <2>1 DEF InBlocks
<1>8. LoadsOK'
  <2>1. ASSUME NEW e \in Descriptors, NEW i \in Levels(e), ~prog.with, OwnUpTo(e, i)'
        PROVE  LoadEntry(e, i)'
    <3>1. i \in Nat /\ i + 1 \in 1 .. LogLen /\ i \in 0 .. LogLen
      BY <1>1, FitsLog, Consts
    <3>2. CASE e # d \/ i + 1 < j
      <4>1. OwnUpTo(e, i) /\ log'[e][i + 1] = log[e][i + 1]
        BY <1>2, <2>1, <3>1, <3>2, FillOwn
      <4>2. LoadEntry(e, i)
        BY <1>1, <2>1, <4>1 DEF HeapOK, LoadsOK
      <4> QED
        BY <1>3, <4>1, <4>2, FillSame DEF LoadEntry, Fill
    <3>3. CASE e = d /\ i + 1 = j
      <4>1. OwnUpTo(d, i) /\ i = j - 1
        BY <2>1, <3>1, <3>3, FillOwn
      <4>2. (v[2] \in Nat \ {0} /\ AtMost(desc[d].path[i + 1], v[2])) \/ (v[2] \in Descriptors /\ Known(v[2]))
        BY <2>1, <3>3, <4>1 DEF FillOK
      <4>3. log'[e][i + 1] = v
        BY <1>2, <3>3
      <4> QED
        BY <1>3, <3>3, <4>2, <4>3, FillSame DEF LoadEntry, Fill
    <3>4. CASE e = d /\ j < i + 1
      <4>1. log'[e][i + 1] = Unset
        BY <3>1, <3>4, FillAfter
      <4> QED
        BY <1>3, <4>1 DEF LoadEntry
    <3> QED
      BY <3>1, <3>2, <3>3, <3>4
  <2>2. \A e \in Descriptors : Levels(e)' = Levels(e)
    BY FillSame
  <2> QED
    BY <2>1, <2>2, FillSame DEF LoadsOK
<1>9. ChildrenOK'
  <2>1. ASSUME NEW e \in Descriptors, NEW i \in Levels(e), Forks(e, i)'
        PROVE  \/ ChildAt(e, i)' = Unset
               \/ IsDone(ChildAt(e, i)')
               \/ ChildAt(e, i)'[1] = "word" /\ \A z : z = ChildAt(e, i)'[2] => ChildOK(e, i, z)'
    <3>1. i \in Nat /\ i + 1 \in 1 .. LogLen /\ i + 1 + Off \in 1 .. LogLen /\ Off' = Off /\ i + 2 \in 1 .. LogLen
      BY <1>1, FitsLog, FillSame
    <3>2. PICK q \in 1 .. LogLen : q = i + 1 + Off
      BY <3>1
    <3>3. ChildAt(e, i) = log[e][q] /\ ChildAt(e, i)' = log'[e][q]
      BY <3>1, <3>2 DEF ChildAt
    <3>4. CASE Forks(e, i) /\ (e # d \/ q # j)
      <4>1. ChildAt(e, i)' = ChildAt(e, i)
        BY <1>2, <3>3, <3>4
      <4>2. \A z : ChildOK(e, i, z) => ChildOK(e, i, z)'
        <5>1. ~prog.with => log'[e][i + 1] = log[e][i + 1]
          <6>1. ~prog.with => log[e][i + 1] # Unset
            BY <3>4 DEF Forks
          <6> QED
            BY <1>2, <3>1, <6>1
        <5> QED
          BY <5>1 DEF Fill, ChildOK, Size
      <4> QED
        BY <1>1, <3>4, <4>1, <4>2 DEF HeapOK, ChildrenOK
    <3>5. CASE Forks(e, i) /\ e = d /\ q = j
      <4>1. ChildAt(e, i)' = v
        BY <1>2, <3>3, <3>5
      <4>2. ChildOK(d, i, v[2])
        BY <3>2, <3>5 DEF FillOK
      <4>3. ASSUME NEW z, z = v[2] PROVE ChildOK(d, i, z)'
        <5>1. ~prog.with => log'[d][i + 1] = log[d][i + 1]
          <6>1. ~prog.with => log[d][i + 1] # Unset
            BY <3>5 DEF Forks
          <6> QED
            BY <1>2, <3>1, <6>1
        <5> QED
          BY <4>2, <4>3, <5>1 DEF Fill, ChildOK, Size
      <4> QED
        BY <1>3, <3>5, <4>1, <4>3
    <3>6. CASE e = d /\ i + 1 = j /\ ~prog.with
      <4>1. q = i + 2
        BY <1>1, <3>1, <3>2, <3>6, ProgType
      <4>2. j < q
        BY <3>1, <3>6, <4>1
      <4> QED
        BY <3>3, <3>6, <4>2, FillAfter
    <3> QED
      BY <2>1, <3>4, <3>5, <3>6, FillForks
  <2>2. \A e \in Descriptors : Levels(e)' = Levels(e)
    BY FillSame
  <2> QED
    BY <1>3, <2>1, <2>2 DEF ChildrenOK
<1>10. ValuesOK'
  <2>1. ASSUME NEW e \in Descriptors, Base(e)'
        PROVE  /\ Value(e)' = Unset \/ (Value(e)'[1] = "word" /\ Value(e)'[2] \in Nat)
               /\ Mark(e)' = Unset \/ Mark(e)' = Word(1)
    <3>1. /\ Size(e)' = Size(e) /\ Size(e) \in Nat /\ Size(e) + 1 \in 1 .. LogLen /\ Size(e) + 2 \in 1 .. LogLen
      BY <1>1, FitsLog, FillSame
    <3>2. Value(e)' = log'[e][Size(e) + 1] /\ Mark(e)' = log'[e][Size(e) + 2]
      BY <3>1 DEF Value, Mark
    <3>3. CASE Base(e)
      <4>1. /\ Value(e) = Unset \/ (Value(e)[1] = "word" /\ Value(e)[2] \in Nat)
            /\ Mark(e) = Unset \/ Mark(e) = Word(1)
        BY <1>1, <3>3 DEF HeapOK, ValuesOK
      <4>2. Value(e)' = Value(e) \/ (e = d /\ j = Size(d) + 1 /\ Value(e)' = v)
        BY <1>2, <3>1, <3>2 DEF Value
      <4>3. Mark(e)' = Mark(e) \/ (e = d /\ j = Size(d) + 2 /\ Mark(e)' = v)
        BY <1>2, <3>1, <3>2 DEF Mark
      <4>4. e = d /\ j = Size(d) + 1 => v[2] \in Nat
        BY <3>3 DEF FillOK
      <4>5. e = d /\ j = Size(d) + 2 => v = Word(1)
        BY <3>3 DEF FillOK
      <4> QED
        BY <1>3, <4>1, <4>2, <4>3, <4>4, <4>5
    <3>4. CASE e = d /\ j <= Size(d)
      <4>1. j < Size(d) + 1 /\ j < Size(d) + 2
        BY <3>1, <3>4
      <4> QED
        BY <3>1, <3>2, <3>4, <4>1, FillAfter
    <3> QED
      BY <2>1, <3>3, <3>4, FillBase
  <2> QED
    BY <1>3, <2>1 DEF ValuesOK, Word
<1>11. FreshBlank'
  <2>1. ASSUME NEW e \in Descriptors, status'[e] = "fresh" PROVE desc'[e] = NoDesc /\ log'[e] = EmptyEntries
    <3>1. status[e] = "fresh" /\ e # d /\ desc'[e] = desc[e]
      BY <2>1 DEF FillOK, Fill
    <3>2. log'[e] = log[e]
      BY <1>1, <3>1 DEF Fill, TypeOK
    <3> QED
      BY <1>1, <3>1, <3>2 DEF HeapOK, FreshBlank
  <2>2. NoDesc' = NoDesc /\ EmptyEntries' = EmptyEntries
    BY DEF NoDesc, EmptyEntries, Unset
  <2> QED
    BY <2>1, <2>2 DEF FreshBlank
<1>12. DoneSettled' /\ ChainOrdered'
  BY FillRely, DoneSettledKept, ChainKept DEF Fill
<1> QED
  BY <1>4, <1>5, <1>6, <1>7, <1>8, <1>9, <1>10, <1>11, <1>12 DEF HeapOK

\* The children that a log holds afterwards.
LEMMA FillChild ==
  ASSUME InvA, NEW d \in Descriptors, NEW j \in 1 .. LogLen, NEW v, Fill(d, j, v),
         NEW e \in Descriptors, NEW y, HasChild(e, y)'
  PROVE  \/ HasChild(e, y)
         \/ e = d /\ v = Word(y) /\ \E i \in Levels(d) : Forks(d, i) /\ j = i + 1 + Off
<1>1. TypeOK /\ PathsFit
  BY DEF InvA, HeapOK
<1>2. PICK i \in Levels(e)' : Forks(e, i)' /\ ChildAt(e, i)' = Word(y)
  BY DEF HasChild, Word
<1>3. i \in Levels(e) /\ Off' = Off /\ Unset' = Unset
  BY <1>2, FillSame
<1>4. i \in Nat /\ i + 1 + Off \in 1 .. LogLen /\ i + 2 \in 1 .. LogLen
  BY <1>1, <1>3, FitsLog
<1>5. PICK q \in 1 .. LogLen : q = i + 1 + Off
  BY <1>4
<1>6. ChildAt(e, i) = log[e][q] /\ ChildAt(e, i)' = log'[e][q]
  BY <1>3, <1>5 DEF ChildAt
<1>7. CASE Forks(e, i) /\ (e # d \/ q # j)
  <2>1. ChildAt(e, i)' = ChildAt(e, i)
    BY <1>1, <1>6, <1>7, FillEntries
  <2> QED
    BY <1>2, <1>3, <1>7, <2>1 DEF HasChild
<1>8. CASE Forks(e, i) /\ e = d /\ q = j
  <2>1. ChildAt(e, i)' = v
    BY <1>1, <1>6, <1>8, FillEntries
  <2> QED
    BY <1>2, <1>3, <1>5, <1>8, <2>1
<1>9. CASE e = d /\ i + 1 = j /\ ~prog.with
  <2>1. q = i + 2 /\ j < q
    BY <1>1, <1>4, <1>5, <1>9, ProgType
  <2>2. ChildAt(e, i)' = Unset
    BY <1>6, <1>9, <2>1, FillAfter
  <2> QED
    BY <1>2, <2>2, EntryFacts
<1> QED
  BY <1>2, <1>7, <1>8, <1>9, FillForks

\* As long as the entry is not the place of a child, nobody's children change.
LEMMA FillPool ==
  ASSUME InvA, NEW d \in Descriptors, NEW j \in 1 .. LogLen, NEW v, Fill(d, j, v), TypeOK',
         \A i \in Levels(d) : Forks(d, i) => j # i + 1 + Off
  PROVE  PoolKept
<1>1. \A e, y \in Descriptors : HasChild(e, y)' => HasChild(e, y)
  BY FillChild
<1>2. ASSUME NEW t \in Threads, NEW k \in Depth(t), stack[t][k].pc = "commit", NEW e, e = stack[t][k].d
      PROVE  ~Held(e)' /\ ~desc'[e].acquired
  <2>1. ~Held(e) /\ ~desc[e].acquired
    BY <1>2 DEF InvA, OwnersOK, Privacy
  <2>2. Held(e)' <=> Held(e)
    BY FillSame
  <2> QED
    BY <2>1, <2>2 DEF Fill
<1>3. DescsKept => RootOK'
  BY FillRely, RootNeutral DEF Fill
<1> QED
  BY <1>1, <1>2, <1>3 DEF PoolKept, Fill

\* A call goes on, with any change of the heap that keeps the pool.
LEMMA StepCont ==
  ASSUME InvA, NEW t \in Threads, NEW w, NEW h, NEW f, NEW s, NEW n, Here(t, w, h, f, s, n),
         NEW g, Conts(t, g), Rely({}), TypeOK', HeapOK', PoolKept,
         calls' = calls, id' = id, helping' = helping, \A u \in Threads \ {t} : lg'[u] = lg[u],
         lg'[t].d = s, NEW m, m = lg'[t].n, NewFrame(t, g, s, m)',
         f.pc \notin Inherited, g.pc \notin Calling, g.pc \notin Inherited, TopSame(f, g),
         g.pc = "retire" => Owner(t, h) /\ (s # None => ChildDone(s)'),
         \A z : z = lg'[t] /\ z.d # None => BlockOK(z)',
         lg'[t].new => AtEnd(t)' /\ g.pc \in Extending,
         lg'[t].d = None => lg'[t] = EmptyLog
  PROVE  InvA'
<1>1. h = Height(t) /\ f = stack[t][h] /\ s = Sec(t, h) /\ stack[t] # <<>>
  BY DEF Here
<1>2. Alone(t) /\ calls'[t] = calls[t]
  BY DEF Alone
<1>3. GivesBack(t)
  BY SameGives DEF PoolKept
<1>4. id'[t] = TopId(t, g)'
  BY <1>1, <1>2, IdStays
<1>5. StackOK'
  BY <1>1, <1>2, <1>3, <1>4, ContStack
<1>6. OwnersOK'
  BY <1>1, <1>2, <1>3, ContOwners
<1> QED
  BY <1>5, <1>6 DEF InvA

\* A call that owns nothing returns.
LEMMA StepPop ==
  ASSUME InvA, NEW t \in Threads, NEW w, NEW h, NEW f, NEW s, NEW n, Here(t, w, h, f, s, n),
         NEW r, Pops(t, r), Rely({}), TypeOK', HeapOK', PoolKept,
         calls' = calls, id' = id, helping' = helping, \A u \in Threads \ {t} : lg'[u] = lg[u],
         lg'[t].d = s, f.pc \notin Inherited, f.pc # "ran", ~Owner(t, h),
         s # None => Settled(s)',
         \A z : z = lg'[t] /\ z.d # None => BlockOK(z)',
         ~lg'[t].new, lg'[t].d = None => lg'[t] = EmptyLog
  PROVE  InvA'
<1>1. h = Height(t) /\ f = stack[t][h] /\ s = Sec(t, h) /\ stack[t] # <<>>
  BY DEF Here
<1>2. Alone(t) /\ calls'[t] = calls[t] /\ id'[t] = id[t]
  BY DEF Alone
<1>3. GivesBack(t)
  BY SameGives DEF PoolKept
<1>4. h = 1 => id'[t] = t
  <2>1. id[t] = IdIn(t, s)
    BY <1>1, IdHere
  <2>2. h = 1 => s = None
    BY <1>1 DEF InvA, StackOK, SectionsNest
  <2> QED
    BY <1>2, <2>1, <2>2 DEF IdIn
<1>5. stack[t][h].pc \notin Inherited \cup {"ran"}
  BY <1>1
<1>6. StackOK'
  BY <1>1, <1>2, <1>3, <1>5, PopStackOK
<1>7. OwnersOK'
  BY <1>1, <1>2, <1>3, <1>4, PopOwners
<1> QED
  BY <1>6, <1>7 DEF InvA

\* The next position in the log, and the two cases of a commit.
LEMMA LgSet ==
  ASSUME TypeOK, NEW t \in Threads, NEW z \in Log, lg' = [lg EXCEPT ![t] = z]
  PROVE  lg' \in [Threads -> Log] /\ lg'[t] = z /\ \A u \in Threads \ {t} : lg'[u] = lg[u]
BY DEF TypeOK

NextLg(t) == lg' = [lg EXCEPT ![t].n = @ + 1]

\* The log position of a call after the next entry.
LEMMA LgNext ==
  ASSUME InvA, NEW t \in Threads, NEW w, NEW h, NEW f, NEW s, NEW n, Here(t, w, h, f, s, n),
         s # None, f.pc \in Extending, ~AtEnd(t), NEW j \in 1 .. LogLen, j = n + 1, NextLg(t)
  PROVE  /\ lg' \in [Threads -> Log] /\ lg'[t].d = s /\ lg'[t].n = j /\ ~lg'[t].new
         /\ \A u \in Threads \ {t} : lg'[u] = lg[u]
         /\ \A y : y = lg'[t] => BlockOK(y)
         /\ (j - 1) \div BlockLen <= ext[s]
<1>1. f.pc \notin {"ran", "helped", "reentered"} /\ s \in Descriptors /\ n \in Nat /\ TypeOK
  BY DEF Extending, Here, InvA
<1>2. PICK k : k = lg[t]
  OBVIOUS
<1>3. /\ k.d = s /\ k.n = n /\ k \in Log /\ BlockOK(k) /\ (k.new => AtEnd(t))
  BY <1>1, <1>2, LgHere
<1>4. PICK z : z = [k EXCEPT !.n = @ + 1]
  OBVIOUS
<1>5. ~(k.n \div BlockLen > k.block)
  BY <1>2, <1>3 DEF AtEnd
<1>6. z \in Log /\ z.d = s /\ z.n = j /\ z.new = k.new /\ BlockOK(z) /\ z.block = k.block
  BY <1>1, <1>3, <1>4, <1>5, NextEntryOK
<1>7. lg' = [lg EXCEPT ![t] = z]
  BY <1>2, <1>4 DEF NextLg
<1>8. lg' \in [Threads -> Log] /\ lg'[t] = z /\ \A u \in Threads \ {t} : lg'[u] = lg[u]
  BY <1>1, <1>6, <1>7, LgSet
<1>9. (j - 1) \div BlockLen <= ext[s]
  <2>0. ext[s] \in 0 .. LogLen
    BY <1>1, DescType
  <2>3. k.block \in Nat
    BY <1>3, LogType
  <2>4. n \div BlockLen \in Nat
    BY <1>1, Blocks
  <2>1. j - 1 = n /\ k.block \in Nat /\ ext[s] \in Nat /\ n \div BlockLen \in Nat
    BY <1>1, <2>0, <2>3, <2>4, Consts
  <2>2. k.block <= ext[s] /\ ~(n \div BlockLen > k.block)
    BY <1>3, <1>5 DEF BlockOK
  <2> QED
    BY <2>1, <2>2
<1> QED
  BY <1>2, <1>3, <1>6, <1>8, <1>9

\* A commit writes the value, or finds another one.
LEMMA CommitIs ==
  ASSUME TypeOK, NEW t \in Threads, NEW val, Commit(t, val), NEW d \in Descriptors, d = lg[t].d,
         NEW j \in 1 .. LogLen, j = lg[t].n + 1
  PROVE  /\ ~AtEnd(t) /\ NextLg(t)
         /\ \/ log[d][j] = Unset /\ log' = [log EXCEPT ![d][j] = Word(val)] /\ Committed(t, val) = Word(val)
            \/ log[d][j] # Unset /\ log' = log /\ Committed(t, val) = log[d][j]
<1>1. d # None
  BY Consts
<1>2. log \in [Descriptors -> [1 .. LogLen -> Entries]]
  BY DEF TypeOK
<1>3. Committed(t, val) = IF log[d][j] = Unset THEN Word(val) ELSE log[d][j]
  BY <1>1 DEF Committed, Entry
<1>4. log' = [log EXCEPT ![d][j] = Committed(t, val)] /\ ~AtEnd(t) /\ NextLg(t)
  BY <1>1 DEF Commit, NextLg
<1>5. [log EXCEPT ![d][j] = log[d][j]] = log
  BY <1>2
<1> QED
  BY <1>3, <1>4, <1>5

\* Outside of a lock nothing is committed.
LEMMA CommitNone ==
  ASSUME NEW t, NEW val, Commit(t, val), lg[t].d = None
  PROVE  log' = log /\ lg' = lg /\ Committed(t, val) = Word(val)
BY DEF Commit, Committed

\* A commit keeps the types.
LEMMA FillTypes ==
  ASSUME TypeOK, NEW d \in Descriptors, NEW j \in 1 .. LogLen, NEW v \in Entries, Fill(d, j, v),
         x' = x, calls' = calls, stores' \in [Locks -> Nat], made' = made,
         stack' \in [Threads -> Seq(Frames)], lg' \in [Threads -> Log],
         id' = id, helping' = helping
  PROVE  TypeOK'
<1>1. log' \in [Descriptors -> [1 .. LogLen -> Entries]]
  BY FillEntries
<1> QED
  BY <1>1 DEF TypeOK, Fill

\* Where a call inside a section is, and which lock it wants.
LEMMA PlaceHere ==
  ASSUME InvA, NEW t \in Threads, NEW w, NEW h, NEW f, NEW s, NEW n, Here(t, w, h, f, s, n),
         s # None, f.pc \notin Storing, NEW i, i = Level(f, s)
  PROVE  /\ s \in Descriptors /\ LockShape(t, f, s) /\ InsideShape(f, s, n, i)
         /\ i \in Levels(s) /\ i \in Nat /\ i < Size(s) /\ Size(s) \in Nat
         /\ i + 1 \in 1 .. LogLen /\ i + 2 \in 1 .. LogLen /\ i + 1 + Off \in 1 .. LogLen /\ i \in 0 .. Size(s)
         /\ f.lock = desc[s].path[i + 1] /\ Len(f.path) = Size(s) - i - 1
         /\ OwnUpTo(s, i) /\ (prog.with => i = 0)
         /\ IsRest(f.path, desc[s].path) /\ status[s] # "fresh" /\ Held(s)
<1>1. s \in Descriptors /\ f \in Frames /\ FrameShape(t, f, s, n) /\ TypeOK /\ PathsFit /\ Guarded(t, h, s)
  BY DEF Here, InvA, HeapOK
<1>2. LockShape(t, f, s) /\ InsideShape(f, s, n, i)
  BY <1>1 DEF FrameShape
<1>3. i \in Levels(s) /\ i \in 0 .. Size(s)
  BY <1>1, <1>2, LevelIn
<1>4. /\ i \in Nat /\ i + 1 \in 1 .. LogLen /\ i + 2 \in 1 .. LogLen /\ i + 1 + Off \in 1 .. LogLen
      /\ i < Size(s) /\ Size(s) \in Nat
  BY <1>1, <1>3, FitsLog
<1>5. Len(f.path) \in Nat /\ Size(s) = Len(desc[s].path) /\ PathIn(t, s) = desc[s].path
  BY <1>1, FrameType DEF Size, PathIn
<1>6. Len(f.path) = Size(s) - i - 1
  <2>1. i = Size(s) - Len(f.path) - 1
    BY DEF Level
  <2>2. PICK a \in Nat, b \in Nat : a = Size(s) /\ b = Len(f.path)
    BY <1>4, <1>5
  <2>3. i = a - b - 1 /\ i \in Nat
    BY <1>4, <2>1, <2>2
  <2>4. b = a - i - 1
    BY <2>2, <2>3
  <2> QED
    BY <2>2, <2>4
<1>7. f.lock = desc[s].path[Size(s) - Len(f.path)] /\ IsRest(f.path, desc[s].path)
  BY <1>2, <1>5 DEF LockShape
<1>8. Size(s) - Len(f.path) = i + 1
  BY <1>4, <1>6
<1>9. f.lock = desc[s].path[i + 1]
  BY <1>7, <1>8
<1>10. OwnUpTo(s, i) /\ (prog.with => i = 0) /\ status[s] # "fresh" /\ Held(s)
  BY <1>1, <1>2 DEF InsideShape, Guarded, InUse
<1> QED
  BY <1>1, <1>2, <1>3, <1>4, <1>6, <1>7, <1>9, <1>10

\* Entries that are owned are set.
LEMMA OwnedSet ==
  ASSUME NEW d, NEW m, OwnUpTo(d, m), NEW k, k \in 1 .. m
  PROVE  log[d][k] # Unset
BY OwnSet DEF OwnUpTo

\* TryLoad keeps the invariant outside of a lock,
LEMMA TryLoadOutside ==
  ASSUME InvA, NEW t \in Threads, TryLoad(t), NEW h, NEW f, NEW n, Here(t, "load", h, f, None, n)
  PROVE  InvA'
<1>1. /\ f = Top(t) /\ f.pc = "load" /\ f \in Frames /\ FrameShape(t, f, None, n) /\ FrameCount(f)
      /\ stack[t] # <<>> /\ TypeOK
  BY DEF Here, InvA
<1>2. PICK s : s = None
  OBVIOUS
<1>3. Here(t, "load", h, f, s, n) /\ f.lock \in Locks
  BY <1>1, <1>2, FrameType
<1>4. /\ lg[t].d = None /\ lg[t].n = n /\ lg[t] = EmptyLog /\ lg[t] \in Log
  BY <1>1, LgHere
<1>5. PICK c : c = lck[f.lock]
  OBVIOUS
<1>6. /\ c \in Nat \cup Descriptors
      /\ c \in Nat => c > 0 /\ AtMost(f.lock, c)
      /\ c \in Descriptors => Installed(c) /\ Known(c)
  BY <1>3, <1>5, LockWordOK
<1>7. log' = log /\ lg' = lg /\ Committed(t, c) = Word(c) /\ Committed(t, c)[2] = c
  BY <1>1, <1>4, <1>5, CommitNone, EntryFacts DEF TryLoad
<1>8. PICK g : g = [f EXCEPT !.cur = c, !.pc = "self"]
  OBVIOUS
<1>9. g \in Frames /\ g.pc = "self" /\ Alike(f, g) /\ g.cur = c
  BY <1>1, <1>6, <1>8, PcNames DEF Frames, Alike
<1>10. Continue(t, g)
  BY <1>1, <1>5, <1>7, <1>8 DEF TryLoad
<1>11. Conts(t, g) /\ stack' \in [Threads -> Seq(Frames)]
  BY <1>1, <1>9, <1>10, ContIs
<1>12. Calm(t)
  BY <1>1, <1>7 DEF TryLoad, Calm, HeapSame, poolVars, histVars, TypeOK
<1>13. /\ ~Sharing(g) /\ ~Sharing(f) /\ ~HasDesc(g) /\ g.pc \notin Storing /\ f.pc \notin Storing
       /\ g.pc \notin HelpIn \cup Inherited \cup Calling \cup WithOnly /\ f.pc \notin Inherited \cup Calling
  BY <1>1, <1>9 DEF Sharing, HasDesc, Early, Storing, HelpIn, Inherited, Calling, WithOnly
<1>14. FrameShape(t, g, s, n)
  <2>1. LockShape(t, f, None) /\ OutsideShape(t, f)
    BY <1>1, <1>13 DEF FrameShape
  <2>2. LockShape(t, g, None)
    BY <1>1, <1>9, <1>13, <2>1 DEF LockShape, Alike, TryOnly
  <2>3. OutsideShape(t, g)
    BY <1>9, <2>1 DEF OutsideShape, Alike
  <2> QED
    BY <1>2, <1>13, <2>2, <2>3 DEF FrameShape
<1>15. FrameCur(t, g, s)
  <2>1. c \in Descriptors => desc[c].thread # t
    BY <1>6, RootLoads
  <2> QED
    BY <1>6, <1>9, <1>13, <2>1 DEF FrameCur, HelpIn, Inherited
<1>16. FrameCount(g)
  BY <1>6, <1>9, <1>13 DEF FrameCount, Alike
<1>17. FrameDesc(t, g, s)
  BY <1>13 DEF FrameDesc
<1>18. TopSame(f, g)
  BY <1>1, <1>9, <1>13 DEF TopSame
<1>19. ~EmptyLog.new /\ EmptyLog.d = None
  BY DEF EmptyLog, LogOf
<1>20. /\ lg'[t].d = s /\ n = lg'[t].n /\ ~lg'[t].new /\ lg'[t] = EmptyLog /\ (~(s # None))
  BY <1>2, <1>4, <1>7, <1>19
<1>21. NewFrame(t, g, s, n) /\ g.pc # "retire"
  BY <1>9, <1>14, <1>15, <1>16, <1>17 DEF NewFrame
<1> QED
  BY <1>3, <1>9, <1>11, <1>12, <1>13, <1>18, <1>20, <1>21, CalmCont

\* The call with the word that the runs of its section have agreed on.
LEMMA LoadedFrame ==
  ASSUME InvA, NEW t \in Threads, NEW h, NEW f, NEW s, NEW n, Here(t, "load", h, f, s, n), s # None,
         Rely({}), HeapOK', desc' = desc,
         NEW i, i = Level(f, s), NEW j \in 1 .. LogLen, j = i + 1,
         NEW g \in Frames, g.pc = "self", Alike(f, g), log'[s][j] = Word(g.cur), g.cur \in Nat \cup Descriptors
  PROVE  NewFrame(t, g, s, j)' /\ TopSame(f, g)
<1>1. f.pc = "load" /\ FrameShape(t, f, s, n)
  BY DEF Here
<1>2. /\ ~Sharing(g) /\ ~Sharing(f) /\ ~HasDesc(g) /\ g.pc \notin Storing /\ f.pc \notin Storing
      /\ g.pc \notin HelpIn \cup Inherited \cup Calling \cup WithOnly
  BY <1>1 DEF Sharing, HasDesc, Early, Storing, HelpIn, Inherited, Calling, WithOnly
<1>3. /\ s \in Descriptors /\ LockShape(t, f, s) /\ InsideShape(f, s, n, i) /\ i \in Levels(s) /\ i \in Nat
      /\ i \in 0 .. Size(s) /\ OwnUpTo(s, i) /\ f.lock = desc[s].path[i + 1]
  BY <1>2, PlaceHere
<1>4. ~prog.with /\ prog' = prog
  BY <1>1, <1>3 DEF LockShape, TryOnly, Rely
<1>5. OwnUpTo(s, i)' /\ Levels(s)' = Levels(s) /\ Size(s)' = Size(s)
  BY <1>3, <1>4, OwnKept, SizeKept
<1>6. Word(g.cur) # Unset /\ Word(g.cur)[1] = "word" /\ Word(g.cur)[2] = g.cur /\ Unset' = Unset
  BY EntryFacts DEF Unset
<1>7. LoadEntry(s, i)'
  BY <1>3, <1>4, <1>5 DEF HeapOK, LoadsOK
<1>8. \/ g.cur \in Nat \ {0} /\ AtMost(f.lock, g.cur)'
      \/ g.cur \in Descriptors /\ Known(g.cur)'
  BY <1>3, <1>6, <1>7 DEF LoadEntry
<1>9. FrameShape(t, g, s, j)'
  <2>1. LockShape(t, g, s)'
    BY <1>2, <1>3, <1>4 DEF LockShape, Alike, PathIn
  <2>2. Level(g, s)' = i
    BY <1>5 DEF Level, Alike
  <2>3. InsideShape(g, s, j, i)'
    BY <1>2, <1>3, <1>4, <1>5 DEF InsideShape, Alike
  <2> QED
    BY <1>2, <2>1, <2>2, <2>3 DEF FrameShape
<1>10. FrameCur(t, g, s)'
  BY <1>2, <1>8, Consts DEF FrameCur
<1>11. FrameCount(g)'
  BY <1>2, <1>8, Consts DEF FrameCount, Alike
<1>12. FrameDesc(t, g, s)'
  BY <1>2 DEF FrameDesc
<1>13. TopSame(f, g)
  BY <1>1, <1>2 DEF TopSame
<1> QED
  BY <1>9, <1>10, <1>11, <1>12, <1>13 DEF NewFrame

\* and inside of one.
LEMMA TryLoadInside ==
  ASSUME InvA, NEW t \in Threads, TryLoad(t), NEW h, NEW f, NEW s, NEW n, Here(t, "load", h, f, s, n), s # None
  PROVE  InvA'
<1>1. /\ f = Top(t) /\ f.pc = "load" /\ f \in Frames /\ FrameShape(t, f, s, n)
      /\ stack[t] # <<>> /\ TypeOK /\ f.pc \notin Storing /\ f.lock \in Locks
  BY FrameType DEF Here, InvA, Storing
<1>2. PICK i : i = Level(f, s)
  OBVIOUS
<1>3. /\ s \in Descriptors /\ LockShape(t, f, s) /\ InsideShape(f, s, n, i) /\ i \in Levels(s) /\ i \in Nat
      /\ i + 1 \in 1 .. LogLen /\ OwnUpTo(s, i) /\ f.lock = desc[s].path[i + 1] /\ status[s] # "fresh"
      /\ i < Size(s) /\ Size(s) \in Nat
  BY <1>1, <1>2, PlaceHere
<1>4. n = i /\ ~prog.with
  BY <1>1, <1>3 DEF InsideShape, LockShape, TryOnly
<1>5. PICK j \in 1 .. LogLen : j = i + 1
  BY <1>3
<1>6. lg[t].d = s /\ lg[t].n = n
  BY <1>1, LgHere
<1>7. PICK c : c = lck[f.lock]
  OBVIOUS
<1>8. /\ c \in Nat \cup Descriptors
      /\ c \in Nat => c > 0 /\ AtMost(f.lock, c)
      /\ c \in Descriptors => Known(c) /\ status[c] = "live"
  BY <1>1, <1>7, LockWordOK
<1>9. /\ ~AtEnd(t) /\ NextLg(t)
      /\ \/ log[s][j] = Unset /\ log' = [log EXCEPT ![s][j] = Word(c)] /\ Committed(t, c) = Word(c)
         \/ log[s][j] # Unset /\ log' = log /\ Committed(t, c) = log[s][j]
  <2>1. Commit(t, c)
    BY <1>1, <1>7 DEF TryLoad
  <2> QED
    BY <1>1, <1>3, <1>4, <1>5, <1>6, <2>1, CommitIs
<1>10. /\ lg' \in [Threads -> Log] /\ lg'[t].d = s /\ lg'[t].n = j /\ ~lg'[t].new
       /\ \A u \in Threads \ {t} : lg'[u] = lg[u]
       /\ \A y : y = lg'[t] => BlockOK(y)
       /\ (j - 1) \div BlockLen <= ext[s]
  <2>1. j = n + 1 /\ f.pc \in Extending /\ ~AtEnd(t) /\ NextLg(t)
    BY <1>1, <1>4, <1>5, <1>9 DEF Extending
  <2> QED
    BY <1>5, <2>1, LgNext
<1>11. PICK v : v = Committed(t, c)[2]
  OBVIOUS
<1>12. PICK g : g = [f EXCEPT !.cur = v, !.pc = "self"]
  OBVIOUS
<1>13. log[s][j] # Unset => log[s][j] = Word(v) /\ v \in Nat \cup Descriptors
  <2>1. LoadEntry(s, i)
    BY <1>3, <1>4 DEF InvA, HeapOK, LoadsOK
  <2>2. log[s][j] # Unset => log[s][j][1] = "word"
    BY <1>5, <2>1 DEF LoadEntry
  <2>3. log[s][j] \in Entries
    BY <1>1, <1>3, DescType
  <2>4. log[s][j] # Unset => v = log[s][j][2]
    BY <1>9, <1>11
  <2> QED
    BY <2>2, <2>3, <2>4, EntryKinds
<1>14. log[s][j] = Unset => v = c
  BY <1>9, <1>11, EntryFacts
<1>15. v \in Nat \cup Descriptors
  BY <1>8, <1>13, <1>14
<1>16. g \in Frames /\ g.pc = "self" /\ Alike(f, g) /\ g.cur = v
  BY <1>1, <1>12, <1>15, PcNames DEF Frames, Alike
<1>17. Continue(t, g)
  BY <1>1, <1>7, <1>11, <1>12 DEF TryLoad
<1>18. Conts(t, g) /\ stack' \in [Threads -> Seq(Frames)]
  BY <1>1, <1>16, <1>17, ContIs
<1>19. /\ UNCHANGED <<lck, x, desc, ext, poolVars, id, helping, histVars>>
       /\ calls' = calls /\ id' = id /\ helping' = helping /\ desc' = desc /\ ext' = ext
  BY DEF TryLoad, histVars
<1>20. Rely({}) /\ HeapOK' /\ TypeOK' /\ PoolKept /\ log'[s][j] = Word(v)
  <2>1. CASE log[s][j] # Unset
    <3>1. HeapSame /\ x' = x /\ stores' = stores /\ made' = made
      BY <1>9, <1>19, <2>1 DEF HeapSame, poolVars, histVars
    <3>2. TypeOK'
      BY <1>1, <1>10, <1>18, <1>19, <3>1, SameTypes DEF TypeOK
    <3> QED
      BY <1>9, <1>13, <2>1, <3>1, <3>2, SameRely, SameHeap, SamePool
  <2>2. CASE log[s][j] = Unset
    <3>1. PICK w : w = Word(c)
      OBVIOUS
    <3>2. Fill(s, j, w) /\ x' = x /\ stores' = stores /\ made' = made
      BY <1>9, <1>19, <2>2, <3>1 DEF Fill, poolVars, histVars
    <3>3. w \in Entries /\ w # Unset /\ ~IsDone(w) /\ w[2] = c
      BY <1>8, <3>1, EntryFacts, EntryTypes
    <3>4. TypeOK'
      BY <1>1, <1>3, <1>10, <1>18, <1>19, <3>2, <3>3, FillTypes DEF TypeOK
    <3>5. \A q \in Levels(s) : Forks(s, q) => j # q + 1 + Off
      <4>1. SUFFICES ASSUME NEW q \in Levels(s), Forks(s, q), j = q + 1 + Off PROVE FALSE
        OBVIOUS
      <4>2. i <= q
        BY <1>1, <1>3, <1>4, <4>1, ForksTop
      <4>3. Off = 1 /\ q \in Nat
        BY <1>1, <1>3, <1>4, <4>1, ProgType, FitsLog DEF InvA, HeapOK
      <4> QED
        BY <1>3, <1>5, <4>1, <4>2, <4>3
    <3>6. FillOK(s, j, w)
      <4>1. \A k \in 1 .. LogLen : k < j => log[s][k] # Unset
        <5>1. ASSUME NEW k \in 1 .. LogLen, k < j PROVE log[s][k] # Unset
          <6>1. k \in 1 .. i
            BY <1>3, <1>5, <5>1
          <6> QED
            BY <1>3, <6>1, OwnedSet
        <5> QED
          BY <5>1
      <4>2. w[2] \in Descriptors => status[w[2]] # "fresh"
        BY <1>8, <3>3
      <4>3. (w[2] \in Nat \ {0} /\ AtMost(desc[s].path[j], w[2])) \/ (w[2] \in Descriptors /\ Known(w[2]))
        BY <1>3, <1>5, <1>8, <3>3
      <4>4. j # Size(s) + 1 /\ j # Size(s) + 2
        BY <1>3, <1>5
      <4> QED
        BY <1>3, <1>10, <3>3, <3>5, <4>1, <4>2, <4>3, <4>4 DEF FillOK
    <3>7. Rely({}) /\ HeapOK' /\ PoolKept
      BY <1>3, <3>2, <3>4, <3>5, <3>6, FillRely, FillHeap, FillPool
    <3>8. log'[s][j] = Word(v)
      BY <1>1, <1>3, <1>14, <2>2, <3>1, <3>2, FillEntries
    <3> QED
      BY <3>4, <3>7, <3>8
  <2> QED
    BY <2>1, <2>2
<1>21. NewFrame(t, g, s, j)' /\ TopSame(f, g)
  BY <1>2, <1>5, <1>15, <1>16, <1>19, <1>20, LoadedFrame
<1>22. \A z : z = lg'[t] /\ z.d # None => BlockOK(z)'
  BY <1>10, <1>19 DEF BlockOK
<1>23. g.pc \notin Calling /\ g.pc \notin Inherited /\ g.pc # "retire" /\ f.pc \notin Inherited
  BY <1>1, <1>16 DEF Calling, Inherited
<1> QED
  BY <1>10, <1>18, <1>19, <1>20, <1>21, <1>22, <1>23, StepCont

\* TryLoad keeps the invariant.
LEMMA TryLoadOK ==
  ASSUME InvA, NEW t \in Threads, TryLoad(t)
  PROVE  InvA'
<1>1. PICK h, f, s, n : Here(t, "load", h, f, s, n)
  BY HereIs DEF TryLoad
<1>2. CASE s = None
  BY <1>1, <1>2, TryLoadOutside
<1>3. CASE s # None
  BY <1>1, <1>3, TryLoadInside
<1> QED
  BY <1>2, <1>3

\* The runs of a section fork or store, not both.
LEMMA BaseNoFork ==
  ASSUME TypeOK, PathsFit, NEW d \in Descriptors, Base(d), NEW q \in Levels(d)
  PROVE  ~Forks(d, q)
<1>1. Size(d) \in Nat /\ q \in Nat /\ q < Size(d) /\ OwnUpTo(d, Size(d)) /\ (prog.with => Size(d) = 0)
  BY FitsLog DEF Base
<1>2. ~prog.with
  BY <1>1
<1>3. Forks(d, q) => Size(d) <= q
  BY <1>1, <1>2, ForksTop
<1> QED
  BY <1>1, <1>3

\* StoreGet keeps the invariant.
LEMMA StoreGetOK ==
  ASSUME InvA, NEW t \in Threads, StoreGet(t)
  PROVE  InvA'
<1>0. PICK h, f, s, n : Here(t, "get", h, f, s, n)
  BY HereIs DEF StoreGet
<1>1. /\ f = Top(t) /\ f.pc = "get" /\ f \in Frames /\ FrameShape(t, f, s, n)
      /\ stack[t] # <<>> /\ TypeOK /\ PathsFit /\ f.pc \in Storing /\ f.lock \in Locks
  BY <1>0, FrameType DEF Here, InvA, Storing, HeapOK
<1>2. /\ s \in Descriptors /\ s # None /\ StoreShape(f, s, n) /\ Size(s) \in Nat /\ Size(s) + 1 \in 1 .. LogLen
      /\ status[s] # "fresh"
  <2>1. s \in Descriptors /\ s # None /\ StoreShape(f, s, n) /\ Size(s) \in Nat /\ Size(s) + 1 \in 1 .. LogLen
    BY <1>0, <1>1, StoreSection
  <2> QED
    BY <1>0, <2>1 DEF Here, Guarded, InUse
<1>4. n = Size(s) /\ Base(s) /\ f.path = <<>> /\ f.lock = Target(s)
  BY <1>1, <1>2 DEF StoreShape
<1>5. PICK j \in 1 .. LogLen : j = Size(s) + 1
  BY <1>2
<1>6. lg[t].d = s /\ lg[t].n = n
  BY <1>0, <1>1, LgHere
<1>7. PICK c \in Nat : c = x[f.lock]
  BY <1>1 DEF TypeOK
<1>9. /\ ~AtEnd(t) /\ NextLg(t)
      /\ \/ log[s][j] = Unset /\ log' = [log EXCEPT ![s][j] = Word(c)] /\ Committed(t, c) = Word(c)
         \/ log[s][j] # Unset /\ log' = log /\ Committed(t, c) = log[s][j]
  <2>1. Commit(t, c)
    BY <1>1, <1>7 DEF StoreGet
  <2> QED
    BY <1>1, <1>2, <1>4, <1>5, <1>6, <2>1, CommitIs
<1>10. /\ lg' \in [Threads -> Log] /\ lg'[t].d = s /\ lg'[t].n = j /\ ~lg'[t].new
       /\ \A u \in Threads \ {t} : lg'[u] = lg[u]
       /\ \A y : y = lg'[t] => BlockOK(y)
       /\ (j - 1) \div BlockLen <= ext[s]
  <2>1. j = n + 1 /\ f.pc \in Extending /\ ~AtEnd(t) /\ NextLg(t)
    BY <1>1, <1>4, <1>5, <1>9 DEF Extending
  <2> QED
    BY <1>0, <1>2, <1>5, <2>1, LgNext
<1>11. PICK v : v = Committed(t, c)[2]
  OBVIOUS
<1>12. PICK g : g = [f EXCEPT !.cur = v, !.pc = "skip"]
  OBVIOUS
<1>13. log[s][j] # Unset => log[s][j] = Word(v) /\ v \in Nat
  <2>1. Value(s) = Unset \/ (Value(s)[1] = "word" /\ Value(s)[2] \in Nat)
    BY <1>2, <1>4 DEF InvA, HeapOK, ValuesOK
  <2>2. log[s][j] # Unset => log[s][j][1] = "word" /\ log[s][j][2] \in Nat
    BY <1>5, <2>1 DEF Value
  <2>3. log[s][j] \in Entries
    BY <1>1, <1>2, <1>5, DescType
  <2>4. log[s][j] # Unset => v = log[s][j][2]
    BY <1>9, <1>11
  <2> QED
    BY <2>2, <2>3, <2>4, EntryKinds
<1>14. log[s][j] = Unset => v = c
  BY <1>9, <1>11, EntryFacts
<1>15. v \in Nat
  BY <1>7, <1>13, <1>14
<1>16. g \in Frames /\ g.pc = "skip" /\ Alike(f, g) /\ g.cur = v
  BY <1>1, <1>12, <1>15, PcNames DEF Frames, Alike
<1>17. Continue(t, g)
  BY <1>1, <1>7, <1>11, <1>12 DEF StoreGet
<1>18. Conts(t, g) /\ stack' \in [Threads -> Seq(Frames)]
  BY <1>1, <1>16, <1>17, ContIs
<1>19. /\ UNCHANGED <<lck, x, desc, ext, poolVars, id, helping, histVars>>
       /\ calls' = calls /\ id' = id /\ helping' = helping /\ desc' = desc /\ ext' = ext
  BY DEF StoreGet, histVars
<1>20. Rely({}) /\ HeapOK' /\ TypeOK' /\ PoolKept /\ log'[s][j] = Word(v)
  <2>1. CASE log[s][j] # Unset
    <3>1. HeapSame /\ x' = x /\ stores' = stores /\ made' = made
      BY <1>9, <1>19, <2>1 DEF HeapSame, poolVars, histVars
    <3>2. TypeOK'
      BY <1>1, <1>10, <1>18, <1>19, <3>1, SameTypes DEF TypeOK
    <3> QED
      BY <1>9, <1>13, <2>1, <3>1, <3>2, SameRely, SameHeap, SamePool
  <2>2. CASE log[s][j] = Unset
    <3>1. PICK w : w = Word(c)
      OBVIOUS
    <3>2. Fill(s, j, w) /\ x' = x /\ stores' = stores /\ made' = made
      BY <1>9, <1>19, <2>2, <3>1 DEF Fill, poolVars, histVars
    <3>3. w \in Entries /\ w # Unset /\ ~IsDone(w) /\ w[2] = c
      BY <1>7, <3>1, EntryFacts, EntryTypes
    <3>4. TypeOK'
      BY <1>1, <1>2, <1>5, <1>10, <1>18, <1>19, <3>2, <3>3, FillTypes DEF TypeOK
    <3>5. \A q \in Levels(s) : ~Forks(s, q)
      BY <1>1, <1>2, <1>4, BaseNoFork
    <3>6. FillOK(s, j, w)
      <4>1. \A k \in 1 .. LogLen : k < j => log[s][k] # Unset
        <5>1. ASSUME NEW k \in 1 .. LogLen, k < j PROVE log[s][k] # Unset
          <6>1. k \in 1 .. Size(s)
            BY <1>2, <1>5, <5>1
          <6> QED
            BY <1>4, <6>1, OwnedSet DEF Base
        <5> QED
          BY <5>1
      <4>2. w[2] \notin Descriptors
        BY <1>7, <3>3, Consts
      <4>3. j - 1 \notin Levels(s)
        BY <1>2, <1>5 DEF Levels
      <4>4. j # Size(s) + 2
        BY <1>2, <1>5
      <4> QED
        BY <1>2, <1>7, <1>10, <3>3, <3>5, <4>1, <4>2, <4>3, <4>4 DEF FillOK
    <3>7. Rely({}) /\ HeapOK' /\ PoolKept
      BY <1>2, <1>5, <3>2, <3>4, <3>5, <3>6, FillRely, FillHeap, FillPool
    <3>8. log'[s][j] = Word(v)
      BY <1>1, <1>2, <1>5, <1>14, <2>2, <3>1, <3>2, FillEntries
    <3> QED
      BY <3>4, <3>7, <3>8
  <2> QED
    BY <2>1, <2>2
<1>21. NewFrame(t, g, s, j)' /\ TopSame(f, g)
  <2>1. /\ ~Sharing(g) /\ ~Sharing(f) /\ ~HasDesc(g) /\ g.pc \in Storing
        /\ g.pc \notin HelpIn \cup Inherited
    BY <1>1, <1>16 DEF Sharing, HasDesc, Early, Storing, HelpIn, Inherited
  <2>2. Base(s)' /\ Size(s)' = Size(s) /\ Target(s)' = Target(s)
    BY <1>2, <1>4, <1>20, BaseKept, SizeKept
  <2>3. StoreShape(g, s, j)'
    BY <1>2, <1>4, <1>5, <1>15, <1>16, <1>20, <2>2 DEF StoreShape, Value, Alike
  <2>4. FrameShape(t, g, s, j)' /\ FrameDesc(t, g, s)' /\ FrameCount(g)'
    BY <2>1, <2>3 DEF FrameShape, FrameDesc, FrameCount
  <2>5. FrameCur(t, g, s)'
    BY <1>2, <1>16, <2>1 DEF FrameCur, HelpIn, Inherited
  <2>6. TopSame(f, g)
    BY <1>1, <1>16, <2>1 DEF TopSame
  <2> QED
    BY <2>4, <2>5, <2>6 DEF NewFrame
<1>22. \A z : z = lg'[t] /\ z.d # None => BlockOK(z)'
  BY <1>10, <1>19 DEF BlockOK
<1>23. g.pc \notin Calling /\ g.pc \notin Inherited /\ g.pc # "retire" /\ f.pc \notin Inherited
  BY <1>1, <1>16 DEF Calling, Inherited
<1> QED
  BY <1>0, <1>2, <1>10, <1>18, <1>19, <1>20, <1>21, <1>22, <1>23, StepCont

\* StoreMark keeps the invariant.
LEMMA StoreMarkOK ==
  ASSUME InvA, NEW t \in Threads, StoreMark(t)
  PROVE  InvA'
<1>0. PICK h, f, s, n : Here(t, "mark", h, f, s, n)
  BY HereIs DEF StoreMark
<1>1. /\ f = Top(t) /\ f.pc = "mark" /\ f \in Frames /\ FrameShape(t, f, s, n) /\ f = stack[t][h]
      /\ stack[t] # <<>> /\ TypeOK /\ PathsFit /\ f.pc \in Storing /\ f.lock \in Locks
  BY <1>0, FrameType DEF Here, InvA, Storing, HeapOK
<1>2. /\ s \in Descriptors /\ s # None /\ StoreShape(f, s, n) /\ Size(s) \in Nat /\ Size(s) + 2 \in 1 .. LogLen
      /\ status[s] # "fresh"
  <2>1. s \in Descriptors /\ s # None /\ StoreShape(f, s, n) /\ Size(s) \in Nat /\ Size(s) + 2 \in 1 .. LogLen
    BY <1>0, <1>1, StoreSection
  <2> QED
    BY <1>0, <2>1 DEF Here, Guarded, InUse
<1>4. n = Size(s) + 2 /\ Base(s) /\ Value(s) = Word(f.cur)
  BY <1>1, <1>2 DEF StoreShape
<1>5. PICK j \in 1 .. LogLen : j = Size(s) + 2
  BY <1>2
<1>6. /\ lg[t].d = s /\ lg[t].n = n /\ ~lg[t].new /\ lg[t] \in Log
      /\ \A z : z = lg[t] /\ z.d # None => BlockOK(z)
  BY <1>0, <1>1, LgHere DEF Extending
<1>7. PICK w : w = Word(1)
  OBVIOUS
<1>8. w \in Entries /\ w # Unset /\ ~IsDone(w) /\ w[2] = 1
  BY <1>7, EntryFacts, EntryTypes
<1>9. log' = [log EXCEPT ![s][j] = w]
  BY <1>4, <1>5, <1>6, <1>7 DEF StoreMark
<1>10. /\ Pops(t, TRUE) /\ stack' \in [Threads -> Seq(Frames)]
       /\ stores' \in [Locks -> Nat] /\ prog' = prog /\ calls' = calls /\ callOf' = callOf /\ made' = made
  <2>1. Return(t, TRUE)
    BY DEF StoreMark
  <2> QED
    BY <1>1, <2>1, PopIs
<1>11. UNCHANGED <<lck, x, desc, ext, poolVars, localVars>> /\ lg' = lg /\ id' = id /\ helping' = helping /\ ext' = ext
  BY DEF StoreMark, localVars
<1>12. lg' \in [Threads -> Log]
  BY <1>1, <1>11 DEF TypeOK
<1>13. Rely({}) /\ HeapOK' /\ TypeOK' /\ PoolKept /\ log'[s][j] = w
  <2>1. CASE log[s][j] # Unset
    <3>1. log[s][j] = w
      BY <1>2, <1>4, <1>5, <1>7, <2>1 DEF InvA, HeapOK, ValuesOK, Mark
    <3>2. log' = log
      BY <1>1, <1>2, <1>9, <3>1 DEF TypeOK
    <3>3. HeapSame /\ x' = x
      BY <1>10, <1>11, <3>2 DEF HeapSame, poolVars
    <3>4. TypeOK'
      BY <1>1, <1>10, <1>11, <1>12, <3>3, SameTypes DEF TypeOK
    <3> QED
      BY <3>1, <3>2, <3>3, <3>4, SameRely, SameHeap, SamePool
  <2>2. CASE log[s][j] = Unset
    <3>1. Fill(s, j, w) /\ x' = x
      BY <1>9, <1>10, <1>11, <2>2 DEF Fill, poolVars
    <3>2. TypeOK'
      BY <1>1, <1>2, <1>5, <1>8, <1>10, <1>11, <1>12, <3>1, FillTypes
    <3>3. \A q \in Levels(s) : ~Forks(s, q)
      BY <1>1, <1>2, <1>4, BaseNoFork
    <3>4. FillOK(s, j, w)
      <4>1. \A k \in 1 .. LogLen : k < j => log[s][k] # Unset
        <5>1. ASSUME NEW k \in 1 .. LogLen, k < j PROVE log[s][k] # Unset
          <6>1. k \in 1 .. Size(s) \/ k = Size(s) + 1
            BY <1>2, <1>5, <5>1
          <6>2. log[s][Size(s) + 1] # Unset
            BY <1>4, EntryFacts DEF Value
          <6> QED
            BY <1>4, <6>1, <6>2, OwnedSet DEF Base
        <5> QED
          BY <5>1
      <4>2. w[2] \notin Descriptors
        BY <1>8, Consts
      <4>3. j - 1 \notin Levels(s)
        BY <1>2, <1>5 DEF Levels
      <4>4. (j - 1) \div BlockLen <= ext[s]
        <5>1. PICK z : z = lg[t]
          OBVIOUS
        <5>2. BlockOK(z) /\ z.d = s /\ z.n = j /\ z \in Log
          BY <1>2, <1>4, <1>5, <1>6, <5>1
        <5>3. z.block \in Nat /\ ext[s] \in 0 .. LogLen
          BY <1>1, <1>2, <5>2, LogType, DescType
        <5>4. (j - 1) \div BlockLen <= z.block /\ z.block <= ext[s]
          BY <5>2 DEF BlockOK
        <5>5. PICK a \in Nat : a = (j - 1) \div BlockLen
          <6>1. j - 1 \in Nat
            OBVIOUS
          <6> QED
            BY <6>1, Blocks
        <5>6. ext[s] \in Nat
          BY <5>3, Consts
        <5> QED
          BY <5>3, <5>4, <5>5, <5>6
      <4>5. j # Size(s) + 1
        BY <1>2, <1>5
      <4> QED
        BY <1>2, <1>7, <1>8, <3>3, <4>1, <4>2, <4>3, <4>4, <4>5 DEF FillOK
    <3>7. Rely({}) /\ HeapOK' /\ PoolKept
      BY <1>2, <1>5, <3>1, <3>2, <3>3, <3>4, FillRely, FillHeap, FillPool
    <3> QED
      BY <1>1, <1>2, <1>5, <3>1, <3>2, <3>7, FillEntries
  <2> QED
    BY <2>1, <2>2
<1>14. Settled(s)'
  <2>1. Base(s)' /\ Size(s)' = Size(s) /\ Unset' = Unset
    BY <1>2, <1>4, <1>13, BaseKept, SizeKept DEF Unset
  <2>2. Mark(s)' # Unset
    BY <1>5, <1>8, <1>13, <2>1 DEF Mark
  <2> QED
    BY <2>1, <2>2 DEF Settled
<1>15. \A z : z = lg'[t] /\ z.d # None => BlockOK(z)'
  BY <1>6, <1>11 DEF BlockOK
<1>16. f.pc \notin Inherited /\ f.pc # "ran" /\ ~Owner(t, h)
  BY <1>1 DEF Inherited, Owner, Sharing, Storing
<1>17. lg'[t].d = s /\ ~lg'[t].new /\ lg'[t].d # None /\ \A u \in Threads \ {t} : lg'[u] = lg[u]
  BY <1>2, <1>6, <1>11
<1> QED
  BY <1>0, <1>10, <1>11, <1>13, <1>14, <1>15, <1>16, <1>17, StepPop

\* Nobody has the descriptor for himself alone.
Shared(d) == \A u \in Threads : \A j \in Depth(u) : stack[u][j].pc = "commit" => stack[u][j].d # d

\* A field of a descriptor is raised or set.
Touch(d) ==
  /\ desc' \in [Descriptors ->
       [path : Seq(Locks), lock : Locks \cup {None}, done : BOOLEAN,
        acquired : BOOLEAN, thread : Threads \cup {None}, counter : Nat]]
  /\ \A e \in Descriptors \ {d} : desc'[e] = desc[e]
  /\ desc'[d].path = desc[d].path /\ desc'[d].lock = desc[d].lock /\ desc'[d].thread = desc[d].thread
  /\ \/ desc'[d].counter = desc[d].counter
     \/ prog.with /\ desc[d].counter <= desc'[d].counter /\ AtMost(desc[d].lock, desc'[d].counter)
  /\ desc[d].done => desc'[d].done
  /\ desc'[d].done => desc[d].done \/ (Held(d) /\ Settled(d))
  /\ desc[d].acquired => desc'[d].acquired
  /\ status[d] # "fresh" /\ Shared(d)
  /\ lck' = lck /\ log' = log /\ ext' = ext /\ status' = status
  /\ freeList' = freeList /\ prog' = prog /\ callOf' = callOf

\* What a step on the flags or the counter of a descriptor leaves alone.
LEMMA TouchSame ==
  ASSUME InvA, NEW d \in Descriptors, Touch(d)
  PROVE  /\ \A e \in Descriptors :
              /\ desc'[e].path = desc[e].path /\ desc'[e].lock = desc[e].lock /\ desc'[e].thread = desc[e].thread
              /\ Size(e)' = Size(e) /\ Levels(e)' = Levels(e)
              /\ desc[e].counter \in Nat /\ desc'[e].counter \in Nat /\ desc[e].counter <= desc'[e].counter
              /\ ~prog.with => desc'[e].counter = desc[e].counter
              /\ desc[e].done => desc'[e].done
              /\ desc[e].acquired => desc'[e].acquired
         /\ \A e : Installed(e)' <=> Installed(e)
         /\ \A e \in Descriptors : Held(e)' <=> Held(e)
         /\ Off' = Off /\ prog' = prog /\ Unset' = Unset
<1>1. TypeOK
  BY DEF InvA
<1>2. ASSUME NEW e \in Descriptors
      PROVE  /\ desc'[e].path = desc[e].path /\ desc'[e].lock = desc[e].lock /\ desc'[e].thread = desc[e].thread
             /\ Size(e)' = Size(e) /\ Levels(e)' = Levels(e)
             /\ desc[e].counter \in Nat /\ desc'[e].counter \in Nat /\ desc[e].counter <= desc'[e].counter
             /\ ~prog.with => desc'[e].counter = desc[e].counter
             /\ desc[e].done => desc'[e].done
             /\ desc[e].acquired => desc'[e].acquired
  <2>1. desc'[e].path = desc[e].path /\ desc'[e].lock = desc[e].lock /\ desc'[e].thread = desc[e].thread
    BY DEF Touch
  <2>2. desc[e].counter \in Nat /\ desc'[e].counter \in Nat
    BY <1>1 DEF Touch, TypeOK
  <2>3. desc[e].counter <= desc'[e].counter /\ (~prog.with => desc'[e].counter = desc[e].counter)
    BY <2>2 DEF Touch
  <2>4. (desc[e].done => desc'[e].done) /\ (desc[e].acquired => desc'[e].acquired)
    BY DEF Touch
  <2> QED
    BY <2>1, <2>2, <2>3, <2>4 DEF Size, Levels
<1>3. \A e : Installed(e)' <=> Installed(e)
  BY DEF Touch, Installed
<1>4. ASSUME NEW e \in Descriptors PROVE Held(e)' <=> Held(e)
  <2>1. desc'[e].done => Held(e)
    BY DEF Touch, Held
  <2> QED
    BY <1>2, <1>3, <2>1 DEF Held
<1> QED
  BY <1>2, <1>3, <1>4 DEF Touch, Off, Unset

\* The counters of locks after such a step.
LEMMA TouchLocks ==
  ASSUME InvA, NEW d \in Descriptors, Touch(d), NEW l \in Locks, NEW c \in Nat
  PROVE  (AtMost(l, c) => AtMost(l, c)') /\ (Moved(l, c) => Moved(l, c)')
<1>1. lck' = lck
  BY DEF Touch
<1>2. CASE lck[l] \in Descriptors
  <2>1. PICK e \in Descriptors : e = lck[l]
    BY <1>2
  <2>2. desc[e].counter \in Nat /\ desc'[e].counter \in Nat /\ desc[e].counter <= desc'[e].counter
    BY TouchSame
  <2> QED
    BY <1>1, <2>1, <2>2 DEF AtMost, Moved
<1>3. CASE lck[l] \notin Descriptors
  BY <1>1, <1>3 DEF AtMost, Moved
<1> QED
  BY <1>2, <1>3

\* Frames may rely on it.
LEMMA TouchRely ==
  ASSUME InvA, NEW d \in Descriptors, Touch(d)
  PROVE  Rely({})
<1>1. TypeOK
  BY DEF InvA
<1>2. ASSUME NEW e \in Descriptors PROVE DescKept(e)
  <2>1. \A k \in 1 .. LogLen : EntryKept(e, k)
    BY DEF EntryKept, Touch
  <2>2. ext[e] <= ext'[e]
    BY <1>1, DescType DEF Touch
  <2>3. ASSUME NEW l \in Locks, desc[e].lock = l, AtMost(l, desc[e].counter)
        PROVE  AtMost(l, desc[e].counter)'
    <3>1. PICK c \in Nat : c = desc'[e].counter
      BY TouchSame
    <3>2. AtMost(l, c)
      <4>1. CASE c = desc[e].counter
        BY <2>3, <4>1
      <4>2. CASE c # desc[e].counter
        <5>1. e = d
          BY <3>1, <4>2 DEF Touch
        <5> QED
          BY <2>3, <3>1, <4>2, <5>1 DEF Touch
      <4> QED
        BY <4>1, <4>2
    <3>3. AtMost(l, c)'
      BY <3>2, TouchLocks
    <3> QED
      BY <3>1, <3>3 DEF AtMost
  <2>4. Over(e) => Over(e)'
    <3>1. PICK c \in Nat : c = desc[e].counter
      BY TouchSame
    <3>2. PICK l : l = desc[e].lock
      OBVIOUS
    <3>3. ~prog.with /\ Moved(l, c) => Moved(l, c)'
      <4>1. CASE l \in Locks
        BY <4>1, TouchLocks
      <4>2. CASE l \notin Locks
        <5>1. status[e] = "fresh"
          BY <3>2, <4>2 DEF InvA, HeapOK, UsedFull
        <5>2. l = None /\ e # d
          BY <3>2, <5>1 DEF InvA, HeapOK, FreshBlank, NoDesc, Touch
        <5>3. CASE lck[l] \in Descriptors
          <6>1. PICK y \in Descriptors : y = lck[l]
            BY <5>3
          <6>2. desc[y].counter \in Nat /\ desc'[y].counter \in Nat /\ desc[y].counter <= desc'[y].counter
            BY TouchSame
          <6> QED
            BY <6>1, <6>2 DEF Moved, Touch
        <5>4. CASE lck[l] \notin Descriptors
          BY <5>4 DEF Moved, Touch
        <5> QED
          BY <5>3, <5>4
      <4> QED
        BY <4>1, <4>2
    <3>4. (Installed(e)' <=> Installed(e)) /\ (desc[e].done => desc'[e].done) /\ prog' = prog
      BY TouchSame
    <3>5. desc'[e].lock = l /\ (~prog.with => desc'[e].counter = c)
      BY <3>1, <3>2, TouchSame
    <3> QED
      BY <3>1, <3>2, <3>3, <3>4, <3>5 DEF Over, Moved
  <2> QED
    BY <2>1, <2>2, <2>3, <2>4, TouchSame DEF Touch, DescKept
<1>3. \A e \in Descriptors : StatusKept(e)
  BY TouchSame DEF Touch, StatusKept, Safe
<1>4. \A l \in Locks : \A c \in Nat : LockKept(l, c)
  BY TouchLocks DEF LockKept
<1> QED
  BY <1>2, <1>3, <1>4 DEF Touch, Rely

\* The logs after such a step.
LEMMA TouchForks ==
  ASSUME InvA, NEW d \in Descriptors, Touch(d), NEW e \in Descriptors
  PROVE  /\ \A j \in 1 .. LogLen : Own(e, j)' <=> Own(e, j)
         /\ \A i \in 0 .. LogLen : OwnUpTo(e, i)' <=> OwnUpTo(e, i)
         /\ \A i \in Levels(e) : Forks(e, i)' <=> Forks(e, i)
         /\ \A i : ChildAt(e, i)' = ChildAt(e, i)
         /\ \A y : HasChild(e, y)' <=> HasChild(e, y)
         /\ Base(e)' <=> Base(e)
         /\ Value(e)' = Value(e) /\ Mark(e)' = Mark(e)
<1>1. log' = log /\ prog' = prog /\ Off' = Off /\ Levels(e)' = Levels(e) /\ Size(e)' = Size(e) /\ Unset' = Unset
  BY TouchSame DEF Touch
<1>2. TypeOK /\ PathsFit
  BY DEF InvA, HeapOK
<1>3. ASSUME NEW j \in 1 .. LogLen PROVE Own(e, j)' <=> Own(e, j)
  <2>1. \A y \in Descriptors : desc'[y].thread = desc[y].thread
    BY TouchSame
  <2> QED
    BY <1>1, <2>1 DEF Own
<1>4. ASSUME NEW i \in 0 .. LogLen PROVE OwnUpTo(e, i)' <=> OwnUpTo(e, i)
  <2>1. \A j \in 1 .. i : j \in 1 .. LogLen
    BY Consts
  <2> QED
    BY <1>3, <2>1 DEF OwnUpTo
<1>5. ASSUME NEW i \in Levels(e) PROVE Forks(e, i)' <=> Forks(e, i)
  <2>1. i \in 0 .. LogLen /\ i + 1 \in 1 .. LogLen
    BY <1>2, FitsLog, Consts
  <2> QED
    BY <1>1, <1>3, <1>4, <2>1 DEF Forks
<1>6. \A i : ChildAt(e, i)' = ChildAt(e, i)
  BY <1>1 DEF ChildAt
<1>7. \A y : HasChild(e, y)' <=> HasChild(e, y)
  BY <1>1, <1>5, <1>6 DEF HasChild, Word
<1>8. Base(e)' <=> Base(e)
  <2>1. Size(e) \in 0 .. LogLen
    BY <1>2, FitsLog, Consts
  <2>2. PICK m \in 0 .. LogLen : m = Size(e)
    BY <2>1
  <2>3. OwnUpTo(e, m)' <=> OwnUpTo(e, m)
    BY <1>4
  <2> QED
    BY <1>1, <2>2, <2>3 DEF Base
<1>9. Value(e)' = Value(e) /\ Mark(e)' = Mark(e)
  BY <1>1 DEF Value, Mark
<1> QED
  BY <1>3, <1>4, <1>5, <1>6, <1>7, <1>8, <1>9

\* It keeps what is true of the heap,
LEMMA TouchHeap ==
  ASSUME InvA, NEW d \in Descriptors, Touch(d), TypeOK'
  PROVE  HeapOK'
<1>1. HeapOK /\ TypeOK /\ PathsFit
  BY DEF InvA, HeapOK
<1>2. /\ log' = log /\ lck' = lck /\ ext' = ext /\ status' = status /\ freeList' = freeList /\ prog' = prog
      /\ callOf' = callOf /\ Unset' = Unset /\ Off' = Off
  BY TouchSame DEF Touch
<1>3. \A e \in Descriptors :
        /\ desc'[e].path = desc[e].path /\ desc'[e].lock = desc[e].lock /\ desc'[e].thread = desc[e].thread
        /\ Size(e)' = Size(e) /\ Levels(e)' = Levels(e)
        /\ ~prog.with => desc'[e].counter = desc[e].counter
  BY TouchSame
<1>4. FlatReuse' /\ PathsFit' /\ ReuseFlat' /\ PrefixSet' /\ LogsKnown' /\ InBlocks' /\ NotTwice' /\ UsedFull'
  <2>1. FlatReuse' /\ PrefixSet' /\ LogsKnown' /\ InBlocks' /\ NotTwice'
    BY <1>1, <1>2 DEF HeapOK, FlatReuse, PrefixSet, LogsKnown, InBlocks, NotTwice
  <2>2. PathsFit' /\ ReuseFlat' /\ UsedFull'
    BY <1>1, <1>2, <1>3 DEF HeapOK, PathsFit, ReuseFlat, UsedFull
  <2> QED
    BY <2>1, <2>2
<1>5. FreshBlank'
  <2>1. \A e \in Descriptors : status'[e] = "fresh" => desc'[e] = desc[e] /\ status[e] = "fresh"
    BY DEF Touch
  <2>2. NoDesc' = NoDesc /\ EmptyEntries' = EmptyEntries
    BY DEF NoDesc, EmptyEntries, Unset
  <2> QED
    BY <1>1, <1>2, <2>1, <2>2 DEF HeapOK, FreshBlank
<1>6. FreeOK'
  <2>1. \A t \in Threads : \A j \in 1 .. Len(freeList[t]) : freeList[t][j] \in Descriptors
    BY <1>1 DEF TypeOK
  <2> QED
    BY <1>1, <1>2, <1>3, <2>1 DEF HeapOK, FreeOK
<1>7. LocksOK'
  BY <1>1, <1>2, <1>3 DEF HeapOK, LocksOK
<1>8. RetiredOver'
  <2>1. \A e \in Descriptors : Over(e) => Over(e)'
    BY TouchRely DEF Rely, DescKept
  <2> QED
    BY <1>1, <1>2, <2>1 DEF HeapOK, RetiredOver
<1>9. CountersOK'
  <2>1. ASSUME NEW e \in Descriptors, Held(e)' PROVE desc'[e].counter > 0
    <3>1. Held(e) /\ desc[e].counter \in Nat /\ desc'[e].counter \in Nat /\ desc[e].counter <= desc'[e].counter
      BY <2>1, TouchSame
    <3>2. desc[e].counter > 0
      BY <1>1, <3>1 DEF HeapOK, CountersOK
    <3> QED
      BY <3>1, <3>2
  <2>2. ASSUME NEW e \in Descriptors, desc'[e].done, ~prog.with
        PROVE  \A l, c : l = desc'[e].lock /\ c = desc'[e].counter => Moved(l, c)'
    <3>1. PICK c \in Nat : c = desc[e].counter
      BY TouchSame
    <3>2. PICK l : l = desc[e].lock
      OBVIOUS
    <3>3. Held(e)
      BY <2>2, TouchSame DEF Held
    <3>4. l \in Locks
      <4>1. status[e] # "fresh"
        <5>1. CASE e = d
          BY <5>1 DEF Touch
        <5>2. CASE e # d
          <6>1. desc[e].done
            BY <2>2, <5>2 DEF Touch
          <6> QED
            BY <1>1, <6>1 DEF HeapOK, FreshBlank, NoDesc
        <5> QED
          BY <5>1, <5>2
      <4> QED
        BY <1>1, <3>2, <4>1 DEF HeapOK, UsedFull
    <3>5. Moved(l, c)
      BY <2>2, <3>1, <3>2, <3>3, <3>4, HeldMoved
    <3>6. Moved(l, c)'
      BY <3>4, <3>5, TouchLocks
    <3> QED
      BY <1>3, <2>2, <3>1, <3>2, <3>6
  <2> QED
    BY <1>2, <2>1, <2>2 DEF CountersOK
<1>10. DoneSettled'
  <2>1. ASSUME NEW e \in Descriptors, desc'[e].done PROVE Settled(e)' \/ (desc[e].done /\ e \notin {})
    <3>1. CASE desc[e].done
      BY <3>1
    <3>2. CASE ~desc[e].done
      <4>1. e = d /\ Settled(d)
        BY <2>1, <3>2 DEF Touch
      <4>2. Settled(d)'
        BY <4>1, TouchRely, SettledKept
      <4> QED
        BY <4>1, <4>2
    <3> QED
      BY <3>1, <3>2
  <2>2. \A e \in Descriptors : desc'[e].done => Settled(e)' \/ (desc[e].done /\ e \notin {})
    BY <2>1
  <2> QED
    BY <2>2, TouchRely, DoneSettledKept
<1>11. ChainOrdered'
  BY <1>2, TouchRely, ChainKept
<1>12. LoadsOK'
  <2>1. ASSUME NEW e \in Descriptors, NEW i \in Levels(e), ~prog.with, OwnUpTo(e, i)'
        PROVE  LoadEntry(e, i)'
    <3>1. i \in 0 .. LogLen /\ i + 1 \in 1 .. LogLen
      BY <1>1, FitsLog, Consts
    <3>2. OwnUpTo(e, i)
      BY <2>1, <3>1, TouchForks
    <3>3. LoadEntry(e, i)
      BY <1>1, <2>1, <3>2 DEF HeapOK, LoadsOK
    <3>4. PICK en : en = log[e][i + 1]
      OBVIOUS
    <3>5. PICK l : l = desc[e].path[i + 1]
      OBVIOUS
    <3>6. l \in Locks
      <4>1. desc[e].path \in Seq(Locks) /\ i + 1 \in 1 .. Len(desc[e].path)
        BY <1>1, DescType DEF Levels, Size
      <4> QED
        BY <3>5, <4>1
    <3>7. en = Unset
          \/ (en[1] = "word" /\ en[2] \in Nat \ {0} /\ AtMost(l, en[2]))
          \/ (en[1] = "word" /\ en[2] \in Descriptors /\ Known(en[2]))
      BY <3>3, <3>4, <3>5 DEF LoadEntry
    <3>8. \A c \in Nat : AtMost(l, c) => AtMost(l, c)'
      BY <3>6, TouchLocks
    <3>9. \A y \in Descriptors : Known(y) => Known(y)'
      BY TouchRely, KnownKept
    <3>10. log'[e][i + 1] = en /\ desc'[e].path[i + 1] = l
      BY <1>2, <1>3, <3>4, <3>5
    <3> QED
      BY <1>2, <3>7, <3>8, <3>9, <3>10 DEF LoadEntry
  <2> QED
    BY <1>2, <1>3, <2>1 DEF LoadsOK
<1>13. ChildrenOK'
  <2>1. ASSUME NEW e \in Descriptors, NEW i \in Levels(e), Forks(e, i)'
        PROVE  \/ ChildAt(e, i)' = Unset
               \/ IsDone(ChildAt(e, i)')
               \/ ChildAt(e, i)'[1] = "word" /\ \A z : z = ChildAt(e, i)'[2] => ChildOK(e, i, z)'
    <3>1. Forks(e, i) /\ ChildAt(e, i)' = ChildAt(e, i)
      BY <2>1, TouchForks
    <3>2. ASSUME NEW z, ChildOK(e, i, z) PROVE ChildOK(e, i, z)'
      <4>1. z \in Descriptors
        BY <3>2 DEF ChildOK
      <4> QED
        BY <1>2, <1>3, <3>2, <4>1 DEF ChildOK
    <3> QED
      BY <1>1, <3>1, <3>2 DEF HeapOK, ChildrenOK
  <2> QED
    BY <1>2, <1>3, <2>1 DEF ChildrenOK
<1>14. ValuesOK'
  <2>1. \A e \in Descriptors : (Base(e)' <=> Base(e)) /\ Value(e)' = Value(e) /\ Mark(e)' = Mark(e)
    BY TouchForks
  <2> QED
    BY <1>1, <1>2, <2>1 DEF HeapOK, ValuesOK, Word
<1> QED
  BY <1>4, <1>5, <1>6, <1>7, <1>8, <1>9, <1>10, <1>11, <1>12, <1>13, <1>14 DEF HeapOK

\* and leaves the pools alone.
LEMMA TouchPool ==
  ASSUME InvA, NEW d \in Descriptors, Touch(d), TypeOK'
  PROVE  PoolKept
<1>1. \A e, y \in Descriptors : HasChild(e, y)' => HasChild(e, y)
  BY TouchForks
<1>2. ASSUME NEW t \in Threads, NEW k \in Depth(t), stack[t][k].pc = "commit", NEW e, e = stack[t][k].d
      PROVE  ~Held(e)' /\ ~desc'[e].acquired
  <2>1. ~Held(e) /\ ~desc[e].acquired
    BY <1>2 DEF InvA, OwnersOK, Privacy
  <2>2. e # d /\ e \in Descriptors
    <3>1. FrameDesc(t, stack[t][k], Sec(t, k))
      BY <1>2, FrameFacts DEF FrameOK
    <3> QED
      BY <1>2, <3>1 DEF Touch, Shared, FrameDesc, HasDesc, Early, Storing
  <2>3. Held(e)' <=> Held(e)
    BY <2>2, TouchSame
  <2> QED
    BY <2>1, <2>2, <2>3 DEF Touch
<1>3. DescsKept => RootOK'
  BY TouchRely, RootNeutral DEF Touch
<1> QED
  BY <1>1, <1>2, <1>3 DEF PoolKept, Touch

\* Whose descriptor is shared.
LEMMA SharedHeld ==
  ASSUME InvA, NEW d \in Descriptors, Known(d) \/ Held(d)
  PROVE  Shared(d)
<1>1. ASSUME NEW u \in Threads, NEW j \in Depth(u), stack[u][j].pc = "commit", stack[u][j].d = d PROVE FALSE
  <2>1. ~Held(d)
    BY <1>1 DEF InvA, OwnersOK, Privacy
  <2>2. prog.reuse
    BY <2>1 DEF Known
  <2>3. Sec(u, j) = None
    BY <1>1, <2>2, ReuseOutside DEF Storing
  <2>4. FrameShape(u, stack[u][j], Sec(u, j), Pos(u, j))
    BY FrameFacts DEF FrameOK
  <2> QED
    BY <1>1, <2>3, <2>4 DEF FrameShape, OutsideShape, Storing
<1> QED
  BY <1>1 DEF Shared

\* A descriptor that has been committed is not one that somebody is about to
\* commit.
LEMMA SharedHere ==
  ASSUME InvA, NEW t \in Threads, NEW h \in Depth(t), NEW f, f = stack[t][h], HasDesc(f), f.pc # "commit"
  PROVE  Shared(f.d)
BY DEF InvA, OwnersOK, Privacy, Shared

\* It keeps the types.
LEMMA TouchTypes ==
  ASSUME TypeOK, NEW d \in Descriptors, Touch(d),
         x' = x, calls' = calls, stores' = stores, made' = made,
         stack' \in [Threads -> Seq(Frames)], lg' \in [Threads -> Log],
         id' = id, helping' = helping
  PROVE  TypeOK'
BY DEF TypeOK, Touch

\* A call in progress touches a descriptor and goes on.
LEMMA TouchGo ==
  ASSUME InvA, NEW t \in Threads, NEW w, NEW h, NEW f, NEW s, NEW n, Here(t, w, h, f, s, n),
         NEW d \in Descriptors, Touch(d), NEW g \in Frames, Continue(t, g),
         x' = x, calls' = calls, stores' = stores, made' = made, id' = id, helping' = helping,
         lg' \in [Threads -> Log], \A u \in Threads \ {t} : lg'[u] = lg[u],
         f.pc \in {"ran", "helped"} => lg'[t] = f.lg,
         f.pc \notin {"ran", "helped"} => lg'[t] = lg[t],
         f.pc \notin Extending, f.pc # "reentered",
         Moves(f, g), g.pc \notin Calling,
         g.pc \in WithOnly => prog.with, g.pc \in TryOnly => ~prog.with,
         g.pc # "acquire", g.pc # "retire", f.pc # "recheck",
         g.pc = "recheck" => s # None /\ f.pc = "acquire" /\ desc'[f.d].acquired,
         f.pc = "acquire" => g.pc = "recheck",
         g.pc \in Inherited <=> f.pc \in Inherited,
         f.pc \in Inherited => g.cur = f.cur,
         TypeOK' /\ NewFrame(t, f, s, n)' => FrameCur(t, g, s)' /\ FrameCount(g)'
  PROVE  InvA'
<1>1. /\ stack[t] # <<>> /\ h = Height(t) /\ f = stack[t][h] /\ s = Sec(t, h) /\ n = Pos(t, h) /\ h \in Depth(t)
      /\ f.pc = w /\ f \in Frames /\ TypeOK
      /\ FrameShape(t, f, s, n) /\ FrameCur(t, f, s) /\ FrameDesc(t, f, s)
  BY DEF Here, InvA
<1>2. Conts(t, g) /\ stack' \in [Threads -> Seq(Frames)]
  BY <1>1, ContIs
<1>3. TypeOK'
  BY <1>1, <1>2, TouchTypes
<1>4. Rely({}) /\ HeapOK' /\ PoolKept /\ GivesBack(t)
  BY <1>3, TouchRely, TouchHeap, TouchPool, SameGives DEF Touch
<1>5. /\ \A z : z = lg'[t] /\ z.d # None => BlockOK(z)'
      /\ lg'[t].d = s /\ lg'[t].n = n /\ ~lg'[t].new
      /\ lg'[t].d = None => lg'[t] = EmptyLog
  <2>1. CASE f.pc \in {"ran", "helped"}
    BY <1>1, <1>3, <1>4, <2>1, LgBack
  <2>2. CASE f.pc \notin {"ran", "helped"}
    BY <1>1, <1>3, <1>4, <2>2, LgSame
  <2> QED
    BY <2>1, <2>2
<1>6. Alone(t)
  BY <1>5 DEF Alone
<1>7. FrameShape(t, f, s, n)' /\ FrameCur(t, f, s)' /\ FrameDesc(t, f, s)' /\ FrameCount(f)'
  <2>1. ChildrenOK' /\ LocksOK'
    BY <1>4 DEF HeapOK
  <2> QED
    BY <1>1, <1>3, <1>4, <2>1, FrameKept
<1>8. FrameCur(t, g, s)' /\ FrameCount(g)'
  BY <1>3, <1>7 DEF NewFrame
<1>9. id'[t] = TopId(t, g)'
  <2>1. id[t] = TopId(t, f)
    BY <1>1, TopIn
  <2>2. CASE f.pc \in Inherited
    <3>1. f.cur \in Descriptors
      BY <1>1, <2>2 DEF FrameCur, Inherited, HelpIn
    <3>2. desc'[f.cur].thread = desc[f.cur].thread
      BY <3>1, TouchSame
    <3> QED
      BY <2>1, <2>2, <3>2 DEF TopId
  <2>3. CASE f.pc \notin Inherited
    BY <1>1, <1>4, <1>5, <2>3, IdStays
  <2> QED
    BY <2>2, <2>3
<1>10. s # None /\ g.le = 0 =>
           /\ g.pc = "recheck" => (desc[g.d].acquired \/ IsDone(ChildAt(s, Level(g, s))))'
           /\ g.pc \notin {"acquire", "recheck"} => Safe(g.d)'
  <2>1. CASE g.pc = "recheck"
    BY <2>1 DEF Moves
  <2>2. CASE g.pc # "recheck"
    <3>1. f.pc \notin {"acquire", "recheck"}
      BY <2>2
    <3> QED
      BY <1>7, <2>2, <3>1, MoveSafe
  <2> QED
    BY <2>1, <2>2
<1>11. /\ s # None \/ g.pc \notin {"acquire", "recheck"}
       /\ f.pc \in {"acquire", "recheck"} \/ g.pc \notin {"acquire", "recheck"}
  OBVIOUS
<1>12. StackOK' /\ OwnersOK'
  BY <1>1, <1>2, <1>3, <1>4, <1>5, <1>6, <1>8, <1>9, <1>10, <1>11, MoveStep
<1> QED
  BY <1>3, <1>4, <1>12 DEF InvA

\* One field of one descriptor is written.
LEMMA DescSet ==
  ASSUME TypeOK, NEW d \in Descriptors
  PROVE  /\ \A r \in BOOLEAN : \A e \in Descriptors :
              LET b == [desc EXCEPT ![d].acquired = r] IN
              /\ b \in [Descriptors ->
                    [path : Seq(Locks), lock : Locks \cup {None}, done : BOOLEAN,
                     acquired : BOOLEAN, thread : Threads \cup {None}, counter : Nat]]
              /\ e # d => b[e] = desc[e]
              /\ b[d].path = desc[d].path /\ b[d].lock = desc[d].lock /\ b[d].thread = desc[d].thread
              /\ b[d].counter = desc[d].counter /\ b[d].done = desc[d].done /\ b[d].acquired = r
         /\ \A r \in BOOLEAN : \A e \in Descriptors :
              LET b == [desc EXCEPT ![d].done = r] IN
              /\ b \in [Descriptors ->
                    [path : Seq(Locks), lock : Locks \cup {None}, done : BOOLEAN,
                     acquired : BOOLEAN, thread : Threads \cup {None}, counter : Nat]]
              /\ e # d => b[e] = desc[e]
              /\ b[d].path = desc[d].path /\ b[d].lock = desc[d].lock /\ b[d].thread = desc[d].thread
              /\ b[d].counter = desc[d].counter /\ b[d].acquired = desc[d].acquired /\ b[d].done = r
         /\ \A r \in Nat : \A e \in Descriptors :
              LET b == [desc EXCEPT ![d].counter = r] IN
              /\ b \in [Descriptors ->
                    [path : Seq(Locks), lock : Locks \cup {None}, done : BOOLEAN,
                     acquired : BOOLEAN, thread : Threads \cup {None}, counter : Nat]]
              /\ e # d => b[e] = desc[e]
              /\ b[d].path = desc[d].path /\ b[d].lock = desc[d].lock /\ b[d].thread = desc[d].thread
              /\ b[d].acquired = desc[d].acquired /\ b[d].done = desc[d].done /\ b[d].counter = r
BY DEF TypeOK

\* Acquiring a descriptor is such a step.
LEMMA AcquireTouch ==
  ASSUME InvA, NEW d \in Descriptors, Acquire(d), status[d] # "fresh", Shared(d),
         UNCHANGED <<lck, log, ext, poolVars, prog, callOf>>
  PROVE  Touch(d) /\ desc'[d].acquired
<1>1. TypeOK
  BY DEF InvA
<1>2. PICK b : b = [desc EXCEPT ![d].acquired = TRUE]
  OBVIOUS
<1>3. desc' = b
  BY <1>2 DEF Acquire
<1>4. /\ b \in [Descriptors ->
            [path : Seq(Locks), lock : Locks \cup {None}, done : BOOLEAN,
             acquired : BOOLEAN, thread : Threads \cup {None}, counter : Nat]]
      /\ \A e \in Descriptors \ {d} : b[e] = desc[e]
      /\ b[d].path = desc[d].path /\ b[d].lock = desc[d].lock /\ b[d].thread = desc[d].thread
      /\ b[d].counter = desc[d].counter /\ b[d].done = desc[d].done /\ b[d].acquired = TRUE
  BY <1>1, <1>2, DescSet
<1> QED
  BY <1>3, <1>4 DEF Touch, poolVars

\* So is saying that it is done.
LEMMA DoneTouch ==
  ASSUME InvA, NEW d \in Descriptors, desc' = [desc EXCEPT ![d].done = TRUE], status[d] # "fresh",
         Held(d), Settled(d), UNCHANGED <<lck, log, ext, poolVars, prog, callOf>>
  PROVE  Touch(d) /\ desc'[d].done
<1>1. TypeOK /\ Shared(d)
  BY SharedHeld DEF InvA
<1>2. PICK b : b = [desc EXCEPT ![d].done = TRUE]
  OBVIOUS
<1>3. desc' = b
  BY <1>2
<1>4. /\ b \in [Descriptors ->
            [path : Seq(Locks), lock : Locks \cup {None}, done : BOOLEAN,
             acquired : BOOLEAN, thread : Threads \cup {None}, counter : Nat]]
      /\ \A e \in Descriptors \ {d} : b[e] = desc[e]
      /\ b[d].path = desc[d].path /\ b[d].lock = desc[d].lock /\ b[d].thread = desc[d].thread
      /\ b[d].counter = desc[d].counter /\ b[d].acquired = desc[d].acquired /\ b[d].done = TRUE
  BY <1>1, <1>2, DescSet
<1> QED
  BY <1>1, <1>3, <1>4 DEF Touch, poolVars

\* TryAcquire keeps the invariant.
LEMMA TryAcquireOK ==
  ASSUME InvA, NEW t \in Threads, TryAcquire(t)
  PROVE  InvA'
<1>1. PICK h, f, s, n : Here(t, "acquire", h, f, s, n)
  BY HereIs DEF TryAcquire
<1>2. /\ f = Top(t) /\ f.pc = "acquire" /\ f \in Frames /\ f = stack[t][h] /\ h \in Depth(t) /\ TypeOK
      /\ FrameShape(t, f, s, n) /\ FrameCur(t, f, s) /\ FrameDesc(t, f, s) /\ FrameCount(f)
  BY <1>1 DEF Here, InvA
<1>3. UNCHANGED <<lck, x, log, ext, poolVars, localVars, histVars>>
  BY DEF TryAcquire
<1>4. PICK g : g = [f EXCEPT !.pc = "recheck"]
  OBVIOUS
<1>5. g \in Frames /\ g.pc = "recheck" /\ Alike(f, g) /\ g.cur = f.cur
  BY <1>2, <1>4, PcNames DEF Frames, Alike
<1>6. Continue(t, g)
  BY <1>2, <1>4 DEF TryAcquire, Goto
<1>7. Sharing(f) /\ Moves(f, g) /\ HasDesc(f)
  BY <1>2, <1>5 DEF Moves, Alike, Sharing, Early, Storing, HasDesc
<1>8. f.d \in Descriptors /\ status[f.d] # "fresh" /\ Shared(f.d)
  BY <1>2, <1>7, SharedHere DEF FrameDesc
<1>9. Touch(f.d) /\ desc'[f.d].acquired
  BY <1>2, <1>3, <1>8, AcquireTouch DEF TryAcquire, histVars
<1>10. s # None
  BY <1>2 DEF FrameShape, OutsideShape, Storing
<1>11. FrameCur(t, f, s)' /\ FrameCount(f)' => FrameCur(t, g, s)' /\ FrameCount(g)'
  BY <1>2, <1>5 DEF FrameCur, FrameCount, Alike, HelpIn, Inherited, Storing, HasDesc, Early
<1>12. lg' \in [Threads -> Log] /\ lg' = lg /\ id' = id /\ helping' = helping /\ x' = x /\ calls' = calls
       /\ stores' = stores /\ made' = made
  BY <1>2, <1>3 DEF TypeOK, localVars, histVars
<1>13. f.pc \notin Extending /\ f.pc \notin Inherited /\ g.pc \notin Inherited \cup Calling \cup WithOnly \cup TryOnly
  BY <1>2, <1>5 DEF Extending, Inherited, Calling, WithOnly, TryOnly
<1> QED
  BY <1>1, <1>2, <1>5, <1>6, <1>7, <1>8, <1>9, <1>10, <1>11, <1>12, <1>13, TouchGo DEF NewFrame

\* HelpAcquire keeps the invariant.
LEMMA HelpAcquireOK ==
  ASSUME InvA, NEW t \in Threads, HelpAcquire(t)
  PROVE  InvA'
<1>1. PICK h, f, s, n : Here(t, "help_acquire", h, f, s, n)
  BY HereIs DEF HelpAcquire
<1>2. /\ f = Top(t) /\ f.pc = "help_acquire" /\ f \in Frames /\ f = stack[t][h] /\ h \in Depth(t) /\ TypeOK
      /\ FrameShape(t, f, s, n) /\ FrameCur(t, f, s) /\ FrameDesc(t, f, s) /\ FrameCount(f)
  BY <1>1 DEF Here, InvA
<1>3. UNCHANGED <<lck, x, log, ext, poolVars, localVars, histVars>>
  BY DEF HelpAcquire
<1>4. PICK g : g = [f EXCEPT !.pc = "help_check"]
  OBVIOUS
<1>5. g \in Frames /\ g.pc = "help_check" /\ Alike(f, g) /\ g.cur = f.cur /\ g.id = f.id
  BY <1>2, <1>4, PcNames DEF Frames, Alike
<1>6. Continue(t, g)
  BY <1>2, <1>4 DEF HelpAcquire, Goto
<1>7. Sharing(f) /\ Moves(f, g)
  BY <1>2, <1>5 DEF Moves, Alike, Sharing, Early, Storing
<1>8. PICK d : d = f.cur
  OBVIOUS
<1>9. d \in Descriptors /\ Known(d)
  BY <1>2, <1>8 DEF FrameCur, HelpIn, Storing
<1>10. status[d] # "fresh" /\ Shared(d)
  BY <1>9, SharedHeld DEF Known
<1>11. Touch(d) /\ desc'[d].acquired
  BY <1>2, <1>3, <1>8, <1>9, <1>10, AcquireTouch DEF HelpAcquire, histVars
<1>12. FrameCur(t, f, s)' /\ FrameCount(f)' => FrameCur(t, g, s)' /\ FrameCount(g)'
  BY <1>2, <1>5, <1>8, <1>11 DEF FrameCur, FrameCount, Alike, HelpIn, Inherited, Storing, HasDesc, Early
<1>13. lg' \in [Threads -> Log] /\ lg' = lg /\ id' = id /\ helping' = helping /\ x' = x /\ calls' = calls
       /\ stores' = stores /\ made' = made
  BY <1>2, <1>3 DEF TypeOK, localVars, histVars
<1>14. f.pc \notin Extending /\ f.pc \in Inherited /\ g.pc \in Inherited /\ g.pc \notin Calling \cup WithOnly \cup TryOnly
  BY <1>2, <1>5 DEF Extending, Inherited, Calling, WithOnly, TryOnly
<1> QED
  BY <1>1, <1>2, <1>5, <1>6, <1>7, <1>9, <1>11, <1>12, <1>13, <1>14, TouchGo DEF NewFrame

\* TryRan keeps the invariant.
LEMMA TryRanOK ==
  ASSUME InvA, NEW t \in Threads, TryRan(t)
  PROVE  InvA'
<1>1. PICK h, f, s, n : Here(t, "ran", h, f, s, n)
  BY HereIs DEF TryRan
<1>2. /\ f = Top(t) /\ f.pc = "ran" /\ f \in Frames /\ f = stack[t][h] /\ h \in Depth(t) /\ TypeOK
      /\ h = Height(t) /\ stack[t] # <<>>
      /\ FrameShape(t, f, s, n) /\ FrameCur(t, f, s) /\ FrameDesc(t, f, s) /\ FrameCount(f)
  BY <1>1 DEF Here, InvA
<1>3. UNCHANGED <<lck, x, log, ext, poolVars, id, helping, histVars>> /\ lg' = [lg EXCEPT ![t] = f.lg]
  BY <1>2 DEF TryRan
<1>4. PICK g : g = [f EXCEPT !.pc = "clear"]
  OBVIOUS
<1>5. g \in Frames /\ g.pc = "clear" /\ Alike(f, g) /\ g.cur = f.cur
  BY <1>2, <1>4, PcNames DEF Frames, Alike
<1>6. Continue(t, g)
  BY <1>2, <1>4 DEF TryRan, Goto
<1>7. Sharing(f) /\ Moves(f, g)
  BY <1>2, <1>5 DEF Moves, Alike, Sharing, Early, Storing
<1>8. PICK d : d = f.d
  OBVIOUS
<1>9. d \in Descriptors /\ status[d] # "fresh" /\ Held(d)
  BY <1>2, <1>7, <1>8, HasD DEF FrameCount, Storing
<1>10. Settled(d)
  <2>1. lg[t].d = d
    BY <1>2, <1>8, TopIn DEF Inner, Calling
  <2>2. Settled(lg[t].d)
    BY <1>2 DEF InvA, StackOK, Returned, Calling
  <2> QED
    BY <2>1, <2>2
<1>11. Touch(d) /\ desc'[d].done
  BY <1>2, <1>3, <1>8, <1>9, <1>10, DoneTouch DEF TryRan, histVars
<1>12. FrameCur(t, f, s)' /\ FrameCount(f)' => FrameCur(t, g, s)' /\ FrameCount(g)'
  BY <1>2, <1>5, <1>8, <1>11 DEF FrameCur, FrameCount, Alike, HelpIn, Inherited, Storing, HasDesc, Early
<1>13. id' = id /\ helping' = helping /\ x' = x /\ calls' = calls /\ stores' = stores /\ made' = made
  BY <1>3 DEF histVars
<1>14. lg' \in [Threads -> Log] /\ lg'[t] = f.lg /\ \A u \in Threads \ {t} : lg'[u] = lg[u]
  BY <1>2, <1>3, FrameType, LgSet
<1>15. f.pc \notin Extending /\ f.pc \notin Inherited /\ g.pc \notin Inherited \cup Calling \cup WithOnly \cup TryOnly
  BY <1>2, <1>5 DEF Extending, Inherited, Calling, WithOnly, TryOnly
<1> QED
  BY <1>1, <1>2, <1>5, <1>6, <1>7, <1>9, <1>11, <1>12, <1>13, <1>14, <1>15, TouchGo DEF NewFrame

\* Helped keeps the invariant.
LEMMA HelpedOK ==
  ASSUME InvA, NEW t \in Threads, Helped(t)
  PROVE  InvA'
<1>1. PICK h, f, s, n : Here(t, "helped", h, f, s, n)
  BY HereIs DEF Helped
<1>2. /\ f = Top(t) /\ f.pc = "helped" /\ f \in Frames /\ f = stack[t][h] /\ h \in Depth(t) /\ TypeOK
      /\ h = Height(t) /\ stack[t] # <<>>
      /\ FrameShape(t, f, s, n) /\ FrameCur(t, f, s) /\ FrameDesc(t, f, s) /\ FrameCount(f)
  BY <1>1 DEF Here, InvA
<1>3. UNCHANGED <<lck, x, log, ext, poolVars, id, helping, histVars>> /\ lg' = [lg EXCEPT ![t] = f.lg]
  BY <1>2 DEF Helped
<1>4. PICK g : g = [f EXCEPT !.lg = EmptyLog, !.pc = "help_clear"]
  OBVIOUS
<1>5. g \in Frames /\ g.pc = "help_clear" /\ Alike(f, g) /\ g.cur = f.cur /\ g.id = f.id
  BY <1>2, <1>4, PcNames, LogKnown DEF Frames, Alike
<1>6. Continue(t, g)
  BY <1>2, <1>4 DEF Helped
<1>7. Sharing(f) /\ Moves(f, g)
  BY <1>2, <1>5 DEF Moves, Alike, Sharing, Early, Storing
<1>8. PICK d : d = f.cur
  OBVIOUS
<1>9. d \in Descriptors /\ status[d] # "fresh" /\ Held(d) /\ Safe(d)
  BY <1>2, <1>8 DEF FrameCur, HelpIn, Storing, Safe
<1>10. Settled(d)
  <2>1. lg[t].d = d
    BY <1>2, <1>8, TopIn DEF Inner, Calling
  <2>2. Settled(lg[t].d)
    BY <1>2 DEF InvA, StackOK, Returned, Calling
  <2> QED
    BY <2>1, <2>2
<1>11. Touch(d) /\ desc'[d].done
  BY <1>2, <1>3, <1>8, <1>9, <1>10, DoneTouch DEF Helped, histVars
<1>12. FrameCur(t, f, s)' /\ FrameCount(f)' => FrameCur(t, g, s)' /\ FrameCount(g)'
  BY <1>2, <1>5, <1>8, <1>11 DEF FrameCur, FrameCount, Alike, HelpIn, Inherited, Storing, HasDesc, Early
<1>13. id' = id /\ helping' = helping /\ x' = x /\ calls' = calls /\ stores' = stores /\ made' = made
  BY <1>3 DEF histVars
<1>14. lg' \in [Threads -> Log] /\ lg'[t] = f.lg /\ \A u \in Threads \ {t} : lg'[u] = lg[u]
  BY <1>2, <1>3, FrameType, LgSet
<1>15. f.pc \notin Extending /\ f.pc \in Inherited /\ g.pc \in Inherited /\ g.pc \notin Calling \cup WithOnly \cup TryOnly
  BY <1>2, <1>5 DEF Extending, Inherited, Calling, WithOnly, TryOnly
<1> QED
  BY <1>1, <1>2, <1>5, <1>6, <1>7, <1>9, <1>11, <1>12, <1>13, <1>14, <1>15, TouchGo DEF NewFrame

\* WithRaise keeps the invariant.
LEMMA WithRaiseOK ==
  ASSUME InvA, NEW t \in Threads, WithRaise(t)
  PROVE  InvA'
<1>1. PICK h, f, s, n : Here(t, "raise", h, f, s, n)
  BY HereIs DEF WithRaise
<1>2. /\ f = Top(t) /\ f.pc = "raise" /\ f \in Frames /\ f = stack[t][h] /\ h \in Depth(t) /\ TypeOK
      /\ FrameShape(t, f, s, n) /\ FrameCur(t, f, s) /\ FrameDesc(t, f, s) /\ FrameCount(f)
  BY <1>1 DEF Here, InvA
<1>3. UNCHANGED <<lck, x, log, ext, poolVars, localVars, histVars>>
  BY DEF WithRaise
<1>4. Sharing(f) /\ HasDesc(f) /\ prog.with
  BY <1>2, WithPath DEF Sharing, HasDesc, Early, Storing, WithOnly
<1>5. PICK d : d = f.d
  OBVIOUS
<1>6. d \in Descriptors /\ status[d] # "fresh" /\ desc[d].lock = f.lock /\ Shared(d)
  BY <1>2, <1>4, <1>5, SharedHere, HasD
<1>7. PICK now \in Nat : now = desc[d].counter
  BY <1>2, <1>6, DescType
<1>8. /\ f.cur \in Nat /\ f.cur > 0 /\ AtMost(f.lock, f.cur) /\ AtMost(f.lock, now)
      /\ f.old \in Nat /\ f.old < f.cur /\ f.old <= now
  BY <1>2, <1>4, <1>5, <1>7, FrameType DEF FrameCount, Storing
<1>9. PICK c \in Nat : c = IF now = f.old THEN f.cur ELSE now
  BY <1>7, <1>8
<1>10. PICK g : g = [f EXCEPT !.cur = c, !.pc = "test"]
  OBVIOUS
<1>11. g \in Frames /\ g.pc = "test" /\ Alike(f, g) /\ g.cur = c
  BY <1>2, <1>10, PcNames DEF Frames, Alike
<1>12. Continue(t, g)
  <2>1. CASE now = f.old
    <3>1. Continue(t, [f EXCEPT !.pc = "test"])
      BY <1>2, <1>5, <1>7, <2>1 DEF WithRaise, Goto
    <3>2. g = [f EXCEPT !.pc = "test"]
      <4>1. c = f.cur
        BY <1>9, <2>1
      <4> QED
        BY <1>2, <1>10, <4>1 DEF Frames
    <3> QED
      BY <3>1, <3>2
  <2>2. CASE now # f.old
    BY <1>2, <1>5, <1>7, <1>9, <1>10, <2>2 DEF WithRaise
  <2> QED
    BY <2>1, <2>2
<1>13. Moves(f, g)
  BY <1>2, <1>4, <1>11 DEF Moves, Alike, Sharing, Early, Storing
<1>14. c > 0 /\ AtMost(f.lock, c) /\ now <= c
  BY <1>7, <1>8, <1>9
<1>15. Touch(d) /\ desc'[d].counter = c
  <2>1. CASE now = f.old
    <3>1. desc' = [desc EXCEPT ![d].counter = f.cur] /\ c = f.cur
      BY <1>2, <1>5, <1>7, <1>9, <2>1 DEF WithRaise
    <3>2. PICK b : b = [desc EXCEPT ![d].counter = f.cur]
      OBVIOUS
    <3>3. /\ b \in [Descriptors ->
                [path : Seq(Locks), lock : Locks \cup {None}, done : BOOLEAN,
                 acquired : BOOLEAN, thread : Threads \cup {None}, counter : Nat]]
          /\ \A e \in Descriptors \ {d} : b[e] = desc[e]
          /\ b[d].path = desc[d].path /\ b[d].lock = desc[d].lock /\ b[d].thread = desc[d].thread
          /\ b[d].acquired = desc[d].acquired /\ b[d].done = desc[d].done /\ b[d].counter = f.cur
      BY <1>2, <1>6, <1>8, <3>2, DescSet
    <3>4. desc' = b
      BY <3>1, <3>2
    <3> QED
      BY <1>3, <1>4, <1>6, <1>7, <1>14, <3>1, <3>3, <3>4 DEF Touch, poolVars, histVars
  <2>2. CASE now # f.old
    <3>1. desc' = desc /\ c = now
      BY <1>2, <1>5, <1>7, <1>9, <2>2 DEF WithRaise
    <3> QED
      BY <1>2, <1>3, <1>6, <1>7, <3>1 DEF Touch, poolVars, histVars, TypeOK
  <2> QED
    BY <2>1, <2>2
<1>16. AtMost(f.lock, c)'
  <2>1. f.lock \in Locks
    BY <1>2, FrameType
  <2> QED
    BY <1>6, <1>14, <1>15, <2>1, TouchLocks
<1>17. ASSUME FrameCur(t, f, s)', FrameCount(f)' PROVE FrameCur(t, g, s)' /\ FrameCount(g)'
  <2>1. FrameCur(t, g, s)'
    BY <1>9, <1>11, Consts DEF FrameCur, HelpIn, Inherited, Storing
  <2>2. c # f.d /\ c \notin Descriptors /\ c <= c
    BY <1>5, <1>6, <1>9, Consts
  <2>3. FrameCount(g)'
    BY <1>4, <1>5, <1>9, <1>11, <1>14, <1>15, <1>16, <2>2 DEF FrameCount, Alike, Storing
  <2> QED
    BY <2>1, <2>3
<1>18. lg' \in [Threads -> Log] /\ lg' = lg /\ id' = id /\ helping' = helping /\ x' = x /\ calls' = calls
       /\ stores' = stores /\ made' = made
  BY <1>2, <1>3 DEF TypeOK, localVars, histVars
<1>19. f.pc \notin Extending /\ f.pc \notin Inherited /\ g.pc \notin Inherited \cup Calling \cup TryOnly
  BY <1>2, <1>11 DEF Extending, Inherited, Calling, TryOnly
<1>20. TypeOK' /\ NewFrame(t, f, s, n)' => FrameCur(t, g, s)' /\ FrameCount(g)'
  BY <1>17 DEF NewFrame
<1> QED
  BY <1>1, <1>2, <1>4, <1>6, <1>11, <1>12, <1>13, <1>15, <1>18, <1>19, <1>20, TouchGo

\* Logs only get longer.
Longer ==
  /\ ext' \in [Descriptors -> 0 .. LogLen] /\ \A d \in Descriptors : ext[d] <= ext'[d]
  /\ lck' = lck /\ desc' = desc /\ log' = log /\ status' = status
  /\ freeList' = freeList /\ prog' = prog /\ callOf' = callOf

\* Frames may rely on a step that links a block.
LEMMA LongerRely ==
  ASSUME InvA, Longer
  PROVE  Rely({})
<1>1. ASSUME NEW d \in Descriptors PROVE DescKept(d)
  <2>1. /\ Held(d)' <=> Held(d)
        /\ Installed(d)' <=> Installed(d)
        /\ Over(d)' <=> Over(d)
    BY DEF Longer, Held, Installed, Over, Moved
  <2>2. \A j : EntryKept(d, j)
    BY DEF Longer, EntryKept
  <2>3. ext[d] <= ext'[d] /\ desc[d].counter <= desc'[d].counter
    BY DescType DEF Longer, InvA
  <2>4. \A l : AtMost(l, desc[d].counter) <=> AtMost(l, desc[d].counter)'
    BY DEF Longer, AtMost
  <2> QED
    BY <2>1, <2>2, <2>3, <2>4 DEF Longer, DescKept
<1>2. \A d \in Descriptors : StatusKept(d)
  BY DEF Longer, StatusKept, Safe
<1>3. \A l, c : LockKept(l, c)
  BY DEF Longer, LockKept, AtMost, Moved
<1> QED
  BY <1>1, <1>2, <1>3 DEF Longer, Rely

\* It keeps what is true of the heap,
LEMMA LongerHeap ==
  ASSUME InvA, Longer
  PROVE  HeapOK'
<1>1. HeapOK /\ TypeOK
  BY DEF InvA
<1>2. /\ FlatReuse' /\ PathsFit' /\ ReuseFlat' /\ PrefixSet' /\ LogsKnown'
  BY <1>1 DEF HeapOK, Longer, FlatReuse, PathsFit, ReuseFlat, PrefixSet, LogsKnown, Size
<1>3. LoadsOK' /\ ValuesOK'
  BY <1>1 DEF HeapOK, Longer, LoadsOK, ValuesOK, Levels, Size, OwnUpTo, Own, LoadEntry, Known, Held,
     Installed, Base, Value, Mark, AtMost
<1>4. ChildrenOK'
  <2>1. /\ \A d, i : Forks(d, i)' <=> Forks(d, i)
        /\ \A d, i : ChildAt(d, i)' = ChildAt(d, i)
        /\ \A d : Levels(d)' = Levels(d)
    BY DEF Longer, Levels, Size, OwnUpTo, Own, Forks, ChildAt, Off
  <2>2. \A d, i, e : ChildOK(d, i, e)' <=> ChildOK(d, i, e)
    BY DEF Longer, ChildOK, Size
  <2>3. ASSUME NEW d \in Descriptors, NEW i \in Levels(d)', Forks(d, i)'
        PROVE  \/ ChildAt(d, i)' = Unset
               \/ IsDone(ChildAt(d, i)')
               \/ ChildAt(d, i)'[1] = "word" /\ \A e : e = ChildAt(d, i)'[2] => ChildOK(d, i, e)'
    BY <1>1, <2>1, <2>2, <2>3 DEF HeapOK, ChildrenOK
  <2> QED
    BY <2>3 DEF ChildrenOK
<1>5. NotTwice' /\ FreshBlank' /\ UsedFull' /\ FreeOK' /\ LocksOK'
  BY <1>1 DEF HeapOK, Longer, NotTwice, FreshBlank, UsedFull, FreeOK, LocksOK
<1>6. CountersOK' /\ RetiredOver'
  BY <1>1 DEF HeapOK, Longer, CountersOK, RetiredOver, Over, Held, Installed, Moved
<1>7. DoneSettled' /\ ChainOrdered'
  BY LongerRely, DoneSettledKept, ChainKept DEF Longer
<1>8. InBlocks'
  <2>1. ASSUME NEW d \in Descriptors, NEW j \in 1 .. LogLen, log[d][j] # Unset
        PROVE  (j - 1) \div BlockLen <= ext'[d]
    <3>1. (j - 1) \div BlockLen <= ext[d]
      BY <1>1, <2>1 DEF HeapOK, InBlocks
    <3>2. j - 1 \in Nat /\ ext[d] \in Nat /\ ext'[d] \in Nat /\ ext[d] <= ext'[d]
      BY <1>1, DescType, Consts DEF Longer
    <3>3. PICK a \in Nat : a = (j - 1) \div BlockLen
      BY <3>2, Blocks
    <3> QED
      BY <3>1, <3>2, <3>3
  <2> QED
    BY <2>1 DEF InBlocks, Longer, Unset
<1> QED
  BY <1>2, <1>3, <1>4, <1>5, <1>6, <1>7, <1>8 DEF HeapOK

\* and leaves the pools alone.
LEMMA LongerPool ==
  ASSUME InvA, Longer, TypeOK'
  PROVE  PoolKept
<1>1. \A d, e : HasChild(d, e)' => HasChild(d, e)
  BY SameChild DEF Longer
<1>2. ASSUME NEW t \in Threads, NEW k \in Depth(t), stack[t][k].pc = "commit", NEW e, e = stack[t][k].d
      PROVE  ~Held(e)' /\ ~desc'[e].acquired
  BY <1>2 DEF InvA, OwnersOK, Privacy, Longer, Held, Installed
<1>3. DescsKept => RootOK'
  BY LongerRely, RootNeutral DEF Longer
<1> QED
  BY <1>1, <1>2, <1>3 DEF PoolKept, Longer

\* The entries of a block that is not there yet are unset.
LEMMA BlockEmpty ==
  ASSUME InvA, NEW d \in Descriptors, NEW next \in Nat, ext[d] < next
  PROVE  log = [log EXCEPT ![d] = [k \in 1 .. LogLen |->
                  IF (k - 1) \div BlockLen >= next THEN Unset ELSE @[k]]]
<1>1. TypeOK /\ InBlocks
  BY DEF InvA, HeapOK
<1>2. log \in [Descriptors -> [1 .. LogLen -> Entries]] /\ ext[d] \in 0 .. LogLen
  BY <1>1, DescType DEF TypeOK
<1>3. PICK b : b = [k \in 1 .. LogLen |-> IF (k - 1) \div BlockLen >= next THEN Unset ELSE log[d][k]]
  OBVIOUS
<1>4. ASSUME NEW k \in 1 .. LogLen PROVE b[k] = log[d][k]
  <2>1. k - 1 \in Nat
    OBVIOUS
  <2>2. PICK a \in Nat : a = (k - 1) \div BlockLen
    BY <2>1, Blocks
  <2>3. CASE a >= next
    <3>1. ~(a <= ext[d])
      BY <1>2, <2>2, <2>3, Consts
    <3>2. log[d][k] = Unset
      BY <1>1, <2>2, <3>1 DEF InBlocks
    <3> QED
      BY <1>3, <2>2, <2>3, <3>2
  <2>4. CASE ~(a >= next)
    BY <1>3, <2>2, <2>4
  <2> QED
    BY <2>3, <2>4
<1>5. b = log[d]
  <2>1. b = [k \in 1 .. LogLen |-> b[k]] /\ log[d] = [k \in 1 .. LogLen |-> log[d][k]]
    BY <1>2, <1>3
  <2> QED
    BY <1>4, <2>1
<1>6. [log EXCEPT ![d] = b] = log
  BY <1>2, <1>5
<1> QED
  BY <1>3, <1>6

\* ExtendCas keeps the invariant.
LEMMA ExtendCasOK ==
  ASSUME InvA, NEW t \in Threads, ExtendCas(t)
  PROVE  InvA'
<1>1. AtEnd(t) /\ stack[t] # <<>> /\ Top(t).pc \in Extending
  BY DEF ExtendCas, InvA, StackOK, BlocksOK
<1>2. PICK w : w = Top(t).pc
  OBVIOUS
<1>3. PICK h, f, s, n : Here(t, w, h, f, s, n)
  <2>1. At(t, w)
    BY <1>1, <1>2 DEF At
  <2> QED
    BY <2>1, HereIs
<1>4. /\ f = Top(t) /\ f.pc = w /\ f \in Frames /\ stack[t] # <<>> /\ f = stack[t][h] /\ TypeOK
      /\ s = Sec(t, h) /\ n = Pos(t, h) /\ h \in Depth(t) /\ f.pc \in Extending
  BY <1>1, <1>3 DEF Here, InvA
<1>5. f.pc \notin Calling \cup Inherited \cup {"retire", "ran", "helped", "reentered"}
  BY <1>4 DEF Calling, Inherited, Extending
<1>6. PICK k : k = lg[t]
  OBVIOUS
<1>7. /\ k.d = s /\ k.n = n /\ k \in Log /\ (k.d # None => BlockOK(k))
  BY <1>3, <1>5, <1>6, LgHere
<1>8. k.d # None /\ k.n \div BlockLen > k.block
  BY <1>1, <1>6 DEF AtEnd
<1>9. s \in Descriptors /\ k.n \in Nat /\ k.n \in 0 .. LogLen /\ k.block \in Nat /\ ext[s] \in 0 .. LogLen /\ s # None
  BY <1>4, <1>7, <1>8, LogType, DescType
<1>10. PICK next \in Nat : next = k.block + 1
  BY <1>9
<1>11. k.n \div BlockLen \in Nat /\ k.n \div BlockLen <= k.n /\ (k.n > 0 => (k.n - 1) \div BlockLen <= k.block) /\ k.block <= ext[s]
  BY <1>7, <1>8, <1>9, Blocks DEF BlockOK
<1>12. next <= k.n \div BlockLen /\ next \in 0 .. LogLen
  BY <1>8, <1>9, <1>10, <1>11, Consts
<1>13. PICK z : z = [k EXCEPT !.new = FALSE, !.block = next]
  OBVIOUS
<1>14. z \in Log /\ z.d = s /\ z.n = n /\ z.block = next /\ ~z.new
  BY <1>7, <1>12, <1>13 DEF Log
<1>15. lg' = [lg EXCEPT ![t] = z]
  BY <1>4, <1>6, <1>10, <1>13 DEF ExtendCas, TypeOK
<1>16. lg' \in [Threads -> Log] /\ lg'[t] = z /\ \A u \in Threads \ {t} : lg'[u] = lg[u]
  BY <1>4, <1>14, <1>15, LgSet
<1>17. Longer /\ next <= ext'[s]
  <2>1. CASE Links(t)
    <3>1. ext[s] = k.block /\ ext' = [ext EXCEPT ![s] = next]
      BY <1>6, <1>7, <1>10, <2>1 DEF ExtendCas, Links
    <3>2. log' = [log EXCEPT ![s] = [j \in 1 .. LogLen |->
                         IF (j - 1) \div BlockLen >= next THEN Unset ELSE @[j]]]
      BY <1>6, <1>7, <1>10, <2>1 DEF ExtendCas
    <3>3. ext[s] < next
      BY <1>9, <1>10, <3>1
    <3>4. log' = log
      BY <1>9, <3>2, <3>3, BlockEmpty
    <3>5. ext \in [Descriptors -> 0 .. LogLen]
      BY <1>4 DEF TypeOK
    <3>6. ext' \in [Descriptors -> 0 .. LogLen] /\ ext'[s] = next /\ \A e \in Descriptors : ext[e] <= ext'[e]
      BY <1>9, <1>12, <3>1, <3>3, <3>5, Consts
    <3> QED
      BY <1>10, <3>4, <3>6 DEF ExtendCas, Longer, poolVars, histVars
  <2>2. CASE ~Links(t)
    <3>1. ext' = ext /\ log' = log /\ ext[s] # k.block
      BY <1>6, <1>7, <2>2 DEF ExtendCas, Links
    <3>2. ext \in [Descriptors -> 0 .. LogLen] /\ \A e \in Descriptors : ext[e] <= ext[e]
      BY <1>4, Consts DEF TypeOK
    <3>3. next <= ext[s]
      BY <1>9, <1>10, <1>11, <3>1
    <3> QED
      BY <3>1, <3>2, <3>3 DEF ExtendCas, Longer, poolVars, histVars
  <2> QED
    BY <2>1, <2>2
<1>18. /\ calls' = calls /\ id' = id /\ helping' = helping /\ x' = x /\ stores' = stores /\ made' = made
       /\ stack' = stack
  BY DEF ExtendCas, histVars
<1>19. Conts(t, f) /\ stack' \in [Threads -> Seq(Frames)]
  BY <1>4, <1>18, StackStays
<1>20. TypeOK'
  BY <1>4, <1>16, <1>17, <1>18, <1>19 DEF TypeOK, Longer
<1>21. Rely({}) /\ HeapOK' /\ PoolKept
  BY <1>17, <1>20, LongerRely, LongerHeap, LongerPool
<1>22. NewFrame(t, f, s, n)'
  <2>1. ChildrenOK' /\ LocksOK'
    BY <1>21 DEF HeapOK
  <2> QED
    BY <1>4, <1>18, <1>20, <1>21, <2>1, FrameKept DEF NewFrame
<1>23. BlockOK(z)'
  <2>1. z.n = k.n
    BY <1>7, <1>14
  <2>2. k.n > 0 => (k.n - 1) \div BlockLen <= next
    <3>1. ASSUME k.n > 0 PROVE (k.n - 1) \div BlockLen <= next
      <4>1. k.n - 1 \in Nat
        BY <1>9, <3>1
      <4>2. PICK a \in Nat : a = (k.n - 1) \div BlockLen
        BY <4>1, Blocks
      <4> QED
        BY <1>9, <1>10, <1>11, <3>1, <4>2
    <3> QED
      BY <3>1
  <2> QED
    BY <1>12, <1>14, <1>17, <2>1, <2>2 DEF BlockOK
<1>24. TopSame(f, f)
  BY DEF TopSame
<1>25. /\ lg'[t].d = s /\ n = lg'[t].n /\ ~lg'[t].new /\ lg'[t].d # None
       /\ \A y : y = lg'[t] /\ y.d # None => BlockOK(y)'
  BY <1>9, <1>14, <1>16, <1>23
<1> QED
  BY <1>3, <1>5, <1>16, <1>18, <1>19, <1>20, <1>21, <1>22, <1>24, <1>25, StepCont

\* The first frame of a call.
LEMMA FirstFrame ==
  ASSUME NEW path \in Seq(Locks), path # <<>>, NEW g, g = Body(None, path)
  PROVE  /\ g \in Frames /\ g.pc = IF prog.with THEN "with" ELSE "load"
         /\ g.lock = path[1] /\ g.path \in Seq(Locks) /\ Len(g.path) = Len(path) - 1
         /\ Len(path) \in Nat /\ Len(path) >= 1
         /\ IsRest(g.path, path) /\ Len(g.path) < Len(path) /\ g.lock = path[Len(path) - Len(g.path)]
         /\ g.cur = None /\ g.le = 0
<1>1. IsRest(path, path)
  BY DEF IsRest
<1>2. /\ Tail(path) \in Seq(Locks) /\ Len(Tail(path)) = Len(path) - 1 /\ Len(path) >= 1
      /\ IsRest(Tail(path), path) /\ Len(Tail(path)) < Len(path)
      /\ Head(path) = path[Len(path) - Len(Tail(path))]
  BY <1>1, RestTail
<1>3. Head(path) = path[1] /\ Head(path) \in Locks /\ Len(path) \in Nat
  OBVIOUS
<1>4. PICK p : p = IF prog.with THEN "with" ELSE "load"
  OBVIOUS
<1>5. g = Frame(p, Head(path), Tail(path))
  BY <1>4 DEF Body
<1>6. g.pc = p /\ g.lock = Head(path) /\ g.path = Tail(path) /\ g.cur = None /\ g.le = 0
  BY <1>5 DEF Frame
<1>7. p \in Pcs
  BY <1>4, PcNames
<1>8. g \in Frames
  BY <1>2, <1>3, <1>5, <1>7, LogKnown, Consts DEF Frame, Frames
<1> QED
  BY <1>2, <1>3, <1>4, <1>6, <1>8

\* The list of the calls of a thread.
LEMMA Prepended ==
  ASSUME NEW S, NEW e \in S, NEW c \in Seq(S)
  PROVE  <<e>> \o c \in Seq(S) /\ Len(<<e>> \o c) = 1 + Len(c) /\ (<<e>> \o c)[1] = e /\ Len(c) \in Nat
<1>1. <<e>> \in Seq(S) /\ Len(<<e>>) = 1 /\ <<e>>[1] = e
  OBVIOUS
<1>2. PICK a : a = <<e>>
  OBVIOUS
<1>3. a \in Seq(S) /\ Len(a) = 1 /\ a[1] = e
  BY <1>1, <1>2
<1>4. a \o c \in Seq(S) /\ Len(a \o c) = 1 + Len(c) /\ (a \o c)[1] = e /\ Len(c) \in Nat
  <2>0. a \in Seq(S)
    BY <1>3
  <2>1. a \o c \in Seq(S) /\ Len(a \o c) = Len(a) + Len(c) /\ Len(c) \in Nat
    BY <2>0
  <2>2. 1 \in 1 .. Len(a)
    BY <1>3
  <2>3. \A k \in 1 .. Len(a) : (a \o c)[k] = a[k]
    BY <2>0
  <2> QED
    BY <1>3, <2>1, <2>2, <2>3
<1> QED
  BY <1>2, <1>4

\* Call keeps the invariant.
LEMMA CallOK ==
  ASSUME InvA, NEW t \in Threads, NEW path, Call(t, path)
  PROVE  InvA'
<1>1. TypeOK /\ HeapOK /\ stack[t] = <<>> /\ lg[t].d = None /\ id[t] = t
  BY DEF InvA, Call, StackOK, SectionsNest
<1>2. path \in prog.paths[t] /\ path \in Seq(Locks) /\ path # <<>> /\ prog.calls[t] \in Nat
  <2>1. prog \in Programs
    BY <1>1 DEF TypeOK
  <2> QED
    BY <2>1, ProgramsAssumption DEF Call
<1>3. PICK g : g = Body(None, path)
  OBVIOUS
<1>4. /\ g \in Frames /\ g.pc = IF prog.with THEN "with" ELSE "load"
      /\ g.lock = path[1] /\ g.path \in Seq(Locks) /\ Len(g.path) = Len(path) - 1
      /\ Len(path) \in Nat /\ Len(path) >= 1
      /\ IsRest(g.path, path) /\ Len(g.path) < Len(path) /\ g.lock = path[Len(path) - Len(g.path)]
      /\ g.cur = None /\ g.le = 0
  BY <1>2, <1>3, FirstFrame
<1>5. stack' = [stack EXCEPT ![t] = <<g>>] /\ calls' = [calls EXCEPT ![t] = <<path>> \o @]
  BY <1>3 DEF Call
<1>6. HeapSame /\ lg' = lg /\ id' = id /\ helping' = helping /\ x' = x /\ stores' = stores /\ made' = made
  BY DEF Call, HeapSame, heapVars, poolVars, localVars
<1>7. /\ stack' \in [Threads -> Seq(Frames)] /\ stack'[t] = <<g>> /\ \A u \in Threads \ {t} : stack'[u] = stack[u]
  <2>1. <<g>> \in Seq(Frames)
    BY <1>4
  <2> QED
    BY <1>1, <1>5, <2>1 DEF TypeOK
<1>8. Height(t)' = 1 /\ stack'[t][1] = g /\ stack'[t] # <<>> /\ Depth(t)' = {1}
  <2>1. Len(<<g>>) = 1 /\ <<g>>[1] = g /\ <<g>> # <<>>
    OBVIOUS
  <2>2. Height(t)' = 1
    BY <1>7, <2>1 DEF Height
  <2>3. 1 .. 1 = {1}
    OBVIOUS
  <2> QED
    BY <1>7, <2>1, <2>2, <2>3 DEF Depth
<1>9. /\ calls' \in [Threads -> Seq(Seq(Locks))] /\ \A u \in Threads \ {t} : calls'[u] = calls[u]
      /\ calls'[t] \in Seq(prog.paths[t]) /\ Len(calls'[t]) <= prog.calls[t]
      /\ Len(calls'[t]) \in Nat /\ Len(calls'[t]) > 0 /\ calls'[t][1] = path
  <2>1. calls[t] \in Seq(Seq(Locks)) /\ calls[t] \in Seq(prog.paths[t]) /\ Len(calls[t]) < prog.calls[t]
    BY <1>1 DEF TypeOK, Call
  <2>2. PICK c : c = calls[t]
    OBVIOUS
  <2>3. <<path>> \o c \in Seq(Seq(Locks)) /\ <<path>> \o c \in Seq(prog.paths[t])
        /\ Len(<<path>> \o c) = 1 + Len(c) /\ (<<path>> \o c)[1] = path /\ Len(c) \in Nat
    BY <1>2, <2>1, <2>2, Prepended
  <2>4. calls \in [Threads -> Seq(Seq(Locks))]
    BY <1>1 DEF TypeOK
  <2>5. calls'[t] = <<path>> \o c /\ \A u \in Threads \ {t} : calls'[u] = calls[u]
    BY <1>5, <2>2, <2>4
  <2>6. calls' \in [Threads -> Seq(Seq(Locks))]
    BY <1>5, <2>2, <2>3, <2>4
  <2> QED
    BY <1>2, <2>1, <2>2, <2>3, <2>5, <2>6
<1>10. TypeOK'
  <2>1. prog' = prog
    BY <1>6 DEF HeapSame
  <2>2. \A u \in Threads : calls'[u] \in Seq(prog.paths[u]) /\ Len(calls'[u]) <= prog.calls[u]
    <3>1. ASSUME NEW u \in Threads PROVE calls'[u] \in Seq(prog.paths[u]) /\ Len(calls'[u]) <= prog.calls[u]
      <4>1. CASE u = t
        BY <1>9, <4>1
      <4>2. CASE u # t
        BY <1>1, <1>9, <4>2 DEF TypeOK
      <4> QED
        BY <4>1, <4>2
    <3> QED
      BY <3>1
  <2> QED
    BY <1>1, <1>6, <1>7, <1>9, <2>1, <2>2 DEF TypeOK, HeapSame
<1>11. Rely({}) /\ HeapOK' /\ PoolKept /\ GivesBack(t) /\ ChildrenOK' /\ LocksOK'
  <2>1. Rely({}) /\ HeapOK' /\ PoolKept /\ GivesBack(t)
    BY <1>6, <1>10, SameRely, SameHeap, SamePool, SameGives DEF HeapSame
  <2> QED
    BY <2>1 DEF HeapOK
<1>12. ASSUME NEW u \in Threads, u # t
       PROVE  /\ Depth(u)' = Depth(u)
              /\ \A k \in Depth(u) : /\ Sec(u, k)' = Sec(u, k) /\ Pos(u, k)' = Pos(u, k)
                                     /\ FrameOK(u, k, stack[u][k], Sec(u, k), Pos(u, k))'
                                     /\ Owner(u, k)' <=> Owner(u, k)
              /\ Height(u)' = Height(u)
              /\ \A k \in Depth(u) : NestsAt(u, k)'
  <2>1. calls'[u] = calls[u] /\ stack'[u] = stack[u] /\ lg'[u] = lg[u]
    BY <1>6, <1>7, <1>9, <1>12
  <2> QED
    BY <1>10, <1>11, <2>1, OtherFrames
<1>13. ~HasDesc(g) /\ ~Sharing(g) /\ g.pc \notin Calling \cup Inherited \cup Storing \cup HelpIn \cup {"commit", "retire"}
  BY <1>4 DEF HasDesc, Sharing, Early, Calling, Inherited, Storing, HelpIn
<1>14. Sec(t, 1)' = None
  BY <1>1, <1>6, <1>8, <1>13 DEF Sec
<1>15. FrameOK(t, 1, stack[t][1], Sec(t, 1), Pos(t, 1))'
  <2>1. PICK n : n = Pos(t, 1)'
    OBVIOUS
  <2>2. PathIn(t, None)' = path /\ prog' = prog
    BY <1>6, <1>9 DEF PathIn, HeapSame
  <2>3. LockShape(t, g, None)'
    BY <1>4, <2>2 DEF LockShape, WithOnly, TryOnly
  <2>4. OutsideShape(t, g)'
    BY <1>4, <1>9 DEF OutsideShape
  <2>5. FrameShape(t, g, None, n)'
    BY <1>13, <2>3, <2>4 DEF FrameShape
  <2>6. g.pc # "self" /\ g.cur \notin Descriptors /\ g.cur \notin Nat
    BY <1>4, Consts
  <2>7. FrameCur(t, g, None)' /\ FrameDesc(t, g, None)'
    BY <1>13, <2>6 DEF FrameCur, FrameDesc, HelpIn, Inherited
  <2>8. FrameCount(g)'
    BY <1>4, <1>13, <2>6 DEF FrameCount
  <2>9. FrameOK(t, 1, g, None, n)'
    BY <2>5, <2>7, <2>8 DEF FrameOK
  <2> QED
    BY <1>8, <1>14, <2>1, <2>9
<1>16. FramesOK'
  <2>1. ASSUME NEW u \in Threads, NEW k \in Depth(u)'
        PROVE  FrameOK(u, k, stack[u][k], Sec(u, k), Pos(u, k))'
    <3>1. CASE u = t
      <4>1. k = 1
        BY <1>8, <2>1, <3>1
      <4> QED
        BY <1>15, <3>1, <4>1
    <3>2. CASE u # t
      <4>1. k \in Depth(u) /\ stack'[u] = stack[u]
        BY <1>7, <1>12, <2>1, <3>2
      <4> QED
        BY <1>12, <3>2, <4>1
    <3> QED
      BY <3>1, <3>2
  <2> QED
    BY <2>1 DEF FramesOK
<1>17. CallersWait'
  <2>1. ASSUME NEW u \in Threads, NEW k \in Depth(u)', k < Height(u)' PROVE stack'[u][k].pc \in Calling
    <3>1. CASE u = t
      BY <1>8, <2>1, <3>1
    <3>2. CASE u # t
      <4>1. k \in Depth(u) /\ k < Height(u) /\ stack'[u] = stack[u]
        BY <1>7, <1>12, <2>1, <3>2
      <4> QED
        BY <4>1 DEF InvA, StackOK, CallersWait
    <3> QED
      BY <3>1, <3>2
  <2> QED
    BY <2>1 DEF CallersWait, Calling
<1>18. SectionsNest'
  <2>1. ASSUME NEW u \in Threads
        PROVE (/\ lg[u].d = None => lg[u] = EmptyLog
               /\ stack[u] = <<>> => lg[u].d = None /\ id[u] = u
               /\ stack[u] # <<>> => Sec(u, 1) = None
               /\ \A k \in Depth(u) : NestsAt(u, k))'
    <3>1. lg[u].d = None => lg[u] = EmptyLog
      BY DEF InvA, StackOK, SectionsNest
    <3>2. CASE u = t
      <4>1. NestsAt(t, 1)'
        BY <1>8, <1>13 DEF NestsAt, Calling
      <4> QED
        BY <1>6, <1>8, <1>14, <3>1, <3>2, <4>1 DEF EmptyLog, LogOf
    <3>3. CASE u # t
      <4>1. /\ stack[u] = <<>> => lg[u].d = None /\ id[u] = u
            /\ stack[u] # <<>> => Sec(u, 1) = None
        BY DEF InvA, StackOK, SectionsNest
      <4>2. stack[u] # <<>> => 1 \in Depth(u)
        BY <1>1, HeightType DEF Depth
      <4>3. stack[u] # <<>> => Sec(u, 1)' = None
        BY <1>12, <3>3, <4>1, <4>2
      <4> QED
        BY <1>6, <1>7, <1>12, <3>1, <3>3, <4>1, <4>3 DEF EmptyLog, LogOf
    <3> QED
      BY <3>2, <3>3
  <2> QED
    BY <2>1 DEF SectionsNest
<1>19. Ids'
  <2>1. ASSUME NEW u \in Threads, stack'[u] # <<>>, NEW f, f = stack'[u][Height(u)']
        PROVE  id'[u] = TopId(u, f)'
    <3>1. CASE u = t
      <4>1. f = g
        BY <1>8, <2>1, <3>1
      <4>2. TopId(t, g)' = t
        BY <1>1, <1>6, <1>13 DEF TopId, IdIn
      <4> QED
        BY <1>1, <1>6, <3>1, <4>1, <4>2
    <3>2. CASE u # t
      <4>1. stack'[u] = stack[u] /\ f = stack[u][Height(u)] /\ stack[u] # <<>>
        BY <1>7, <1>12, <2>1, <3>2
      <4>2. id[u] = TopId(u, f)
        BY <4>1, TopIn
      <4>3. TopId(u, f)' = TopId(u, f)
        BY <1>6 DEF TopId, IdIn, HeapSame
      <4> QED
        BY <1>6, <4>2, <4>3
    <3> QED
      BY <3>1, <3>2
  <2>2. \A u \in Threads : Top(u)' = stack'[u][Height(u)']
    BY DEF Top, Height
  <2>3. ASSUME NEW u \in Threads, stack'[u] # <<>> PROVE (id[u] = TopId(u, Top(u)))'
    <3>1. PICK f : f = stack'[u][Height(u)']
      OBVIOUS
    <3>2. Top(u)' = f /\ id'[u] = TopId(u, f)'
      BY <2>1, <2>2, <2>3, <3>1
    <3> QED
      BY <3>2
  <2> QED
    BY <2>3 DEF Ids
<1>20. BlocksOK'
  <2>1. ASSUME NEW u \in Threads
        PROVE (/\ lg[u].d # None => BlockOK(lg[u])
               /\ lg[u].new => AtEnd(u) /\ stack[u] # <<>> /\ Top(u).pc \in Extending
               /\ \A k \in Depth(u) : stack[u][k].pc \in {"ran", "helped"} =>
                    /\ ~stack[u][k].lg.new
                    /\ stack[u][k].lg.d = None => stack[u][k].lg = EmptyLog
                    /\ stack[u][k].lg.d # None => BlockOK(stack[u][k].lg))'
    <3>1. /\ lg[u].d # None => BlockOK(lg[u])
          /\ lg[u].new => AtEnd(u) /\ stack[u] # <<>> /\ Top(u).pc \in Extending
          /\ \A k \in Depth(u) : stack[u][k].pc \in {"ran", "helped"} =>
               /\ ~stack[u][k].lg.new
               /\ stack[u][k].lg.d = None => stack[u][k].lg = EmptyLog
               /\ stack[u][k].lg.d # None => BlockOK(stack[u][k].lg)
      BY DEF InvA, StackOK, BlocksOK
    <3>2. CASE u = t
      <4>1. ~lg'[t].new /\ lg'[t].d = None
        BY <1>1, <1>6, <3>1, <3>2
      <4>2. g.pc \notin {"ran", "helped"}
        BY <1>13 DEF Calling
      <4> QED
        BY <1>8, <3>2, <4>1, <4>2
    <3>3. CASE u # t
      <4>1. stack'[u] = stack[u] /\ lg'[u] = lg[u] /\ Depth(u)' = Depth(u) /\ ext' = ext
        BY <1>6, <1>7, <1>12, <3>3 DEF HeapSame
      <4> QED
        BY <3>1, <4>1 DEF BlockOK, AtEnd, Top, EmptyLog, LogOf, Extending
    <3> QED
      BY <3>2, <3>3
  <2> QED
    BY <2>1 DEF BlocksOK
<1>21. InCall'
  <2>1. ASSUME NEW u \in Threads, stack'[u] # <<>> PROVE Len(calls'[u]) > 0
    <3>1. CASE u = t
      BY <1>9, <3>1
    <3>2. CASE u # t
      BY <1>7, <1>9, <2>1, <3>2 DEF InvA, StackOK, InCall
    <3> QED
      BY <3>1, <3>2
  <2> QED
    BY <2>1 DEF InCall
<1>22. Returned'
  <2>1. ASSUME NEW u \in Threads, stack'[u] # <<>>, NEW f, f = stack'[u][Height(u)'], f.pc \in Calling,
               NEW z, z = lg'[u].d
        PROVE  Settled(z)'
    <3>1. u # t
      BY <1>8, <1>13, <2>1
    <3>2. stack[u] # <<>> /\ Top(u).pc \in Calling /\ lg[u].d = z
      <4>1. stack'[u] = stack[u] /\ f = stack[u][Height(u)] /\ stack[u] # <<>>
        BY <1>7, <1>12, <2>1, <3>1
      <4> QED
        BY <1>6, <2>1, <4>1 DEF Top, Height
    <3>3. Settled(z)
      BY <3>2 DEF InvA, StackOK, Returned
    <3> QED
      BY <1>6, <3>3 DEF HeapSame, Settled, Base, OwnUpTo, Own, Size, Mark, ChildDone, Levels, Forks, ChildAt, Off,
         HasChild, Over, Installed, Moved, Word, Unset, IsDone
  <2>2. \A u \in Threads : Top(u)' = stack'[u][Height(u)']
    BY DEF Top, Height
  <2>3. ASSUME NEW u \in Threads, stack'[u] # <<>>, Top(u)'.pc \in Calling PROVE Settled(lg[u].d)'
    <3>1. PICK f : f = stack'[u][Height(u)']
      OBVIOUS
    <3>2. PICK z : z = lg'[u].d
      OBVIOUS
    <3>3. Settled(z)'
      BY <2>1, <2>2, <2>3, <3>1, <3>2
    <3> QED
      BY <3>2, <3>3
  <2> QED
    BY <2>3 DEF Returned, Calling
<1>23. OwnersOK'
  <2>1. DescsKept
    <3>1. ASSUME NEW u \in Threads, NEW k \in Depth(u)', HasDesc(stack'[u][k])
          PROVE  k \in Depth(u) /\ FrameSame(u, k)
      <4>1. u # t
        BY <1>8, <1>13, <3>1
      <4>2. stack'[u] = stack[u] /\ k \in Depth(u) /\ Sec(u, k)' = Sec(u, k)
        BY <1>7, <1>12, <3>1, <4>1
      <4> QED
        BY <4>2 DEF FrameSame, TopSame
    <3>2. ASSUME NEW u \in Threads, NEW k \in Depth(u), Owner(u, k) PROVE k \in Depth(u)' /\ FrameSame(u, k)
      <4>1. u # t
        BY <1>1, <3>2, FrameFacts
      <4>2. stack'[u] = stack[u] /\ k \in Depth(u)' /\ Sec(u, k)' = Sec(u, k)
        BY <1>7, <1>12, <3>2, <4>1
      <4> QED
        BY <4>2 DEF FrameSame, TopSame
    <3> QED
      BY <3>1, <3>2 DEF DescsKept
  <2>2. ASSUME NEW u \in Threads, NEW k \in Depth(u)', stack'[u][k].pc = "retire"
        PROVE  k \in Depth(u) /\ stack[u][k].pc = "retire"
    <3>1. u # t
      BY <1>8, <1>13, <2>2
    <3> QED
      BY <1>7, <1>12, <2>2, <3>1
  <2> QED
    BY <1>11, <2>1, <2>2, OwnersNeutral
<1> QED
  BY <1>10, <1>11, <1>16, <1>17, <1>18, <1>19, <1>20, <1>21, <1>22, <1>23 DEF InvA, StackOK

\* A descriptor is put into a lock that is free.
Install(l, d) ==
  /\ lck[l] \in Nat /\ lck' = [lck EXCEPT ![l] = d]
  /\ desc' = desc /\ log' = log /\ ext' = ext /\ status' = status
  /\ freeList' = freeList /\ prog' = prog /\ callOf' = callOf

\* Below the descriptors of its thread that are in a lock.
Below(d, e) ==
  Installed(e) /\ e # d /\ desc[e].thread = desc[d].thread =>
    /\ Size(d) < Size(e)
    /\ \E y \in Descriptors : HasChild(e, y) /\ (Installed(y) \/ y = d) /\ Size(d) <= Size(y)

\* The descriptor is inside of one in a lock, or the one of a call outside of
\* any lock.
Rooted(d) ==
  \/ \E s \in Descriptors : HasChild(s, d) /\ Installed(s)
  \/ \E u \in Threads : /\ u = desc[d].thread /\ stack[u] # <<>> /\ Sharing(stack[u][1]) /\ stack[u][1].d = d

\* What is known of a descriptor when it takes its lock.
InstallOK(l, d) ==
  /\ desc[d].lock = l /\ status[d] = "live" /\ ~Held(d) /\ ~Over(d) /\ Shared(d)
  /\ desc[d].counter > 0 /\ lck[l] <= desc[d].counter
  /\ \A e \in Descriptors : Below(d, e)
  /\ Rooted(d)

\* What taking a lock leaves alone.
LEMMA InstallSame ==
  ASSUME InvA, NEW l \in Locks, NEW d \in Descriptors, Install(l, d)
  PROVE  /\ lck'[l] = d /\ lck' \in [Locks -> Nat \cup Descriptors]
         /\ \A m \in Locks \ {l} : lck'[m] = lck[m]
         /\ Installed(d)'
         /\ \A e \in Descriptors \ {d} : (Installed(e)' <=> Installed(e)) /\ (Held(e)' <=> Held(e))
         /\ \A e \in Descriptors : (Installed(e) => Installed(e)') /\ (Held(e) => Held(e)')
         /\ \A e : Size(e)' = Size(e)
         /\ \A e : Levels(e)' = Levels(e)
         /\ \A e, y : HasChild(e, y)' <=> HasChild(e, y)
<1>1. lck \in [Locks -> Nat \cup Descriptors] /\ lck' = [lck EXCEPT ![l] = d] /\ lck[l] \in Nat /\ desc' = desc
  BY DEF InvA, TypeOK, Install
<1>2. /\ lck'[l] = d /\ lck' \in [Locks -> Nat \cup Descriptors]
      /\ \A m \in Locks \ {l} : lck'[m] = lck[m]
  BY <1>1
<1>3. Installed(d)'
  BY <1>2 DEF Installed
<1>4. ASSUME NEW e \in Descriptors, e # d PROVE (Installed(e)' <=> Installed(e)) /\ (Held(e)' <=> Held(e))
  <2>1. lck[l] # e
    BY <1>1, Consts
  <2>2. Installed(e)' <=> Installed(e)
    BY <1>2, <1>4, <2>1 DEF Installed
  <2> QED
    BY <1>1, <2>2 DEF Held
<1>5. \A e : Size(e)' = Size(e)
  BY <1>1 DEF Size
<1>6. \A e : Levels(e)' = Levels(e)
  BY <1>5 DEF Levels
<1>7. \A e, y : HasChild(e, y)' <=> HasChild(e, y)
  BY SameChild DEF Install
<1> QED
  BY <1>2, <1>3, <1>4, <1>5, <1>6, <1>7 DEF Held

\* The counters of locks when one is taken.
LEMMA InstallLocks ==
  ASSUME InvA, NEW l \in Locks, NEW d \in Descriptors, Install(l, d), InstallOK(l, d),
         NEW m \in Locks, NEW c \in Nat
  PROVE  (AtMost(m, c) => AtMost(m, c)') /\ (Moved(m, c) => Moved(m, c)')
<1>1. desc' = desc /\ lck[l] \in Nat /\ lck[l] <= desc[d].counter /\ desc[d].counter \in Nat
  BY DescType DEF Install, InstallOK, InvA
<1>2. CASE m = l
  <2>1. lck'[m] = d /\ lck[m] \notin Descriptors
    BY <1>1, <1>2, InstallSame, Consts
  <2> QED
    BY <1>1, <1>2, <2>1 DEF AtMost, Moved
<1>3. CASE m # l
  <2>1. lck'[m] = lck[m]
    BY <1>3, InstallSame
  <2> QED
    BY <1>1, <2>1 DEF AtMost, Moved
<1> QED
  BY <1>2, <1>3

\* The lock of a descriptor.
LEMMA HasLock ==
  ASSUME InvA, NEW e \in Descriptors
  PROVE  desc[e].lock \in Locks \/ (status[e] = "fresh" /\ desc[e] = NoDesc /\ ~desc[e].done /\ ~Installed(e))
<1>1. status[e] # "fresh" => desc[e].lock \in Locks
  BY DEF InvA, HeapOK, UsedFull
<1>2. status[e] = "fresh" => desc[e] = NoDesc /\ ~desc[e].done
  <2>1. status[e] = "fresh" => desc[e] = NoDesc
    BY DEF InvA, HeapOK, FreshBlank
  <2>2. ~NoDesc.done
    BY DEF NoDesc
  <2> QED
    BY <2>1, <2>2
<1>3. status[e] = "fresh" => ~Installed(e)
  BY InstalledLive
<1> QED
  BY <1>1, <1>2, <1>3

\* Frames may rely on it.
LEMMA InstallRely ==
  ASSUME InvA, NEW l \in Locks, NEW d \in Descriptors, Install(l, d), InstallOK(l, d)
  PROVE  Rely({})
<1>1. TypeOK /\ desc' = desc /\ log' = log /\ ext' = ext /\ status' = status /\ prog' = prog /\ callOf' = callOf
  BY DEF InvA, Install
<1>2. ASSUME NEW e \in Descriptors PROVE DescKept(e)
  <2>1. \A j : EntryKept(e, j)
    BY <1>1 DEF EntryKept
  <2>2. ext[e] <= ext'[e] /\ desc[e].counter <= desc'[e].counter /\ desc[e].counter \in Nat
    BY <1>1, DescType
  <2>3. PICK c \in Nat : c = desc[e].counter
    BY <2>2
  <2>4. \A m \in Locks : AtMost(m, desc[e].counter) => AtMost(m, desc[e].counter)'
    <3>1. \A m \in Locks : AtMost(m, c) => AtMost(m, c)'
      BY InstallLocks
    <3> QED
      BY <1>1, <2>3, <3>1 DEF AtMost
  <2>5. Held(e) => Held(e)'
    BY InstallSame
  <2>6. Held(e)' => Held(e) \/ Installed(e)'
    BY <1>1 DEF Held
  <2>7. Over(e) => Over(e)'
    <3>1. CASE e = d
      BY <3>1 DEF InstallOK
    <3>2. CASE e # d
      <4>1. Installed(e)' <=> Installed(e)
        BY <3>2, InstallSame
      <4>2. PICK m : m = desc[e].lock
        OBVIOUS
      <4>3. CASE m \in Locks
        <5>1. Moved(m, c) => Moved(m, c)'
          BY <4>3, InstallLocks
        <5> QED
          BY <1>1, <2>3, <4>1, <4>2, <5>1 DEF Over, Moved
      <4>4. CASE m \notin Locks
        <5>1. lck'[m] = lck[m]
          BY <1>1, <4>4 DEF TypeOK, Install
        <5> QED
          BY <1>1, <4>1, <4>2, <5>1 DEF Over, Moved
      <4> QED
        BY <4>3, <4>4
    <3> QED
      BY <3>1, <3>2
  <2> QED
    BY <1>1, <2>1, <2>2, <2>4, <2>5, <2>6, <2>7 DEF DescKept
<1>3. \A e \in Descriptors : StatusKept(e)
  BY <1>1 DEF StatusKept, Safe
<1>4. \A m \in Locks : \A c \in Nat : LockKept(m, c)
  BY InstallLocks DEF LockKept
<1> QED
  BY <1>1, <1>2, <1>3, <1>4 DEF Rely

\* The descriptor becomes the innermost one of its thread.
LEMMA InstallChain ==
  ASSUME InvA, NEW l \in Locks, NEW d \in Descriptors, Install(l, d), InstallOK(l, d)
  PROVE  ChainOrdered'
<1>1. ASSUME NEW a \in Descriptors, NEW b \in Descriptors PROVE Chained(a, b)'
  <2>1. CASE a # d /\ b # d
    <3>1. CASE Installed(a) /\ Installed(b)
      <4>1. \A y \in Descriptors : Installed(y) => Installed(y)'
        BY InstallSame
      <4> QED
        BY <3>1, <4>1, InstallRely, ChainedKept
    <3>2. CASE ~(Installed(a) /\ Installed(b))
      BY <2>1, <3>2, InstallSame DEF Chained
    <3> QED
      BY <3>1, <3>2
  <2>2. CASE a = b
    BY <2>2 DEF Chained
  <2>3. CASE a = d /\ b # d
    <3>1. ASSUME Installed(b)', desc'[a].thread = desc'[b].thread PROVE Size(d) < Size(b)
      <4>1. Installed(b) /\ desc[b].thread = desc[d].thread
        BY <2>3, <3>1, InstallSame DEF Install
      <4> QED
        BY <2>3, <4>1 DEF InstallOK, Below
    <3>2. Size(d) \in Nat /\ Size(b) \in Nat /\ Size(a)' = Size(d) /\ Size(b)' = Size(b)
      BY <2>3, DescType, InstallSame DEF InvA
    <3>3. Size(d) < Size(b) => Size(d) # Size(b) /\ ~(Size(b) < Size(d))
      BY <3>2
    <3> QED
      BY <3>1, <3>2, <3>3 DEF Chained
  <2>4. CASE a # d /\ b = d
    <3>1. ASSUME Installed(a)', desc'[a].thread = desc'[b].thread
          PROVE  /\ Size(d) < Size(a)
                 /\ \E y \in Descriptors : HasChild(a, y)' /\ Installed(y)' /\ Size(d) <= Size(y)
      <4>1. Installed(a) /\ desc[a].thread = desc[d].thread
        BY <2>4, <3>1, InstallSame DEF Install
      <4>2. /\ Size(d) < Size(a)
            /\ \E y \in Descriptors : HasChild(a, y) /\ (Installed(y) \/ y = d) /\ Size(d) <= Size(y)
        BY <2>4, <4>1 DEF InstallOK, Below
      <4> QED
        BY <4>2, InstallSame
    <3>2. Size(d) \in Nat /\ Size(a) \in Nat /\ Size(b)' = Size(d) /\ Size(a)' = Size(a)
      BY <2>4, DescType, InstallSame DEF InvA
    <3>3. Size(d) < Size(a) => Size(a) # Size(d)
      BY <3>2
    <3>4. \A y \in Descriptors : Size(y)' = Size(y)
      BY InstallSame
    <3> QED
      BY <3>1, <3>2, <3>3, <3>4 DEF Chained
  <2> QED
    BY <2>1, <2>2, <2>3, <2>4
<1> QED
  BY <1>1 DEF ChainOrdered
=============================================================================
