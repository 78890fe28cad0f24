--------------------------- MODULE SeqLockProofs ---------------------------
(***************************************************************************)
(* Proofs about the seqlock of atomic_double, for any number of readers,   *)
(* any word contents and any even counter modulus.                         *)
(***************************************************************************)
EXTENDS SeqLock, TLAPS

(* The counter stays below its modulus and changes parity at every bump.   *)
LEMMA IncFacts ==
  ASSUME NEW n \in 0 .. SeqModulus - 1
  PROVE  /\ Inc(n) \in 0 .. SeqModulus - 1
         /\ Odd(Inc(n)) <=> ~Odd(n)
         /\ Inc(n) = n + 1 \/ Inc(n) = n + 1 - SeqModulus
<1>1. SeqModulus \in Nat /\ SeqModulus >= 4 /\ SeqModulus % 2 = 0
  BY SeqModulusAssumption
<1>2. CASE n = SeqModulus - 1
  <2>1. Inc(n) = 0
    BY <1>2 DEF Inc
  <2>2. n % 2 = 1
    BY <1>1, <1>2
  <2>3. QED
    BY <1>1, <1>2, <2>1, <2>2 DEF Odd
<1>3. CASE n # SeqModulus - 1
  <2>1. Inc(n) = n + 1
    BY <1>3 DEF Inc
  <2>2. (n + 1) % 2 = 1 <=> ~(n % 2 = 1)
    OBVIOUS
  <2>3. QED
    BY <1>1, <1>3, <2>1, <2>2 DEF Odd
<1>4. QED
  BY <1>2, <1>3

(* The part of TypeOK that the end of an attempt changes.                  *)
AttemptTypeOK ==
  /\ pc \in [Readers -> {"idle", "before", "words"}]
  /\ attempt \in [Readers -> 0 .. MaxAttempts - 1]
  /\ before \in [Readers -> 0 .. SeqModulus - 1]
  /\ ret \in [Readers -> Value \union {Failed}]
  /\ overlap \in [Readers -> 0 .. SeqModulus - 1]
  /\ disturbed \in [Readers -> BOOLEAN]

(* Ending an attempt of a load, or the load, keeps the reader's locals in  *)
(* their types.                                                            *)
LEMMA AttemptTypes ==
  ASSUME TypeOK, NEW r \in Readers
  PROVE  /\ NextAttempt(r) => AttemptTypeOK'
         /\ \A v \in Value : Return(r, v) => AttemptTypeOK'
<1>1. ASSUME NEW v \in Value \union {Failed}, Return(r, v) PROVE AttemptTypeOK'
  BY <1>1, SeqModulusAssumption DEF Return, TypeOK, AttemptTypeOK, MaxAttempts
<1>2. ASSUME attempt[r] + 1 < MaxAttempts, pc' = [pc EXCEPT ![r] = "before"],
             attempt' = [attempt EXCEPT ![r] = @ + 1],
             overlap' = [overlap EXCEPT ![r] = 0],
             UNCHANGED <<before, ret, disturbed>>
      PROVE  AttemptTypeOK'
  BY <1>2, SeqModulusAssumption DEF TypeOK, AttemptTypeOK, MaxAttempts
<1>3. QED
  BY <1>1, <1>2 DEF NextAttempt

(* A step of the program keeps every variable in its type.                 *)
LEMMA TypeStep == TypeOK /\ [Next]_vars => TypeOK'
<1> SUFFICES ASSUME TypeOK, [Next]_vars PROVE TypeOK'
  OBVIOUS
<1> USE DEF TypeOK
<1>m. SeqModulus \in Nat /\ SeqModulus >= 4
  BY SeqModulusAssumption
<1>1. ASSUME NEW v \in Value, StoreBegin(v) PROVE TypeOK'
  BY <1>1, <1>m, IncFacts DEF StoreBegin, Bump, NoWrapAround, loadVars
<1>2. ASSUME NEW w \in Word, StoreWord(w) PROVE TypeOK'
  BY <1>2 DEF StoreWord, loadVars, Value
<1>3. CASE StoreEnd
  BY <1>3, <1>m, IncFacts DEF StoreEnd, Bump, NoWrapAround, loadVars
<1>4. ASSUME NEW r \in Readers, LoadBegin(r) PROVE TypeOK'
  BY <1>4 DEF LoadBegin, slotVars, Storing, Odd, MaxAttempts
<1>5. ASSUME NEW r \in Readers, LoadBefore(r) PROVE TypeOK'
  BY <1>5, <1>m DEF LoadBefore, slotVars, Word, Quiet
<1>6. ASSUME NEW r \in Readers, LoadBusy(r) PROVE TypeOK'
  BY <1>6, AttemptTypes DEF LoadBusy, AttemptTypeOK, slotVars
<1>7. ASSUME NEW r \in Readers, NEW w \in Word, LoadWord(r, w) PROVE TypeOK'
  BY <1>7 DEF LoadWord, slotVars, Value
<1>8. ASSUME NEW r \in Readers, LoadAfter(r) PROVE TypeOK'
  BY <1>8, AttemptTypes DEF LoadAfter, AttemptTypeOK, slotVars
<1>9. CASE UNCHANGED vars
  BY <1>9 DEF vars
<1>10. QED
  BY <1>1, <1>2, <1>3, <1>4, <1>5, <1>6, <1>7, <1>8, <1>9
     DEF Next, Writer, Load

(* Every reachable state is well typed.                                    *)
THEOREM TypeCorrect == Spec => []TypeOK
<1>1. Init => TypeOK
  BY SeqModulusAssumption DEF Init, TypeOK, MaxAttempts
<1>2. QED
  BY <1>1, TypeStep, PTL DEF Spec

-----------------------------------------------------------------------------
(* Every increment of the counter is counted by the readers in a load.     *)
LEMMA BumpFacts ==
  ASSUME TypeOK, Bump, NEW r \in Readers
  PROVE  /\ Storing' <=> ~Storing
         /\ Loading(r) => overlap'[r] = overlap[r] + 1
         /\ \/ sequence' = sequence + 1
            \/ sequence' = sequence + 1 - SeqModulus
         /\ sequence' \in 0 .. SeqModulus - 1
<1>1. sequence \in 0 .. SeqModulus - 1
  BY DEF TypeOK
<1>2. sequence' = Inc(sequence)
  BY DEF Bump
<1>3. Loading(r) => overlap'[r] = overlap[r] + 1
  BY DEF Bump
<1>4. QED
  BY <1>1, <1>2, <1>3, IncFacts DEF Storing

(* If the counter is what the attempt first read, no store has touched the *)
(* slot during the attempt.                                                *)
LEMMA EqualCounterMeansUndisturbed ==
  ASSUME TypeOK, NEW r \in Readers, CounterTracked(r), pc[r] = "words",
         before[r] = sequence
  PROVE  overlap[r] = 0
BY SeqModulusAssumption DEF TypeOK, CounterTracked

(* What holds of one reader. *)
ReaderInv(r) == CounterTracked(r) /\ WordsCurrent(r) /\ RetriesJustified(r)

(* A reader whose locals do not change keeps its invariant if the counter, *)
(* the value and its history stay as they are.                             *)
LEMMA ReaderStutter ==
  ASSUME NEW r \in Readers, ReaderInv(r),
         pc'[r] = pc[r], attempt'[r] = attempt[r], before'[r] = before[r],
         seen'[r] = seen[r], unread'[r] = unread[r],
         overlap'[r] = overlap[r], disturbed'[r] = disturbed[r],
         sequence' = sequence, current' = current
  PROVE  ReaderInv(r)'
BY DEF ReaderInv, CounterTracked, WordsCurrent, RetriesJustified, Loading,
       Storing, Odd

(* A reader keeps its invariant over a bump of the counter.                *)
LEMMA ReaderBump ==
  ASSUME TypeOK, NEW r \in Readers, ReaderInv(r), Bump,
         pc'[r] = pc[r], attempt'[r] = attempt[r], before'[r] = before[r],
         seen'[r] = seen[r], unread'[r] = unread[r],
         Loading(r) /\ disturbed[r] => disturbed'[r],
         Loading(r) /\ ~Storing => disturbed'[r]
  PROVE  ReaderInv(r)'
<1> USE DEF ReaderInv
<1>1. Loading(r)' <=> Loading(r)
  BY DEF Loading
<1>2. /\ Storing' <=> ~Storing
      /\ Loading(r) => overlap'[r] = overlap[r] + 1
      /\ sequence' = sequence + 1 \/ sequence' = sequence + 1 - SeqModulus
      /\ sequence' \in 0 .. SeqModulus - 1
  BY BumpFacts
<1>3. /\ sequence \in 0 .. SeqModulus - 1 /\ before[r] \in 0 .. SeqModulus - 1
      /\ overlap[r] \in 0 .. SeqModulus - 1 /\ SeqModulus \in Nat
  BY SeqModulusAssumption DEF TypeOK
<1>4. Loading(r) => overlap[r] < SeqModulus - 1
  BY DEF Bump, NoWrapAround
<1>5. Loading(r) => disturbed'[r]
  BY DEF RetriesJustified
<1>6. CounterTracked(r)'
  <2> SUFFICES ASSUME pc'[r] = "words"
               PROVE  /\ ~Odd(before'[r])
                      /\ \/ sequence' = before'[r] + overlap'[r]
                         \/ sequence' = before'[r] + overlap'[r] - SeqModulus
    BY DEF CounterTracked
  <2>1. pc[r] = "words" /\ Loading(r)
    BY DEF Loading
  <2>2. ~Odd(before[r])
    BY <2>1 DEF CounterTracked
  <2>3. \/ sequence = before[r] + overlap[r]
        \/ sequence = before[r] + overlap[r] - SeqModulus
    BY <2>1 DEF CounterTracked
  <2>4. overlap'[r] = overlap[r] + 1
    BY <1>2, <2>1
  <2>5. \/ sequence' = before[r] + overlap'[r]
        \/ sequence' = before[r] + overlap'[r] - SeqModulus
    BY <1>2, <1>3, <1>4, <2>1, <2>3, <2>4
  <2>6. QED
    BY <2>2, <2>5
<1>7. WordsCurrent(r)'
  BY <1>1, <1>2, <1>3 DEF WordsCurrent, Loading
<1>8. RetriesJustified(r)'
  BY <1>1, <1>5 DEF RetriesJustified
<1>9. QED
  BY <1>6, <1>7, <1>8

-----------------------------------------------------------------------------
LEMMA InitInv == Init => SeqLockInv
<1> SUFFICES ASSUME Init PROVE SeqLockInv
  OBVIOUS
<1>1. TypeOK
  BY SeqModulusAssumption DEF Init, TypeOK, MaxAttempts
<1>2. MemoryCoherent
  BY DEF Init, MemoryCoherent
<1>3. ASSUME NEW r \in Readers PROVE ReaderInv(r)
  BY DEF Init, ReaderInv, CounterTracked, WordsCurrent, RetriesJustified, Loading
<1>4. QED
  BY <1>1, <1>2, <1>3 DEF SeqLockInv, ReaderInv

(* The words in memory follow the store in progress.                       *)
LEMMA CoherenceStep ==
  ASSUME SeqLockInv, [Next]_vars
  PROVE  MemoryCoherent'
<1> USE DEF MemoryCoherent
<1>t. TypeOK /\ MemoryCoherent
  BY DEF SeqLockInv
<1>1. ASSUME NEW v \in Value, StoreBegin(v) PROVE MemoryCoherent'
  <2>1. sequence' = Inc(sequence) /\ sequence \in 0 .. SeqModulus - 1
    BY <1>1, <1>t DEF StoreBegin, Bump, TypeOK
  <2>2. Storing' /\ unwritten' = Word
    BY <1>1, <2>1, IncFacts DEF StoreBegin, Storing
  <2>3. QED
    BY <2>2
<1>2. ASSUME NEW w \in Word, StoreWord(w) PROVE MemoryCoherent'
  BY <1>2, <1>t DEF StoreWord, TypeOK, Value, Storing
<1>3. CASE StoreEnd
  BY <1>3, <1>t DEF StoreEnd, Word
<1>4. ASSUME UNCHANGED slotVars PROVE MemoryCoherent'
  BY <1>4, <1>t DEF slotVars, Storing
<1>5. QED
  BY <1>1, <1>2, <1>3, <1>4
     DEF Next, Writer, Load, vars, slotVars, LoadBegin, LoadBefore, LoadBusy,
         LoadWord, LoadAfter

(* Every step keeps what holds of each reader.                             *)
LEMMA ReaderStep ==
  ASSUME SeqLockInv, [Next]_vars, NEW r \in Readers
  PROVE  ReaderInv(r)'
<1>t. TypeOK /\ MemoryCoherent /\ ReaderInv(r)
  BY DEF SeqLockInv, ReaderInv
<1>1. ASSUME NEW v \in Value, StoreBegin(v) PROVE ReaderInv(r)'
  <2>1. Bump /\ disturbed' = [q \in Readers |-> disturbed[q] \/ Loading(q)]
    BY <1>1 DEF StoreBegin
  <2>2. /\ pc' = pc /\ attempt' = attempt /\ before' = before /\ seen' = seen
        /\ unread' = unread
    BY <1>1 DEF StoreBegin, loadVars
  <2>3. QED
    BY <1>t, <2>1, <2>2, ReaderBump
<1>2. ASSUME NEW w \in Word, StoreWord(w) PROVE ReaderInv(r)'
  BY <1>2, <1>t, ReaderStutter DEF StoreWord, loadVars
<1>3. CASE StoreEnd
  <2>1. Bump /\ disturbed' = disturbed /\ Storing
    BY <1>3 DEF StoreEnd
  <2>2. /\ pc' = pc /\ attempt' = attempt /\ before' = before /\ seen' = seen
        /\ unread' = unread
    BY <1>3 DEF StoreEnd, loadVars
  <2>3. QED
    BY <1>t, <2>1, <2>2, ReaderBump
<1>4. ASSUME NEW q \in Readers, q # r,
             LoadBegin(q) \/ Load(q)
      PROVE  ReaderInv(r)'
  <2>1. sequence' = sequence /\ current' = current
    BY <1>4 DEF LoadBegin, Load, LoadBefore, LoadBusy, LoadWord, LoadAfter, slotVars
  <2>2. /\ pc'[r] = pc[r] /\ attempt'[r] = attempt[r] /\ before'[r] = before[r]
        /\ overlap'[r] = overlap[r] /\ disturbed'[r] = disturbed[r]
    BY <1>4, <1>t DEF TypeOK, LoadBegin, Load, LoadBefore, LoadBusy, LoadWord,
                      LoadAfter, NextAttempt, Return
  <2>3. seen'[r] = seen[r] /\ unread'[r] = unread[r]
    BY <1>4, <1>t DEF TypeOK, LoadBegin, Load, LoadBefore, LoadBusy, LoadWord,
                      LoadAfter
  <2>4. QED
    BY <1>t, <2>1, <2>2, <2>3, ReaderStutter
<1> USE DEF ReaderInv
<1>5. CASE LoadBegin(r)
  <2>1. pc'[r] = "before"
    BY <1>5, <1>t DEF LoadBegin, TypeOK
  <2>2. disturbed'[r] <=> Storing
    BY <1>5, <1>t DEF LoadBegin, TypeOK
  <2>3. Storing' <=> Storing
    BY <1>5 DEF LoadBegin, slotVars, Storing
  <2>4. attempt'[r] = 0
    BY <1>5, <1>t DEF LoadBegin, TypeOK
  <2>5. QED
    BY <2>1, <2>2, <2>3, <2>4
       DEF CounterTracked, WordsCurrent, RetriesJustified
<1>6. CASE LoadBefore(r)
  <2>1. /\ pc'[r] = "words" /\ before'[r] = sequence /\ unread'[r] = Word
        /\ overlap'[r] = 0 /\ sequence' = sequence /\ attempt'[r] = attempt[r]
        /\ disturbed'[r] = disturbed[r] /\ ~Storing /\ pc[r] = "before"
    BY <1>6, <1>t DEF LoadBefore, TypeOK, slotVars, Quiet
  <2>2. CounterTracked(r)'
    BY <1>t, <2>1 DEF CounterTracked, Storing, TypeOK
  <2>3. WordsCurrent(r)'
    BY <2>1 DEF WordsCurrent
  <2>4. RetriesJustified(r)'
    BY <1>t, <2>1 DEF RetriesJustified, Loading, Storing
  <2>5. QED
    BY <2>2, <2>3, <2>4
<1>7. ASSUME NextAttempt(r), UNCHANGED slotVars, Loading(r), disturbed[r]
      PROVE  ReaderInv(r)'
  <2>1. CASE Return(r, Failed)
    <3>1. pc'[r] = "idle"
      BY <2>1, <1>t DEF Return, TypeOK
    <3>2. QED
      BY <3>1 DEF CounterTracked, WordsCurrent, RetriesJustified, Loading
  <2>2. CASE pc' = [pc EXCEPT ![r] = "before"] /\ disturbed' = disturbed
    <3>1. pc'[r] = "before" /\ disturbed'[r]
      BY <1>7, <2>2, <1>t DEF TypeOK
    <3>2. QED
      BY <3>1 DEF CounterTracked, WordsCurrent, RetriesJustified, Loading
  <2>3. QED
    BY <1>7, <2>1, <2>2 DEF NextAttempt
<1>8. CASE LoadBusy(r)
  <2>1. Loading(r) /\ disturbed[r]
    BY <1>8, <1>t DEF LoadBusy, Loading, RetriesJustified
  <2>2. QED
    BY <1>7, <1>8, <2>1 DEF LoadBusy
<1>9. ASSUME NEW w \in Word, LoadWord(r, w) PROVE ReaderInv(r)'
  <2>1. /\ pc'[r] = "words" /\ pc[r] = "words" /\ w \in unread[r]
        /\ seen'[r] = [seen[r] EXCEPT ![w] = mem[w]]
        /\ unread'[r] = unread[r] \ {w}
        /\ overlap'[r] = overlap[r] /\ sequence' = sequence
        /\ attempt'[r] = attempt[r] /\ before'[r] = before[r]
        /\ disturbed'[r] = disturbed[r] /\ current' = current
    BY <1>9, <1>t DEF LoadWord, TypeOK, slotVars
  <2>2. CounterTracked(r)' /\ RetriesJustified(r)'
    BY <1>t, <2>1 DEF CounterTracked, RetriesJustified, Loading, Storing, Odd
  <2>3. WordsCurrent(r)'
    <3> SUFFICES ASSUME overlap[r] = 0, NEW x \in Word, x \notin unread'[r]
                 PROVE  seen'[r][x] = current'[x]
      BY <2>1 DEF WordsCurrent
    <3>1. sequence = before[r] /\ ~Storing
      BY <1>t, <2>1, SeqModulusAssumption DEF CounterTracked, TypeOK, Storing
    <3>2. mem[w] = current[w]
      BY <1>t, <3>1 DEF MemoryCoherent
    <3>3. seen[r] \in Value
      BY <1>t DEF TypeOK
    <3>4. CASE x = w
      BY <2>1, <3>2, <3>3, <3>4 DEF Value
    <3>5. CASE x # w
      BY <1>t, <2>1, <3>3, <3>5 DEF Value, WordsCurrent
    <3>6. QED
      BY <3>4, <3>5
  <2>4. QED
    BY <2>2, <2>3
<1>10. CASE LoadAfter(r)
  <2>1. pc[r] = "words" /\ Loading(r) /\ UNCHANGED slotVars
    BY <1>10 DEF LoadAfter, Loading
  <2>2. CASE Disturbed(r) /\ NextAttempt(r)
    <3>1. Storing \/ overlap[r] > 0
      BY <1>t, <2>1, <2>2, SeqModulusAssumption
         DEF Disturbed, CounterTracked, TypeOK
    <3>2. disturbed[r]
      BY <1>t, <2>1, <3>1 DEF RetriesJustified
    <3>3. QED
      BY <1>7, <2>1, <2>2, <3>2
  <2>3. CASE Return(r, seen[r])
    <3>1. pc'[r] = "idle"
      BY <2>3, <1>t DEF Return, TypeOK
    <3>2. QED
      BY <3>1 DEF CounterTracked, WordsCurrent, RetriesJustified, Loading
  <2>4. QED
    BY <1>10, <2>2, <2>3 DEF LoadAfter
<1>11. CASE UNCHANGED vars
  BY <1>11, <1>t, ReaderStutter DEF vars
<1>12. QED
  BY <1>1, <1>2, <1>3, <1>4, <1>5, <1>6, <1>8, <1>9, <1>10, <1>11
     DEF Next, Writer, Load

(* The seqlock invariant holds in every reachable state.                   *)
THEOREM SeqLockCorrect == Spec => []SeqLockInv
<1>1. SeqLockInv /\ [Next]_vars => SeqLockInv'
  BY TypeStep, CoherenceStep, ReaderStep DEF SeqLockInv, ReaderInv
<1>2. QED
  BY <1>1, InitInv, PTL DEF Spec

(* A load that succeeds returns the value of the latest store, complete.   *)
THEOREM LoadsAreCurrent == Spec => LoadsCurrent
<1> DEFINE Current(r) ==
      Loading(r) /\ ~Loading(r)' /\ ret'[r] # Failed =>
        ret'[r] = current /\ ~Storing
<1>1. ASSUME SeqLockInv, [Next]_vars, NEW r \in Readers
      PROVE  Current(r)
  <2>t. TypeOK /\ MemoryCoherent /\ ReaderInv(r)
    BY <1>1 DEF SeqLockInv, ReaderInv
  <2>1. ASSUME NEW q \in Readers, LoadAfter(q), ~Disturbed(q), Return(q, seen[q])
        PROVE  Current(r)
    <3>1. CASE q # r
      BY <2>1, <2>t, <3>1 DEF Return, TypeOK, Loading
    <3>2. CASE q = r
      <4>1. pc[r] = "words" /\ unread[r] = {} /\ before[r] = sequence /\ ~Storing
        BY <2>1, <3>2 DEF LoadAfter, Disturbed
      <4>2. overlap[r] = 0
        BY <2>t, <4>1, EqualCounterMeansUndisturbed DEF ReaderInv
      <4>3. \A w \in Word : seen[r][w] = current[w]
        BY <2>t, <4>1, <4>2 DEF ReaderInv, WordsCurrent
      <4>4. seen[r] = current
        BY <2>t, <4>3 DEF TypeOK, Value
      <4>5. ret'[r] = seen[r]
        BY <2>1, <2>t, <3>2 DEF Return, TypeOK
      <4>6. QED
        BY <4>1, <4>4, <4>5
    <3>3. QED
      BY <3>1, <3>2
  <2>2. ASSUME NEW q \in Readers, NextAttempt(q)
        PROVE  Current(r)
    BY <2>2, <2>t DEF NextAttempt, Return, TypeOK, Loading
  <2>3. CASE Loading(r) => Loading(r)'
    BY <2>3
  <2>4. CASE UNCHANGED pc
    BY <2>4 DEF Loading
  <2>5. ASSUME NEW q \in Readers, LoadBegin(q) \/ LoadBefore(q)
        PROVE  Loading(r) => Loading(r)'
    BY <2>5, <2>t DEF LoadBegin, LoadBefore, Loading, TypeOK
  <2>6. QED
    BY <1>1, <2>1, <2>2, <2>3, <2>4, <2>5
       DEF Next, Writer, StoreBegin, StoreWord, StoreEnd, Load, LoadBusy,
           LoadWord, LoadAfter, loadVars, vars
<1>2. SeqLockInv /\ [Next]_vars => \A r \in Readers : Current(r)
  BY <1>1
<1>3. QED
  BY <1>2, SeqLockCorrect, PTL DEF Spec, LoadsCurrent

-----------------------------------------------------------------------------
(* Every step of the slot is a step of the register, or changes nothing of *)
(* it.                                                                     *)
LEMMA RegisterStep ==
  ASSUME SeqLockInv, [Next]_vars
  PROVE  [Register!Next]_(Register!vars)
<1>t. TypeOK /\ MemoryCoherent /\ \A r \in Readers : ReaderInv(r)
  BY DEF SeqLockInv, ReaderInv
<1> USE DEF Register!Next, Register!vars
<1>1. ASSUME NEW v \in Value, StoreBegin(v) PROVE Register!BeginStore(v)
  <2>1. ~Storing /\ Storing'
    BY <1>1, <1>t, IncFacts DEF StoreBegin, Bump, Storing, TypeOK
  <2>2. pc' = pc /\ ret' = ret /\ current' = v
    BY <1>1 DEF StoreBegin, loadVars
  <2>3. disturbed' = [r \in Readers |-> disturbed[r] \/ Loading(r)]
    BY <1>1 DEF StoreBegin
  <2>4. [r \in Readers |-> Loading(r)]' = [r \in Readers |-> Loading(r)]
    BY <2>2 DEF Loading
  <2>5. disturbed' = [r \in Readers |->
                        disturbed[r] \/ [q \in Readers |-> Loading(q)][r]]
    BY <2>3
  <2>6. QED
    BY <2>1, <2>2, <2>4, <2>5 DEF Register!BeginStore
<1>2. CASE StoreEnd
  <2>1. Storing /\ ~Storing'
    BY <1>2, <1>t, IncFacts DEF StoreEnd, Bump, Storing, TypeOK
  <2>2. UNCHANGED <<current, pc, disturbed, ret>>
    BY <1>2 DEF StoreEnd, loadVars
  <2>3. [r \in Readers |-> Loading(r)]' = [r \in Readers |-> Loading(r)]
    BY <2>2 DEF Loading
  <2>4. Storing' = FALSE
    BY <2>1 DEF Storing, Odd
  <2>5. QED
    BY <2>1, <2>2, <2>3, <2>4 DEF Register!EndStore
<1>3. ASSUME NEW r \in Readers, LoadBegin(r) PROVE Register!BeginLoad(r)
  <2>1. UNCHANGED <<current, sequence, ret>>
    BY <1>3 DEF LoadBegin, slotVars
  <2>2. ~Loading(r) /\ pc' = [pc EXCEPT ![r] = "before"]
    BY <1>3 DEF LoadBegin, Loading
  <2>3. [q \in Readers |-> Loading(q)]'
          = [[q \in Readers |-> Loading(q)] EXCEPT ![r] = TRUE]
    BY <2>2, <1>t DEF Loading, TypeOK
  <2>4. disturbed' = [disturbed EXCEPT ![r] = Storing]
    BY <1>3 DEF LoadBegin
  <2>5. QED
    BY <2>1, <2>2, <2>3, <2>4 DEF Register!BeginLoad, Storing
<1>4. ASSUME NEW r \in Readers, NEW result, Return(r, result), UNCHANGED slotVars
      PROVE  /\ UNCHANGED <<current, Storing>>
             /\ [q \in Readers |-> Loading(q)]'
                  = [[q \in Readers |-> Loading(q)] EXCEPT ![r] = FALSE]
             /\ disturbed' = [disturbed EXCEPT ![r] = FALSE]
             /\ ret' = [ret EXCEPT ![r] = result]
  <2>1. UNCHANGED <<current, Storing>>
    BY <1>4 DEF slotVars, Storing
  <2>2. [q \in Readers |-> Loading(q)]'
          = [[q \in Readers |-> Loading(q)] EXCEPT ![r] = FALSE]
    BY <1>4, <1>t DEF Return, Loading, TypeOK
  <2>3. QED
    BY <1>4, <2>1, <2>2 DEF Return
<1>5. ASSUME NEW r \in Readers, NextAttempt(r), UNCHANGED slotVars, Loading(r),
             disturbed[r]
      PROVE  [Register!Next]_(Register!vars)
  <2>1. CASE Return(r, Failed)
    <3>1. Register!GiveUp(r)
      BY <1>4, <1>5, <2>1 DEF Register!GiveUp
    <3>2. QED
      BY <3>1
  <2>2. CASE /\ pc' = [pc EXCEPT ![r] = "before"]
             /\ UNCHANGED <<before, ret, disturbed>>
    <3>1. [q \in Readers |-> Loading(q)]' = [q \in Readers |-> Loading(q)]
      BY <1>5, <1>t, <2>2 DEF Loading, TypeOK
    <3>2. QED
      BY <1>5, <2>2, <3>1 DEF slotVars, Storing
  <2>3. QED
    BY <1>5, <2>1, <2>2 DEF NextAttempt
<1>6. ASSUME NEW r \in Readers, LoadBefore(r)
      PROVE  UNCHANGED Register!vars
  <2>1. [q \in Readers |-> Loading(q)]' = [q \in Readers |-> Loading(q)]
    BY <1>6, <1>t DEF LoadBefore, Loading, TypeOK
  <2>2. QED
    BY <1>6, <2>1 DEF LoadBefore, slotVars, Storing
<1>7. ASSUME NEW r \in Readers, LoadBusy(r)
      PROVE  [Register!Next]_(Register!vars)
  <2>1. Loading(r) /\ disturbed[r]
    BY <1>7, <1>t DEF LoadBusy, Loading, ReaderInv, RetriesJustified
  <2>2. QED
    BY <1>5, <1>7, <2>1 DEF LoadBusy
<1>8. ASSUME NEW r \in Readers, LoadAfter(r)
      PROVE  [Register!Next]_(Register!vars)
  <2>1. pc[r] = "words" /\ Loading(r) /\ unread[r] = {} /\ UNCHANGED slotVars
    BY <1>8 DEF LoadAfter, Loading
  <2>2. CASE Disturbed(r) /\ NextAttempt(r)
    <3>1. Storing \/ overlap[r] > 0
      BY <1>t, <2>1, <2>2, SeqModulusAssumption
         DEF ReaderInv, Disturbed, CounterTracked, TypeOK
    <3>2. disturbed[r]
      BY <1>t, <2>1, <3>1 DEF ReaderInv, RetriesJustified
    <3>3. QED
      BY <1>5, <2>1, <2>2, <3>2
  <2>3. CASE ~Disturbed(r) /\ Return(r, seen[r])
    <3>1. before[r] = sequence /\ ~Storing
      BY <2>3 DEF Disturbed
    <3>2. overlap[r] = 0
      BY <1>t, <2>1, <3>1, EqualCounterMeansUndisturbed DEF ReaderInv
    <3>3. seen[r] = current
      BY <1>t, <2>1, <3>2 DEF ReaderInv, WordsCurrent, TypeOK, Value
    <3>4. Register!Succeed(r)
      BY <1>4, <2>1, <2>3, <3>1, <3>3 DEF Register!Succeed
    <3>5. QED
      BY <3>4
  <2>4. QED
    BY <1>8, <2>2, <2>3 DEF LoadAfter
<1>9. CASE \/ UNCHANGED vars
           \/ \E w \in Word : StoreWord(w)
           \/ \E r \in Readers, w \in Word : LoadWord(r, w)
  <2>1. UNCHANGED <<sequence, current, pc, disturbed, ret>>
    BY <1>9 DEF vars, StoreWord, LoadWord, loadVars, slotVars
  <2>2. [q \in Readers |-> Loading(q)]' = [q \in Readers |-> Loading(q)]
    BY <2>1 DEF Loading
  <2>3. QED
    BY <2>1, <2>2 DEF Storing
<1>10. QED
  BY <1>1, <1>2, <1>3, <1>6, <1>7, <1>8, <1>9 DEF Next, Writer, Load

(* The slot of two words and a counter implements the atomic register that *)
(* RuntimeControl.tla uses in its place.                                   *)
THEOREM SeqLockImplementsRegister == Spec => ImplementsRegister
<1>1. Init => Register!Init
  <2> SUFFICES ASSUME Init PROVE Register!Init
    OBVIOUS
  <2>1. current \in Value /\ Storing = FALSE
    BY DEF Init, Storing, Odd
  <2>2. [r \in Readers |-> Loading(r)] = [r \in Readers |-> FALSE]
    BY DEF Init, Loading
  <2>3. QED
    BY <2>1, <2>2 DEF Init, Register!Init
<1>2. QED
  BY <1>1, SeqLockCorrect, RegisterStep, PTL
     DEF Spec, ImplementsRegister, Register!Spec
=============================================================================
