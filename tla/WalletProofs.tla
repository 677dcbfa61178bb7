---------------------------- MODULE WalletProofs ----------------------------
(***************************************************************************)
(* What holds of Wallet for every set of users, orders and transactions,   *)
(* however they interleave.                                                *)
(***************************************************************************)
EXTENDS Wallet, SequenceTheorems, TLAPS

-----------------------------------------------------------------------------
(* The programs *)

\* what a program must be like: the guard is locked and the user read before anything is
\* written, and no change is made twice
WellFormed(program) ==
    /\ Len(program) \in 0..5
    /\ \A i \in 1..Len(program) : program[i] \in {"credit", "debit"} =>
         /\ \E m \in 1..(i - 1) : program[m] = "guard"
         /\ \E m \in 1..(i - 1) : program[m] = "load"
    /\ \A i, m \in 1..Len(program) :
         program[i] = program[m] /\ program[i] \in {"credit", "debit", "load"} => i = m

\* the program of a referral, written out
LEMMA ReferralProgram ==
    /\ Len(ReferralSteps) = 4
    /\ ReferralSteps[1] = "guard"
    /\ ReferralSteps[2] = "load"
    /\ ReferralSteps[3] = "lock"
    /\ ReferralSteps[4] = "credit"
<1> DEFINE S == {"guard", "load", "lock", "credit"}
           steps == <<"load", "lock", "credit">>
<1>1. RegisterSteps \in Seq(S) /\ steps \in Seq(S)
  BY DEF RegisterSteps
<1>2. Len(RegisterSteps) = 1 /\ RegisterSteps[1] = "guard"
  BY DEF RegisterSteps
<1>3. Len(steps) = 3 /\ steps[1] = "load" /\ steps[2] = "lock" /\ steps[3] = "credit"
  OBVIOUS
<1>4. ReferralSteps = RegisterSteps \o steps
  BY DEF ReferralSteps
<1> HIDE DEF S, steps
<1>5. /\ Len(RegisterSteps \o steps) = Len(RegisterSteps) + Len(steps)
      /\ \A i \in 1..(Len(RegisterSteps) + Len(steps)) : (RegisterSteps \o steps)[i] =
           IF i <= Len(RegisterSteps) THEN RegisterSteps[i]
           ELSE steps[i - Len(RegisterSteps)]
  BY <1>1, ConcatProperties
<1>6. /\ Len(ReferralSteps) = 4
      /\ \A i \in 1..4 : ReferralSteps[i] = IF i <= 1 THEN RegisterSteps[i] ELSE steps[i - 1]
  BY <1>2, <1>3, <1>4, <1>5
<1> QED
  BY <1>2, <1>3, <1>6

\* the programs of the code are like that
LEMMA ProgramsWellFormed == \A k \in Kinds : WellFormed(Program[k])
<1>1. WellFormed(TopUpSteps)
  BY DEF TopUpSteps, WellFormed
<1>2. WellFormed(CheckedTopUpSteps)
  BY DEF CheckedTopUpSteps, WellFormed
<1>3. WellFormed(PaymentSteps)
  BY DEF PaymentSteps, WellFormed
<1>4. WellFormed(CheckSteps)
  BY DEF CheckSteps, WellFormed
<1>5. WellFormed(PurchaseSteps)
  BY DEF PurchaseSteps, WellFormed
<1>6. WellFormed(ReferralSteps)
  BY ReferralProgram DEF WellFormed
<1> QED
  BY <1>1, <1>2, <1>3, <1>4, <1>5, <1>6 DEF Kinds, Program

-----------------------------------------------------------------------------
(* The invariant *)

\* transaction j has done this kind of step
Passed(j, step) == \E i \in 1..pc[j] : Program[Kind[j]][i] = step

\* a transaction goes on within its program, and one that has ended is reset
WithinProgram ==
    \A j \in Jobs : pc[j] <= Len(Program[Kind[j]]) /\ (~Open(j) => pc[j] = 0)

\* the guard row is held from its lock to the end
GuardIsHeld == \A j \in Jobs : Passed(j, "guard") => holds[Guard[j]] = j

\* no balance is negative, committed or not
NoDebt ==
    /\ \A u \in Users : balance[u] >= 0
    /\ \A j \in Jobs : object[j] >= 0

\* a transaction flushes the row of its credit and that of its debit, in these steps
AddedIsOwn ==
    \A j \in Jobs, key \in Keys : added[j][key] # NoRow =>
        \/ key = CreditKey[j] /\ Passed(j, "credit")
        \/ key = DebitKey[j] /\ Passed(j, "debit")

\* what a transaction found out about its key and its balance holds until it writes
SoughtIsAllowed ==
    \A j \in Jobs : sought[j] =>
        \/ AtStep(j, "credit") /\ ledger[CreditKey[j]] = NoRow
        \/ AtStep(j, "debit") /\ ledger[DebitKey[j]] = NoRow /\ object[j] >= Amount[j]

\* a transaction that nobody has overtaken has the committed balance and its own changes
ReadIsCurrent ==
    \A j \in Jobs : Loaded(j) /\ Holder[j] \notin overtaken =>
        object[j] = balance[Holder[j]] + Flushed(j)

Inv ==
    /\ TypeOK
    /\ WithinProgram
    /\ GuardIsHeld
    /\ NoDebt
    /\ AddedIsOwn
    /\ SoughtIsAllowed
    /\ NoKeyWrittenTwice
    /\ ReadIsCurrent
    /\ ExactUnlessOvertaken

-----------------------------------------------------------------------------
\* where a transaction is in its program
LEMMA AtStepIsNext ==
    ASSUME TypeOK, NEW j \in Jobs, NEW step, AtStep(j, step)
    PROVE  /\ pc[j] \in Nat
           /\ pc[j] + 1 \in 1..Len(Program[Kind[j]])
           /\ Program[Kind[j]][pc[j] + 1] = step
           /\ pc[j] + 1 <= 5
<1>1. Len(Program[Kind[j]]) \in 0..5
  BY ProgramsWellFormed, WalletAssumption DEF WellFormed
<1>2. pc[j] \in 0..5
  BY DEF TypeOK
<1>3. pc[j] < Len(Program[Kind[j]]) /\ Program[Kind[j]][pc[j] + 1] = step
  BY DEF AtStep, Step
<1> QED
  BY <1>1, <1>2, <1>3

\* a change comes after the guard and the read, and is made once; the user is read before
\* anything is written
LEMMA StepsInOrder ==
    ASSUME TypeOK, WithinProgram, NEW j \in Jobs
    PROVE  /\ \A step \in {"credit", "debit"} : Passed(j, step) \/ AtStep(j, step) =>
                Passed(j, "guard") /\ Passed(j, "load")
           /\ \A step \in {"credit", "debit", "load"} : ~(Passed(j, step) /\ AtStep(j, step))
           /\ AtStep(j, "load") => ~Passed(j, "credit") /\ ~Passed(j, "debit")
<1> DEFINE program == Program[Kind[j]]
<1>1. WellFormed(program)
  BY ProgramsWellFormed, WalletAssumption
<1>2. pc[j] \in Nat /\ pc[j] <= Len(program) /\ Len(program) \in Nat
  <2>1. Len(program) \in 0..5
    BY <1>1 DEF WellFormed
  <2>2. pc[j] \in 0..5 /\ pc[j] <= Len(program)
    BY DEF TypeOK, WithinProgram
  <2> HIDE DEF program
  <2> QED
    BY <2>1, <2>2
<1>3. ASSUME NEW step \in {"credit", "debit"}, NEW i \in 1..Len(program),
             program[i] = step, i <= pc[j] + 1
      PROVE  Passed(j, "guard") /\ Passed(j, "load")
  <2>1. PICK m \in 1..(i - 1) : program[m] = "guard"
    BY <1>1, <1>3 DEF WellFormed
  <2>2. PICK n \in 1..(i - 1) : program[n] = "load"
    BY <1>1, <1>3 DEF WellFormed
  <2>3. m \in 1..pc[j] /\ n \in 1..pc[j]
    BY <1>2, <1>3
  <2> QED
    BY <2>1, <2>2, <2>3 DEF Passed
<1>4. \A step \in {"credit", "debit"} : Passed(j, step) \/ AtStep(j, step) =>
        Passed(j, "guard") /\ Passed(j, "load")
  <2> SUFFICES ASSUME NEW step \in {"credit", "debit"}, Passed(j, step) \/ AtStep(j, step)
               PROVE  Passed(j, "guard") /\ Passed(j, "load")
    OBVIOUS
  <2>1. CASE AtStep(j, step)
    BY <1>3, <2>1, AtStepIsNext
  <2>2. CASE Passed(j, step)
    <3>1. PICK i \in 1..pc[j] : program[i] = step
      BY <2>2 DEF Passed
    <3>2. i \in 1..Len(program) /\ i <= pc[j] + 1
      BY <1>2
    <3> QED
      BY <1>3, <3>1, <3>2
  <2> QED
    BY <2>1, <2>2
<1>5. ASSUME NEW step \in {"credit", "debit", "load"}, Passed(j, step), AtStep(j, step)
      PROVE  FALSE
  <2>1. PICK i \in 1..pc[j] : program[i] = step
    BY <1>5 DEF Passed
  <2>2. pc[j] + 1 \in 1..Len(program) /\ program[pc[j] + 1] = step
    BY <1>5, AtStepIsNext
  <2>3. i \in 1..Len(program) /\ i # pc[j] + 1
    BY <1>2
  <2> QED
    BY <1>1, <2>1, <2>2, <2>3 DEF WellFormed
<1>6. ASSUME AtStep(j, "load"), NEW step \in {"credit", "debit"}, Passed(j, step)
      PROVE  FALSE
  <2>1. Passed(j, "load")
    BY <1>4, <1>6
  <2> QED
    BY <1>5, <1>6, <2>1
<1> QED
  BY <1>4, <1>5, <1>6

\* a transaction that goes on has passed one step more, and the others have not moved
LEMMA Advanced ==
    ASSUME TypeOK, WithinProgram, NEW j \in Jobs, NEW step, AtStep(j, step), Advance(j),
           result' = result
    PROVE  /\ pc' \in [Jobs -> 0..5]
           /\ WithinProgram'
           /\ \A t \in {"guard", "load", "credit", "debit"} :
                Passed(j, t)' <=> Passed(j, t) \/ t = step
           /\ \A i \in Jobs \ {j} : pc'[i] = pc[i]
           /\ \A i \in Jobs \ {j} : \A t \in {"guard", "load", "credit", "debit"} :
                Passed(i, t)' <=> Passed(i, t)
<1>1. /\ pc[j] \in Nat
      /\ pc[j] + 1 \in 1..Len(Program[Kind[j]])
      /\ Program[Kind[j]][pc[j] + 1] = step
      /\ pc[j] + 1 <= 5
  BY AtStepIsNext
<1>2. pc'[j] = pc[j] + 1 /\ \A i \in Jobs \ {j} : pc'[i] = pc[i]
  BY DEF Advance, TypeOK
<1>3. pc' \in [Jobs -> 0..5]
  <2>1. pc[j] + 1 \in 0..5
    BY <1>1
  <2> QED
    BY <2>1 DEF Advance, TypeOK
<1>4. WithinProgram'
  BY <1>1, <1>2 DEF WithinProgram, Open, AtStep
<1>5. \A t \in {"guard", "load", "credit", "debit"} :
        Passed(j, t)' <=> Passed(j, t) \/ t = step
  <2> SUFFICES ASSUME NEW t \in {"guard", "load", "credit", "debit"}
               PROVE  Passed(j, t)' <=> Passed(j, t) \/ t = step
    OBVIOUS
  <2>1. ASSUME Passed(j, t)' PROVE Passed(j, t) \/ t = step
    <3>1. PICK i \in 1..(pc[j] + 1) : Program[Kind[j]][i] = t
      BY <1>2, <2>1 DEF Passed
    <3>2. CASE i = pc[j] + 1
      BY <1>1, <3>1, <3>2
    <3>3. CASE i # pc[j] + 1
      <4>1. i \in 1..pc[j]
        BY <1>1, <3>3
      <4> QED
        BY <3>1, <4>1 DEF Passed
    <3> QED
      BY <3>2, <3>3
  <2>2. ASSUME Passed(j, t) PROVE Passed(j, t)'
    <3>1. PICK i \in 1..pc[j] : Program[Kind[j]][i] = t
      BY <2>2 DEF Passed
    <3>2. i \in 1..pc'[j]
      BY <1>1, <1>2
    <3> QED
      BY <3>1, <3>2 DEF Passed
  <2>3. ASSUME t = step PROVE Passed(j, t)'
    <3>1. pc[j] + 1 \in 1..pc'[j]
      BY <1>1, <1>2
    <3> QED
      BY <1>1, <2>3, <3>1 DEF Passed
  <2> QED
    BY <2>1, <2>2, <2>3
<1>6. \A i \in Jobs \ {j} : \A t \in {"guard", "load", "credit", "debit"} :
        Passed(i, t)' <=> Passed(i, t)
  BY <1>2 DEF Passed
<1> QED
  BY <1>2, <1>3, <1>4, <1>5, <1>6

-----------------------------------------------------------------------------
(* Steps *)

\* a step that takes a row lock, or goes on without one
LEMMA LockStep ==
    ASSUME Inv, NEW j \in Jobs, NEW step \in {"guard", "promo", "lock"},
           AtStep(j, step), Advance(j),
           UNCHANGED <<committed, result, object, sought, added>>,
           \/ holds' = holds /\ step # "guard"
           \/ \E row \in Rows : /\ Free(row, j)
                                /\ Take(row, j)
                                /\ step = "guard" => row = Guard[j]
    PROVE  Inv'
<1> USE DEF committed
<1>1. TypeOK /\ WithinProgram
  BY DEF Inv
<1>2. /\ pc' \in [Jobs -> 0..5]
      /\ WithinProgram'
      /\ \A t \in {"guard", "load", "credit", "debit"} :
           Passed(j, t)' <=> Passed(j, t) \/ t = step
      /\ \A i \in Jobs \ {j} : pc'[i] = pc[i]
      /\ \A i \in Jobs \ {j} : \A t \in {"guard", "load", "credit", "debit"} :
           Passed(i, t)' <=> Passed(i, t)
  BY <1>1, Advanced
<1>3. \A i \in Jobs : \A t \in {"load", "credit", "debit"} : Passed(i, t)' <=> Passed(i, t)
  BY <1>2
<1>4. holds' \in [Rows -> Jobs \cup {Nobody}]
  BY <1>1 DEF TypeOK, Take
<1>5. TypeOK'
  BY <1>1, <1>2, <1>4 DEF TypeOK
<1>6. GuardIsHeld'
  <2> SUFFICES ASSUME NEW i \in Jobs, Passed(i, "guard")' PROVE holds'[Guard[i]] = i
    BY DEF GuardIsHeld
  <2>1. Guard[i] \in Rows /\ Nobody # i
    BY WalletAssumption
  <2>2. CASE i = j /\ step = "guard"
    BY <1>1, <2>1, <2>2 DEF Take, TypeOK
  <2>3. CASE Passed(i, "guard")
    <3>1. holds[Guard[i]] = i
      BY <2>3 DEF Inv, GuardIsHeld
    <3> QED
      BY <1>1, <2>1, <3>1 DEF Free, Take, TypeOK
  <2> QED
    BY <1>2, <2>2, <2>3
<1>7. AddedIsOwn'
  BY <1>3 DEF Inv, AddedIsOwn
<1>8. SoughtIsAllowed'
  <2> SUFFICES ASSUME NEW i \in Jobs, sought[i]
               PROVE  \/ AtStep(i, "credit")' /\ ledger[CreditKey[i]] = NoRow
                      \/ /\ AtStep(i, "debit")'
                         /\ ledger[DebitKey[i]] = NoRow
                         /\ object[i] >= Amount[i]
    BY DEF SoughtIsAllowed
  <2>1. i # j
    BY DEF Inv, SoughtIsAllowed, AtStep
  <2> QED
    BY <1>2, <2>1 DEF Inv, SoughtIsAllowed, AtStep, Step, Open
<1>9. ReadIsCurrent'
  BY <1>3 DEF Inv, ReadIsCurrent, Loaded, Passed, Flushed
<1> QED
  BY <1>2, <1>5, <1>6, <1>7, <1>8, <1>9
     DEF Inv, NoDebt, NoKeyWrittenTwice, ExactUnlessOvertaken

\* a key of a transaction is one of two
LEMMA KeysDiffer ==
    ASSUME NEW i \in Jobs, NEW j \in Jobs
    PROVE  CreditKey[i] # DebitKey[j]
BY KeysAssumption

\* a transaction that has flushed nothing adds nothing
LEMMA NothingFlushed ==
    ASSUME Inv, NEW j \in Jobs, ~Passed(j, "credit"), ~Passed(j, "debit")
    PROVE  Flushed(j) = 0
<1>1. CreditKey[j] \in Keys /\ DebitKey[j] \in Keys
  BY WalletAssumption
<1>2. added[j][CreditKey[j]] = NoRow /\ added[j][DebitKey[j]] = NoRow
  BY <1>1 DEF Inv, AddedIsOwn
<1> QED
  BY <1>2 DEF Flushed, NoRow

\* what was flushed adds up
LEMMA FlushedIsInt ==
    ASSUME TypeOK, NEW j \in Jobs
    PROVE  Flushed(j) \in Int
<1>1. CreditKey[j] \in Keys /\ DebitKey[j] \in Keys
  BY WalletAssumption
<1>2. added[j][CreditKey[j]] \in Entry /\ added[j][DebitKey[j]] \in Entry
  BY <1>1 DEF TypeOK
<1>3. \A entry \in Entry : entry.amount \in Int
  <2>1. \A amount \in Amounts : amount \in Int
    BY WalletAssumption DEF Amounts
  <2> QED
    BY <2>1 DEF Entry, NoRow
<1>4. added[j][CreditKey[j]].amount \in Int /\ added[j][DebitKey[j]].amount \in Int
  BY <1>2, <1>3
<1> QED
  BY <1>4 DEF Flushed

\* the user is read: from now on the object follows the committed balance
LEMMA LoadStep ==
    ASSUME Inv, NEW j \in Jobs, LoadUser(j)
    PROVE  Inv'
<1> USE DEF committed
<1>1. TypeOK /\ WithinProgram /\ AtStep(j, "load") /\ Advance(j) /\ result' = result
  BY DEF Inv, LoadUser
<1>2. /\ pc' \in [Jobs -> 0..5]
      /\ WithinProgram'
      /\ \A t \in {"guard", "load", "credit", "debit"} :
           Passed(j, t)' <=> Passed(j, t) \/ t = "load"
      /\ \A i \in Jobs \ {j} : pc'[i] = pc[i]
      /\ \A i \in Jobs \ {j} : \A t \in {"guard", "load", "credit", "debit"} :
           Passed(i, t)' <=> Passed(i, t)
  BY <1>1, Advanced
<1>3. /\ UNCHANGED <<committed, holds, result, sought, added>>
      /\ object' = [object EXCEPT ![j] = balance[Holder[j]]]
      /\ Holder[j] \in Users
  BY WalletAssumption DEF LoadUser
<1>4. /\ object'[j] = balance[Holder[j]]
      /\ \A i \in Jobs \ {j} : object'[i] = object[i]
  BY <1>1, <1>3 DEF TypeOK
<1>5. TypeOK'
  BY <1>1, <1>2, <1>3 DEF TypeOK
<1>6. GuardIsHeld' /\ AddedIsOwn'
  BY <1>2, <1>3 DEF Inv, GuardIsHeld, AddedIsOwn
<1>7. NoDebt'
  BY <1>3, <1>4 DEF Inv, NoDebt
<1>8. SoughtIsAllowed'
  <2> SUFFICES ASSUME NEW i \in Jobs, sought[i]
               PROVE  \/ AtStep(i, "credit")' /\ ledger[CreditKey[i]] = NoRow
                      \/ /\ AtStep(i, "debit")'
                         /\ ledger[DebitKey[i]] = NoRow
                         /\ object'[i] >= Amount[i]
    BY <1>3 DEF SoughtIsAllowed
  <2>1. i # j
    BY <1>1 DEF Inv, SoughtIsAllowed, AtStep
  <2> QED
    BY <1>2, <1>3, <1>4, <2>1 DEF Inv, SoughtIsAllowed, AtStep, Step, Open
<1>9. ReadIsCurrent'
  <2> SUFFICES ASSUME NEW i \in Jobs, Loaded(i)', Holder[i] \notin overtaken
               PROVE  object'[i] = balance[Holder[i]] + Flushed(i)
    BY <1>3 DEF ReadIsCurrent, Flushed
  <2>1. CASE i = j
    <3>1. Flushed(j) = 0
      BY <1>1, StepsInOrder, NothingFlushed
    <3>2. balance[Holder[j]] \in Int
      BY <1>1, <1>3 DEF TypeOK
    <3> QED
      BY <1>4, <2>1, <3>1, <3>2
  <2>2. CASE i # j
    <3>1. Loaded(i)
      BY <1>2, <2>2 DEF Loaded
    <3> QED
      BY <1>4, <2>2, <3>1 DEF Inv, ReadIsCurrent
  <2> QED
    BY <2>1, <2>2
<1> QED
  BY <1>2, <1>3, <1>5, <1>6, <1>7, <1>8, <1>9
     DEF Inv, NoKeyWrittenTwice, ExactUnlessOvertaken

\* the kinds of a change, with the key and the amount of each
ChangeOf(j, step, key, amount) ==
    \/ step = "credit" /\ key = CreditKey[j] /\ amount = Amount[j]
    \/ step = "debit" /\ key = DebitKey[j] /\ amount = -Amount[j]

\* a change that is found made already
LEMMA RepeatedStep ==
    ASSUME Inv, NEW j \in Jobs, NEW step \in {"credit", "debit"}, NEW key,
           AtStep(j, step), Repeated(j, key), UNCHANGED <<committed, result>>
    PROVE  Inv'
<1> USE DEF committed
<1>1. /\ TypeOK /\ WithinProgram /\ Advance(j) /\ result' = result /\ ~sought[j]
      /\ UNCHANGED <<committed, holds, object, added, sought>>
  BY DEF Inv, Repeated
<1>2. /\ pc' \in [Jobs -> 0..5]
      /\ WithinProgram'
      /\ \A t \in {"guard", "load", "credit", "debit"} :
           Passed(j, t)' <=> Passed(j, t) \/ t = step
      /\ \A i \in Jobs \ {j} : pc'[i] = pc[i]
      /\ \A i \in Jobs \ {j} : \A t \in {"guard", "load", "credit", "debit"} :
           Passed(i, t)' <=> Passed(i, t)
  BY <1>1, Advanced
<1>3. TypeOK'
  BY <1>1, <1>2 DEF TypeOK
<1>4. GuardIsHeld' /\ AddedIsOwn'
  BY <1>1, <1>2 DEF Inv, GuardIsHeld, AddedIsOwn
<1>5. SoughtIsAllowed'
  BY <1>1, <1>2 DEF Inv, SoughtIsAllowed, AtStep, Step, Open
<1>6. ReadIsCurrent'
  BY <1>1, <1>2 DEF Inv, ReadIsCurrent, Loaded, Passed, Flushed
<1> QED
  BY <1>1, <1>2, <1>3, <1>4, <1>5, <1>6
     DEF Inv, NoDebt, NoKeyWrittenTwice, ExactUnlessOvertaken

\* the key is looked for, and the balance compared
LEMMA SoughtStep ==
    ASSUME Inv, NEW j \in Jobs, NEW step \in {"credit", "debit"}, NEW key, NEW amount,
           ChangeOf(j, step, key, amount), AtStep(j, step), Sought(j, key, amount),
           UNCHANGED <<committed, result>>
    PROVE  Inv'
<1> USE DEF committed
<1>1. /\ TypeOK
      /\ UNCHANGED <<committed, result, holds, pc, object, added>>
      /\ sought' = [sought EXCEPT ![j] = TRUE]
      /\ ledger[key] = NoRow
      /\ object[j] + amount >= 0
  BY DEF Inv, Sought
<1>2. TypeOK'
  BY <1>1 DEF TypeOK
<1>3. SoughtIsAllowed'
  <2> SUFFICES ASSUME NEW i \in Jobs, sought'[i]
               PROVE  \/ AtStep(i, "credit") /\ ledger[CreditKey[i]] = NoRow
                      \/ /\ AtStep(i, "debit")
                         /\ ledger[DebitKey[i]] = NoRow
                         /\ object[i] >= Amount[i]
    BY <1>1 DEF SoughtIsAllowed, AtStep, Step, Open
  <2>1. CASE i = j
    <3>1. object[j] \in Int /\ Amount[j] \in Nat
      BY <1>1, WalletAssumption DEF TypeOK
    <3>2. step = "debit" => object[j] >= Amount[j]
      BY <1>1, <3>1 DEF ChangeOf
    <3> QED
      BY <1>1, <2>1, <3>2 DEF ChangeOf
  <2>2. CASE i # j
    BY <1>1, <2>2 DEF Inv, SoughtIsAllowed, TypeOK
  <2> QED
    BY <2>1, <2>2
<1> QED
  BY <1>1, <1>2, <1>3
     DEF Inv, WithinProgram, Open, GuardIsHeld, Passed, NoDebt, AddedIsOwn,
         NoKeyWrittenTwice, ReadIsCurrent, Loaded, Flushed, ExactUnlessOvertaken

\* Two transactions with one key have one guard, which one of them holds: the other has not
\* come to its change.
LEMMA OneAtAKey ==
    ASSUME Inv, NEW i \in Jobs, NEW j \in Jobs \ {i}, NEW key,
           \/ key = CreditKey[i] /\ Passed(i, "guard")
           \/ key = DebitKey[i] /\ Passed(i, "guard"),
           \/ key = CreditKey[j] /\ Passed(j, "guard")
           \/ key = DebitKey[j] /\ Passed(j, "guard")
    PROVE  FALSE
<1>1. Guard[i] = Guard[j]
  BY KeysAssumption
<1>2. holds[Guard[i]] = i /\ holds[Guard[j]] = j
  BY DEF Inv, GuardIsHeld
<1> QED
  BY <1>1, <1>2

\* what a transaction flushes moves the balance it sees by as much
LEMMA FlushedGrows ==
    ASSUME Inv, NEW j \in Jobs, NEW step \in {"credit", "debit"}, NEW key, NEW amount,
           ChangeOf(j, step, key, amount), AtStep(j, step), Changed(j, key, amount)
    PROVE  /\ object'[j] = object[j] + amount
           /\ Flushed(j)' = Flushed(j) + amount
           /\ amount \in Int /\ Flushed(j) \in Int /\ object[j] \in Int
           /\ \A i \in Jobs \ {j} : object'[i] = object[i] /\ Flushed(i)' = Flushed(i)
<1> DEFINE row == [user |-> Holder[j], amount |-> amount]
           c == added[j][CreditKey[j]].amount
           d == added[j][DebitKey[j]].amount
<1>1. TypeOK /\ WithinProgram
  BY DEF Inv
<1>2. /\ CreditKey[j] \in Keys /\ DebitKey[j] \in Keys /\ CreditKey[j] # DebitKey[j]
      /\ key \in Keys /\ amount \in Int /\ row.amount = amount
  BY WalletAssumption, KeysDiffer DEF ChangeOf
<1>3. /\ object' = [object EXCEPT ![j] = @ + amount]
      /\ added' = [added EXCEPT ![j][key] = row]
  BY DEF Changed
<1> HIDE DEF row
<1>4. /\ added'[j][key] = row
      /\ \A other \in Keys \ {key} : added'[j][other] = added[j][other]
      /\ \A i \in Jobs \ {j} : added'[i] = added[i]
  BY <1>1, <1>2, <1>3 DEF TypeOK
<1>5. object'[j] = object[j] + amount /\ \A i \in Jobs \ {j} : object'[i] = object[i]
  BY <1>1, <1>3 DEF TypeOK
<1>6. c \in Int /\ d \in Int
  <2>1. added[j][CreditKey[j]] \in Entry /\ added[j][DebitKey[j]] \in Entry
    BY <1>1, <1>2 DEF TypeOK
  <2> QED
    BY <2>1, WalletAssumption DEF Entry, NoRow, Amounts
<1>7. added[j][key].amount = 0
  <2>1. ~Passed(j, step)
    BY <1>1, StepsInOrder
  <2> QED
    BY <1>2, <2>1, KeysDiffer DEF Inv, AddedIsOwn, ChangeOf, NoRow
<1>8. Flushed(j) = c + d /\ Flushed(j)' = added'[j][CreditKey[j]].amount + added'[j][DebitKey[j]].amount
  BY DEF Flushed
<1>9. Flushed(j)' = Flushed(j) + amount
  <2>1. CASE key = CreditKey[j]
    <3>1. c = 0 /\ added'[j][CreditKey[j]].amount = amount /\ added'[j][DebitKey[j]].amount = d
      BY <1>2, <1>4, <1>7, <2>1
    <3> HIDE DEF c, d
    <3> QED
      BY <1>2, <1>6, <1>8, <3>1
  <2>2. CASE key = DebitKey[j]
    <3>1. d = 0 /\ added'[j][DebitKey[j]].amount = amount /\ added'[j][CreditKey[j]].amount = c
      BY <1>2, <1>4, <1>7, <2>2
    <3> HIDE DEF c, d
    <3> QED
      BY <1>2, <1>6, <1>8, <3>1
  <2> QED
    BY <2>1, <2>2 DEF ChangeOf
<1>10. Flushed(j) \in Int /\ object[j] \in Int
  BY <1>1, FlushedIsInt DEF TypeOK
<1>11. \A i \in Jobs \ {j} : Flushed(i)' = Flushed(i)
  BY <1>4 DEF Flushed
<1> QED
  BY <1>2, <1>5, <1>9, <1>10, <1>11

\* the row is flushed, with the balance
LEMMA ChangedStep ==
    ASSUME Inv, NEW j \in Jobs, NEW step \in {"credit", "debit"}, NEW key, NEW amount,
           ChangeOf(j, step, key, amount), AtStep(j, step), Changed(j, key, amount),
           UNCHANGED <<committed, result>>
    PROVE  Inv'
<1> USE DEF committed
<1> DEFINE row == [user |-> Holder[j], amount |-> amount]
<1>1. /\ TypeOK /\ WithinProgram /\ Advance(j) /\ result' = result
      /\ UNCHANGED committed
      /\ sought[j]
      /\ Free(Holder[j], j)
      /\ Take(Holder[j], j)
      /\ object' = [object EXCEPT ![j] = @ + amount]
      /\ added' = [added EXCEPT ![j][key] = row]
      /\ sought' = [sought EXCEPT ![j] = FALSE]
  BY DEF Inv, Changed
<1>2. /\ pc' \in [Jobs -> 0..5]
      /\ WithinProgram'
      /\ \A t \in {"guard", "load", "credit", "debit"} :
           Passed(j, t)' <=> Passed(j, t) \/ t = step
      /\ \A i \in Jobs \ {j} : pc'[i] = pc[i]
      /\ \A i \in Jobs \ {j} : \A t \in {"guard", "load", "credit", "debit"} :
           Passed(i, t)' <=> Passed(i, t)
  BY <1>1, Advanced
<1>3. /\ Holder[j] \in Users
      /\ Holder[j] \in Rows
      /\ Amount[j] \in Nat
      /\ amount \in Int
      /\ key \in Keys
      /\ row \in Entry
      /\ row # NoRow
  BY WalletAssumption DEF ChangeOf, Rows, Entry, Amounts, NoRow
<1>4. /\ added'[j][key] = row
      /\ \A other \in Keys \ {key} : added'[j][other] = added[j][other]
      /\ \A i \in Jobs \ {j} : added'[i] = added[i]
      /\ added' \in [Jobs -> [Keys -> Entry]]
  BY <1>1, <1>3 DEF TypeOK
<1>5. /\ object'[j] = object[j] + amount
      /\ \A i \in Jobs \ {j} : object'[i] = object[i]
      /\ object' \in [Jobs -> Int]
      /\ object[j] \in Int
  <2>1. object \in [Jobs -> Int] /\ object[j] \in Int
    BY <1>1 DEF TypeOK
  <2>2. object[j] + amount \in Int
    BY <1>3, <2>1
  <2> HIDE DEF row
  <2> QED
    BY <1>1, <2>1, <2>2
<1>6. /\ ~sought'[j]
      /\ \A i \in Jobs \ {j} : sought'[i] = sought[i]
      /\ sought' \in [Jobs -> BOOLEAN]
  BY <1>1 DEF TypeOK
<1>7. /\ step = "credit" => ledger[key] = NoRow
      /\ step = "debit" => ledger[key] = NoRow /\ object[j] >= Amount[j]
  BY <1>1 DEF Inv, SoughtIsAllowed, ChangeOf, AtStep
<1>8. Passed(j, "guard") /\ Passed(j, "load") /\ ~Passed(j, step)
  BY <1>1, StepsInOrder
<1>9. added[j][key] = NoRow
  BY <1>3, <1>8, KeysDiffer DEF Inv, AddedIsOwn, ChangeOf
<1>10. TypeOK'
  <2>1. holds' \in [Rows -> Jobs \cup {Nobody}]
    BY <1>1 DEF TypeOK, Take
  <2> QED
    BY <1>1, <1>2, <1>4, <1>5, <1>6, <2>1 DEF TypeOK
<1>11. GuardIsHeld'
  <2> SUFFICES ASSUME NEW i \in Jobs, Passed(i, "guard")' PROVE holds'[Guard[i]] = i
    BY DEF GuardIsHeld
  <2>1. Guard[i] \in Rows /\ Nobody # i
    BY WalletAssumption
  <2>2. Passed(i, "guard")
    BY <1>2
  <2>3. holds[Guard[i]] = i
    BY <2>2 DEF Inv, GuardIsHeld
  <2> QED
    BY <1>1, <2>1, <2>3 DEF Free, Take, TypeOK
<1>12. NoDebt'
  <2>1. object[j] + amount >= 0
    BY <1>3, <1>5, <1>7 DEF ChangeOf, Inv, NoDebt
  <2> QED
    BY <1>1, <1>5, <2>1 DEF Inv, NoDebt
<1>13. AddedIsOwn'
  <2> SUFFICES ASSUME NEW i \in Jobs, NEW k \in Keys, added'[i][k] # NoRow
               PROVE  \/ k = CreditKey[i] /\ Passed(i, "credit")'
                      \/ k = DebitKey[i] /\ Passed(i, "debit")'
    BY DEF AddedIsOwn
  <2>1. CASE i = j /\ k = key
    BY <1>2, <2>1 DEF ChangeOf
  <2>2. CASE ~(i = j /\ k = key)
    <3>1. added[i][k] # NoRow
      BY <1>4, <2>2
    <3> QED
      BY <1>2, <3>1 DEF Inv, AddedIsOwn
  <2> QED
    BY <2>1, <2>2
<1>14. SoughtIsAllowed'
  BY <1>1, <1>2, <1>5, <1>6 DEF Inv, SoughtIsAllowed, AtStep, Step, Open
<1>15. \A i \in Jobs \ {j} : added[i][key] = NoRow
  <2> SUFFICES ASSUME NEW i \in Jobs \ {j}, added[i][key] # NoRow PROVE FALSE
    OBVIOUS
  <2>1. \/ key = CreditKey[i] /\ Passed(i, "guard")
        \/ key = DebitKey[i] /\ Passed(i, "guard")
    BY <1>1, <1>3, StepsInOrder DEF Inv, AddedIsOwn
  <2>2. \/ key = CreditKey[j] /\ Passed(j, "guard")
        \/ key = DebitKey[j] /\ Passed(j, "guard")
    BY <1>8 DEF ChangeOf
  <2> QED
    BY <2>1, <2>2, OneAtAKey
<1>16. NoKeyWrittenTwice'
  <2> SUFFICES ASSUME NEW i \in Jobs, NEW k \in Keys, added'[i][k] # NoRow
               PROVE  /\ ledger[k] = NoRow
                      /\ \A m \in Jobs \ {i} : added'[m][k] = NoRow
    BY <1>1 DEF NoKeyWrittenTwice
  <2>1. CASE k = key
    <3>1. i = j
      BY <1>4, <1>15, <2>1
    <3> QED
      BY <1>4, <1>7, <1>15, <2>1, <3>1
  <2>2. CASE k # key
    <3>1. \A m \in Jobs : added'[m][k] = added[m][k]
      BY <1>4, <2>2
    <3> QED
      BY <3>1 DEF Inv, NoKeyWrittenTwice
  <2> QED
    BY <2>1, <2>2
<1>17. ReadIsCurrent'
  <2> SUFFICES ASSUME NEW i \in Jobs, Loaded(i)', Holder[i] \notin overtaken
               PROVE  object'[i] = balance[Holder[i]] + Flushed(i)'
    BY <1>1 DEF ReadIsCurrent
  <2>1. CASE i = j
    <3>1. object[j] = balance[Holder[j]] + Flushed(j)
      BY <1>8, <2>1 DEF Inv, ReadIsCurrent, Loaded, Passed
    <3>2. balance[Holder[j]] \in Int
      BY <1>1, <1>3 DEF TypeOK
    <3>3. object'[j] = object[j] + amount /\ Flushed(j)' = Flushed(j) + amount
          /\ amount \in Int /\ Flushed(j) \in Int
      BY FlushedGrows
    <3> QED
      BY <2>1, <3>1, <3>2, <3>3
  <2>2. CASE i # j
    <3>1. Loaded(i)
      BY <1>2, <2>2 DEF Loaded
    <3>2. object'[i] = object[i] /\ Flushed(i)' = Flushed(i)
      BY <2>2, FlushedGrows
    <3> QED
      BY <2>2, <3>1, <3>2 DEF Inv, ReadIsCurrent
  <2> QED
    BY <2>1, <2>2
<1> QED
  BY <1>1, <1>2, <1>10, <1>11, <1>12, <1>13, <1>14, <1>16, <1>17
     DEF Inv, ExactUnlessOvertaken

\* the ends of a transaction
Outcomes == {"done", "short", "rolled back"}

\* a transaction that has ended is reset, and the others have not moved
LEMMA Ended ==
    ASSUME Inv, NEW j \in Jobs, NEW outcome \in Outcomes,
           End(j, outcome)
    PROVE  /\ result' \in [Jobs -> {"open", "done", "short", "rolled back"}]
           /\ holds' \in [Rows -> Jobs \cup {Nobody}]
           /\ pc' \in [Jobs -> 0..5]
           /\ object' \in [Jobs -> Int]
           /\ sought' \in [Jobs -> BOOLEAN]
           /\ added' \in [Jobs -> [Keys -> Entry]]
           /\ WithinProgram'
           /\ GuardIsHeld'
           /\ AddedIsOwn'
           /\ result'[j] = outcome /\ object'[j] = 0 /\ ~sought'[j]
           /\ \A key \in Keys : added'[j][key] = NoRow
           /\ \A step \in {"guard", "load", "credit", "debit"} : ~Passed(j, step)'
           /\ \A i \in Jobs \ {j} : /\ result'[i] = result[i]
                                   /\ pc'[i] = pc[i]
                                   /\ object'[i] = object[i]
                                   /\ sought'[i] = sought[i]
                                   /\ added'[i] = added[i]
<1>1. TypeOK
  BY DEF Inv
<1>2. /\ result' \in [Jobs -> {"open", "done", "short", "rolled back"}]
      /\ result'[j] = outcome
      /\ \A i \in Jobs \ {j} : result'[i] = result[i]
  BY <1>1 DEF End, TypeOK, Outcomes
<1>3. pc' \in [Jobs -> 0..5] /\ pc'[j] = 0 /\ \A i \in Jobs \ {j} : pc'[i] = pc[i]
  <2>1. pc' = [pc EXCEPT ![j] = 0]
    BY DEF End
  <2>2. pc \in [Jobs -> 0..5]
    BY <1>1 DEF TypeOK
  <2>3. pc' \in [Jobs -> 0..5]
    BY <2>1, <2>2
  <2>4. \A i \in Jobs : pc'[i] = IF i = j THEN 0 ELSE pc[i]
    BY <2>1, <2>2
  <2> QED
    BY <2>3, <2>4
<1>4. /\ object' \in [Jobs -> Int]
      /\ object'[j] = 0
      /\ \A i \in Jobs \ {j} : object'[i] = object[i]
  <2>1. object' = [object EXCEPT ![j] = 0]
    BY DEF End
  <2>2. object \in [Jobs -> Int]
    BY <1>1 DEF TypeOK
  <2>3. object' \in [Jobs -> Int]
    BY <2>1, <2>2
  <2>4. \A i \in Jobs : object'[i] = IF i = j THEN 0 ELSE object[i]
    BY <2>1, <2>2
  <2> QED
    BY <2>3, <2>4
<1>5. sought' \in [Jobs -> BOOLEAN] /\ ~sought'[j] /\ \A i \in Jobs \ {j} : sought'[i] = sought[i]
  BY <1>1 DEF End, TypeOK
<1>6. /\ added' \in [Jobs -> [Keys -> Entry]]
      /\ added'[j] = [key \in Keys |-> NoRow]
      /\ \A i \in Jobs \ {j} : added'[i] = added[i]
  <2>1. NoRow \in Entry
    BY DEF Entry
  <2> QED
    BY <1>1, <2>1 DEF End, TypeOK
<1>7. /\ holds' \in [Rows -> Jobs \cup {Nobody}]
      /\ \A row \in Rows : holds[row] # j => holds'[row] = holds[row]
  BY <1>1 DEF End, TypeOK
<1>8. \A step \in {"guard", "load", "credit", "debit"} : ~Passed(j, step)'
  <2>1. \A n \in 1..pc'[j] : FALSE
    BY <1>3
  <2> QED
    BY <2>1 DEF Passed
<1>9. \A i \in Jobs \ {j} : \A step \in {"guard", "load", "credit", "debit"} :
        Passed(i, step)' <=> Passed(i, step)
  BY <1>3 DEF Passed
<1>10. WithinProgram'
  <2> SUFFICES ASSUME NEW i \in Jobs
               PROVE  /\ pc'[i] <= Len(Program[Kind[i]])
                      /\ result'[i] # "open" => pc'[i] = 0
    BY DEF WithinProgram, Open
  <2>1. CASE i = j
    <3>1. Len(Program[Kind[j]]) \in 0..5
      BY ProgramsWellFormed, WalletAssumption DEF WellFormed
    <3>2. pc'[i] = 0
      BY <1>3, <2>1
    <3>3. 0 <= Len(Program[Kind[j]])
      BY <3>1
    <3> QED
      BY <2>1, <3>2, <3>3
  <2>2. CASE i # j
    BY <1>2, <1>3, <2>2 DEF Inv, WithinProgram, Open
  <2> QED
    BY <2>1, <2>2
<1>11. GuardIsHeld'
  <2> SUFFICES ASSUME NEW i \in Jobs, Passed(i, "guard")' PROVE holds'[Guard[i]] = i
    BY DEF GuardIsHeld
  <2>1. i # j
    BY <1>8
  <2>2. holds[Guard[i]] = i /\ Guard[i] \in Rows
    BY <1>9, <2>1, WalletAssumption DEF Inv, GuardIsHeld
  <2> QED
    BY <1>7, <2>1, <2>2
<1>12. AddedIsOwn'
  <2> SUFFICES ASSUME NEW i \in Jobs, NEW key \in Keys, added'[i][key] # NoRow
               PROVE  \/ key = CreditKey[i] /\ Passed(i, "credit")'
                      \/ key = DebitKey[i] /\ Passed(i, "debit")'
    BY DEF AddedIsOwn
  <2>1. i # j
    BY <1>6
  <2>2. added[i][key] # NoRow
    BY <1>6, <2>1
  <2>3. \/ key = CreditKey[i] /\ Passed(i, "credit")
        \/ key = DebitKey[i] /\ Passed(i, "debit")
    BY <2>2 DEF Inv, AddedIsOwn
  <2> QED
    BY <1>9, <2>1, <2>3
<1> QED
  BY <1>2, <1>3, <1>4, <1>5, <1>6, <1>7, <1>8, <1>10, <1>11, <1>12

\* a transaction ends and leaves nothing behind
LEMMA EndWithoutTrace ==
    ASSUME Inv, NEW j \in Jobs, NEW outcome \in Outcomes,
           End(j, outcome), UNCHANGED committed
    PROVE  Inv'
<1>0. /\ balance' = balance /\ ledger' = ledger /\ total' = total /\ past' = past
      /\ overtaken' = overtaken
  BY DEF committed
<1>1. /\ TypeOK'
      /\ WithinProgram'
      /\ GuardIsHeld'
      /\ AddedIsOwn'
  BY <1>0, Ended DEF Inv, TypeOK
<1>2. /\ object'[j] = 0 /\ ~sought'[j] /\ ~Passed(j, "load")'
      /\ \A key \in Keys : added'[j][key] = NoRow
      /\ \A i \in Jobs \ {j} : /\ result'[i] = result[i]
                              /\ pc'[i] = pc[i]
                              /\ object'[i] = object[i]
                              /\ sought'[i] = sought[i]
                              /\ added'[i] = added[i]
  BY Ended
<1>3. NoDebt'
  <2>1. \A w \in Users : balance'[w] >= 0
    BY <1>0 DEF Inv, NoDebt
  <2>2. \A i \in Jobs : object[i] >= 0
    BY DEF Inv, NoDebt
  <2>3. \A i \in Jobs : object'[i] >= 0
    BY <1>2, <2>2
  <2> QED
    BY <2>1, <2>3 DEF NoDebt
<1>4. SoughtIsAllowed'
  <2> SUFFICES ASSUME NEW i \in Jobs, sought'[i]
               PROVE  \/ AtStep(i, "credit")' /\ ledger'[CreditKey[i]] = NoRow
                      \/ /\ AtStep(i, "debit")'
                         /\ ledger'[DebitKey[i]] = NoRow
                         /\ object'[i] >= Amount[i]
    BY DEF SoughtIsAllowed
  <2>1. i # j /\ sought[i]
    BY <1>2
  <2>2. \/ AtStep(i, "credit") /\ ledger[CreditKey[i]] = NoRow
        \/ AtStep(i, "debit") /\ ledger[DebitKey[i]] = NoRow /\ object[i] >= Amount[i]
    BY <2>1 DEF Inv, SoughtIsAllowed
  <2> QED
    BY <1>0, <1>2, <2>1, <2>2 DEF AtStep, Step, Open
<1>5. NoKeyWrittenTwice'
  <2> SUFFICES ASSUME NEW i \in Jobs, NEW key \in Keys, added'[i][key] # NoRow
               PROVE  /\ ledger'[key] = NoRow
                      /\ \A m \in Jobs \ {i} : added'[m][key] = NoRow
    BY DEF NoKeyWrittenTwice
  <2>1. i # j /\ added[i][key] # NoRow
    BY <1>2
  <2>2. ledger[key] = NoRow /\ \A m \in Jobs \ {i} : added[m][key] = NoRow
    BY <2>1 DEF Inv, NoKeyWrittenTwice
  <2> QED
    BY <1>0, <1>2, <2>2
<1>6. ReadIsCurrent'
  <2> SUFFICES ASSUME NEW i \in Jobs, Loaded(i)', Holder[i] \notin overtaken'
               PROVE  object'[i] = balance'[Holder[i]]
                        + (added'[i][CreditKey[i]].amount + added'[i][DebitKey[i]].amount)
    BY DEF ReadIsCurrent, Flushed
  <2>1. i # j
    BY <1>2 DEF Loaded, Passed
  <2>2. Loaded(i) /\ Holder[i] \notin overtaken
    BY <1>0, <1>2, <2>1 DEF Loaded
  <2>3. object[i] = balance[Holder[i]]
                      + (added[i][CreditKey[i]].amount + added[i][DebitKey[i]].amount)
    BY <2>2 DEF Inv, ReadIsCurrent, Flushed
  <2> QED
    BY <1>0, <1>2, <2>1, <2>3
<1> QED
  BY <1>0, <1>1, <1>3, <1>4, <1>5, <1>6 DEF Inv, ExactUnlessOvertaken

\* a transaction commits what it has flushed: whoever has read the balance is overtaken, and
\* whoever looked for one of its keys would hold its guard
LEMMA EndWithTrace ==
    ASSUME Inv, NEW j \in Jobs, NEW outcome \in Outcomes,
           End(j, outcome), Publish(j), Wrote(j)
    PROVE  Inv'
<1> DEFINE u == Holder[j]
<1>1. TypeOK /\ u \in Users /\ WithinProgram
  BY WalletAssumption DEF Inv
<1>2. /\ balance' = [balance EXCEPT ![u] = object[j]]
      /\ total' = [total EXCEPT ![u] = @ + Flushed(j)]
      /\ past' = [past EXCEPT ![u] = @ \cup {object[j]}]
      /\ ledger' = [key \in Keys |->
                      IF added[j][key] # NoRow THEN added[j][key] ELSE ledger[key]]
      /\ overtaken' = IF \E i \in Jobs \ {j} : Open(i) /\ Loaded(i) /\ Holder[i] = u
                      THEN overtaken \cup {u} ELSE overtaken
  BY DEF Publish
<1>3. /\ balance'[u] = object[j]
      /\ total'[u] = total[u] + Flushed(j)
      /\ \A w \in Users \ {u} : balance'[w] = balance[w] /\ total'[w] = total[w]
      /\ \A key \in Keys : ledger'[key] = IF added[j][key] # NoRow THEN added[j][key]
                                        ELSE ledger[key]
  BY <1>1, <1>2 DEF TypeOK
<1>4. /\ result' \in [Jobs -> {"open", "done", "short", "rolled back"}]
      /\ holds' \in [Rows -> Jobs \cup {Nobody}]
      /\ pc' \in [Jobs -> 0..5]
      /\ object' \in [Jobs -> Int]
      /\ sought' \in [Jobs -> BOOLEAN]
      /\ added' \in [Jobs -> [Keys -> Entry]]
      /\ WithinProgram' /\ GuardIsHeld' /\ AddedIsOwn'
  BY Ended
<1>5. /\ object'[j] = 0 /\ ~sought'[j] /\ ~Passed(j, "load")'
      /\ \A key \in Keys : added'[j][key] = NoRow
      /\ \A i \in Jobs \ {j} : /\ result'[i] = result[i]
                              /\ pc'[i] = pc[i]
                              /\ object'[i] = object[i]
                              /\ sought'[i] = sought[i]
                              /\ added'[i] = added[i]
  BY Ended
<1>6. \A key \in Keys : added[j][key] # NoRow =>
        /\ Passed(j, "guard") /\ Passed(j, "load")
        /\ key = CreditKey[j] \/ key = DebitKey[j]
  BY <1>1, StepsInOrder DEF Inv, AddedIsOwn
<1>7. Loaded(j)
  BY <1>6 DEF Wrote, Loaded, Passed
<1>8. Flushed(j) \in Int
  BY <1>1, FlushedIsInt
<1>9. TypeOK'
  <2>1. balance' \in [Users -> Int]
    BY <1>1, <1>2 DEF TypeOK
  <2>2. total' \in [Users -> Int]
    <3>0. total[u] \in Int
      BY <1>1 DEF TypeOK
    <3>1. total[u] + Flushed(j) \in Int
      BY <1>8, <3>0
    <3> QED
      BY <1>1, <1>2, <3>1 DEF TypeOK
  <2>3. ledger' \in [Keys -> Entry]
    BY <1>1, <1>2 DEF TypeOK
  <2>4. overtaken' \subseteq Users
    BY <1>1, <1>2 DEF TypeOK
  <2>5. past' \in [Users -> SUBSET Nat]
    <3>1. object[j] \in Nat
      <4>1. object[j] \in Int
        BY <1>1 DEF TypeOK
      <4>2. object[j] >= 0
        BY DEF Inv, NoDebt
      <4> QED
        BY <4>1, <4>2
    <3> QED
      BY <1>1, <1>2, <3>1 DEF TypeOK
  <2> QED
    BY <1>4, <2>1, <2>2, <2>3, <2>4, <2>5 DEF TypeOK
<1>10. NoDebt'
  <2>1. \A w \in Users : balance[w] >= 0
    BY DEF Inv, NoDebt
  <2>2. \A i \in Jobs : object[i] >= 0
    BY DEF Inv, NoDebt
  <2>3. \A w \in Users : balance'[w] >= 0
    BY <1>3, <2>1, <2>2
  <2>4. \A i \in Jobs : object'[i] >= 0
    BY <1>5, <2>2
  <2> QED
    BY <2>3, <2>4 DEF NoDebt
<1>11. SoughtIsAllowed'
  <2> SUFFICES ASSUME NEW i \in Jobs, sought'[i]
               PROVE  \/ AtStep(i, "credit")' /\ ledger'[CreditKey[i]] = NoRow
                      \/ /\ AtStep(i, "debit")'
                         /\ ledger'[DebitKey[i]] = NoRow
                         /\ object'[i] >= Amount[i]
    BY DEF SoughtIsAllowed
  <2>1. i # j /\ sought[i]
    BY <1>5
  <2>2. CreditKey[i] \in Keys /\ DebitKey[i] \in Keys
    BY WalletAssumption
  <2>3. \/ AtStep(i, "credit") /\ ledger[CreditKey[i]] = NoRow
        \/ AtStep(i, "debit") /\ ledger[DebitKey[i]] = NoRow /\ object[i] >= Amount[i]
    BY <2>1 DEF Inv, SoughtIsAllowed
  <2>4. Passed(i, "guard")
    BY <1>1, <2>3, StepsInOrder
  <2>5. added[j][CreditKey[i]] = NoRow /\ added[j][DebitKey[i]] = NoRow
    BY <1>6, <2>1, <2>2, <2>4, OneAtAKey
  <2> QED
    BY <1>3, <1>5, <2>1, <2>2, <2>3, <2>5 DEF AtStep, Step, Open
<1>12. NoKeyWrittenTwice'
  <2> SUFFICES ASSUME NEW i \in Jobs, NEW key \in Keys, added'[i][key] # NoRow
               PROVE  /\ ledger'[key] = NoRow
                      /\ \A m \in Jobs \ {i} : added'[m][key] = NoRow
    BY DEF NoKeyWrittenTwice
  <2>1. i # j /\ added[i][key] # NoRow
    BY <1>5
  <2>2. ledger[key] = NoRow /\ \A m \in Jobs \ {i} : added[m][key] = NoRow
    BY <2>1 DEF Inv, NoKeyWrittenTwice
  <2> QED
    BY <1>3, <1>5, <2>1, <2>2
<1>13. ReadIsCurrent'
  <2> SUFFICES ASSUME NEW i \in Jobs, Loaded(i)', Holder[i] \notin overtaken'
               PROVE  object'[i] = balance'[Holder[i]]
                        + (added'[i][CreditKey[i]].amount + added'[i][DebitKey[i]].amount)
    BY DEF ReadIsCurrent, Flushed
  <2>1. i # j
    BY <1>5 DEF Loaded, Passed
  <2>2. Loaded(i) /\ Holder[i] \notin overtaken /\ Holder[i] \in Users
    BY <1>2, <1>5, <2>1, WalletAssumption DEF Loaded
  <2>3. Open(i)
    <3>0. PICK n \in 1..pc[i] : TRUE
      BY <2>2 DEF Loaded
    <3>1. pc[i] # 0
      BY <3>0
    <3> QED
      BY <1>1, <3>1 DEF WithinProgram
  <2>4. Holder[i] # u
    BY <1>2, <2>1, <2>2, <2>3
  <2>5. object[i] = balance[Holder[i]]
                      + (added[i][CreditKey[i]].amount + added[i][DebitKey[i]].amount)
    BY <2>2 DEF Inv, ReadIsCurrent, Flushed
  <2>6. object'[i] = object[i] /\ balance'[Holder[i]] = balance[Holder[i]]
        /\ added'[i] = added[i]
    BY <1>3, <1>5, <2>1, <2>2, <2>4
  <2> QED
    BY <2>5, <2>6
<1>14. ExactUnlessOvertaken'
  <2> SUFFICES ASSUME NEW w \in Users, w \notin overtaken' PROVE balance'[w] = total'[w]
    BY DEF ExactUnlessOvertaken
  <2>1. w \notin overtaken
    BY <1>2
  <2>2. CASE w = u
    <3>1. object[j] = balance[u] + Flushed(j) /\ balance[u] = total[u]
      BY <1>7, <2>1, <2>2 DEF Inv, ReadIsCurrent, ExactUnlessOvertaken
    <3> QED
      BY <1>3, <2>2, <3>1
  <2>3. CASE w # u
    BY <1>3, <2>1, <2>3 DEF Inv, ExactUnlessOvertaken
  <2> QED
    BY <2>2, <2>3
<1> QED
  BY <1>4, <1>9, <1>10, <1>11, <1>12, <1>13, <1>14 DEF Inv

\* a transaction ends, with what it has flushed or without
LEMMA EndStep ==
    ASSUME Inv, NEW j \in Jobs, Commit(j) \/ Short(j) \/ Return(j) \/ Rollback(j)
    PROVE  Inv'
<1>1. CASE Commit(j)
  BY <1>1, EndWithTrace, EndWithoutTrace DEF Commit, Publish, Outcomes
<1>2. CASE Short(j)
  BY <1>2, EndWithTrace, EndWithoutTrace DEF Short, Publish, Outcomes
<1>3. CASE Return(j) \/ Rollback(j)
  BY <1>3, EndWithoutTrace DEF Return, Rollback, Outcomes
<1> QED
  BY <1>1, <1>2, <1>3

\* the wallets are empty at first, and nothing is open
LEMMA InitInv == Init => Inv
<1> SUFFICES ASSUME Init PROVE Inv
  OBVIOUS
<1>1. \A j \in Jobs : \A step : ~Passed(j, step)
  BY DEF Init, Passed
<1>2. \A j \in Jobs : pc[j] <= Len(Program[Kind[j]])
  <2> SUFFICES ASSUME NEW j \in Jobs PROVE pc[j] <= Len(Program[Kind[j]])
    OBVIOUS
  <2>1. Len(Program[Kind[j]]) \in 0..5
    BY ProgramsWellFormed, WalletAssumption DEF WellFormed
  <2> QED
    BY <2>1 DEF Init
<1>3. TypeOK
  BY DEF Init, TypeOK, Entry
<1>4. WithinProgram /\ GuardIsHeld /\ ReadIsCurrent
  BY <1>1, <1>2 DEF Init, WithinProgram, GuardIsHeld, ReadIsCurrent, Loaded, Passed
<1>5. NoDebt /\ AddedIsOwn /\ SoughtIsAllowed /\ NoKeyWrittenTwice /\ ExactUnlessOvertaken
  BY DEF Init, NoDebt, AddedIsOwn, SoughtIsAllowed, NoKeyWrittenTwice, ExactUnlessOvertaken
<1> QED
  BY <1>3, <1>4, <1>5 DEF Inv

\* every step keeps the invariant
LEMMA NextInv == Inv /\ [Next]_vars => Inv'
<1> SUFFICES ASSUME Inv, [Next]_vars PROVE Inv'
  OBVIOUS
<1>1. CASE UNCHANGED vars
  <2>1. /\ balance' = balance /\ ledger' = ledger /\ total' = total
        /\ past' = past /\ overtaken' = overtaken /\ holds' = holds
        /\ pc' = pc /\ result' = result
        /\ object' = object /\ sought' = sought /\ added' = added
    BY <1>1 DEF vars
  <2>2. TypeOK' /\ WithinProgram' /\ GuardIsHeld'
    BY <2>1 DEF Inv, TypeOK, WithinProgram, Open, GuardIsHeld, Passed
  <2>3. NoDebt' /\ AddedIsOwn'
    BY <2>1 DEF Inv, NoDebt, AddedIsOwn, Passed
  <2>4. SoughtIsAllowed' /\ NoKeyWrittenTwice'
    BY <2>1 DEF Inv, SoughtIsAllowed, AtStep, Step, Open, NoKeyWrittenTwice
  <2>5. ReadIsCurrent' /\ ExactUnlessOvertaken'
    BY <2>1 DEF Inv, ReadIsCurrent, Loaded, Flushed, ExactUnlessOvertaken
  <2> QED
    BY <2>2, <2>3, <2>4, <2>5 DEF Inv
<1>2. ASSUME NEW j \in Jobs, LockGuard(j) \/ LockPromo(j) \/ LockUser(j)
      PROVE  Inv'
  <2>1. Guard[j] \in Rows /\ Holder[j] \in Rows /\ (Promo[j] # None => Promo[j] \in Rows)
    BY WalletAssumption DEF Rows
  <2>2. CASE LockGuard(j)
    BY <2>1, <2>2, LockStep DEF LockGuard
  <2>3. CASE LockPromo(j)
    BY <2>1, <2>3, LockStep DEF LockPromo
  <2>4. CASE LockUser(j)
    BY <2>1, <2>4, LockStep DEF LockUser
  <2> QED
    BY <1>2, <2>2, <2>3, <2>4
<1>3. ASSUME NEW j \in Jobs, LoadUser(j)
      PROVE  Inv'
  BY <1>3, LoadStep
<1>4. ASSUME NEW j \in Jobs, Credit(j)
      PROVE  Inv'
  <2>1. ChangeOf(j, "credit", CreditKey[j], Amount[j])
    BY DEF ChangeOf
  <2> QED
    BY <1>4, <2>1, RepeatedStep, SoughtStep, ChangedStep DEF Credit, Change
<1>5. ASSUME NEW j \in Jobs, Debit(j)
      PROVE  Inv'
  <2>1. ChangeOf(j, "debit", DebitKey[j], -Amount[j])
    BY DEF ChangeOf
  <2> QED
    BY <1>5, <2>1, RepeatedStep, SoughtStep, ChangedStep DEF Debit, Change
<1>6. ASSUME NEW j \in Jobs, Commit(j) \/ Short(j) \/ Return(j) \/ Rollback(j)
      PROVE  Inv'
  BY <1>6, EndStep
<1> QED
  BY <1>1, <1>2, <1>3, <1>4, <1>5, <1>6 DEF Next, Forward

-----------------------------------------------------------------------------
\* In every reachable state guards are held, keys are free until they are written, and a
\* transaction that was not overtaken has the committed balance.
THEOREM AlwaysInv == Spec => []Inv
BY InitInv, NextInv, PTL DEF Spec

\* The type invariant of Wallet holds in every reachable state.
THEOREM TypeCorrect == Spec => []TypeOK
BY AlwaysInv, PTL DEF Inv

\* No transaction commits a negative balance, whatever it had read before it locked.
THEOREM NoNegativeBalance == Spec => []NeverNegative
<1>1. Inv => NeverNegative
  BY DEF Inv, NoDebt, NeverNegative
<1> QED
  BY <1>1, AlwaysInv, PTL

\* No two transactions flush a row with the same key: the guard row keeps them apart.
THEOREM KeysWrittenOnce == Spec => []NoKeyWrittenTwice
BY AlwaysInv, PTL DEF Inv

\* The balance is the sum of its history unless a commit overtook a read.
THEOREM ExactOrOvertaken == Spec => []ExactUnlessOvertaken
BY AlwaysInv, PTL DEF Inv
-----------------------------------------------------------------------------
(* A payment pays for its order *)

\* a payment that is credited, in the session or for good, is followed by its debit
Spent ==
    \A j \in Payers :
        /\ ledger[CreditKey[j]] # NoRow => ledger[DebitKey[j]] # NoRow
        /\ Passed(j, "credit") /\ ~Passed(j, "debit") =>
             object[j] >= Amount[j] \/ ledger[DebitKey[j]] # NoRow
        /\ Passed(j, "debit") =>
             added[j][DebitKey[j]] # NoRow \/ ledger[DebitKey[j]] # NoRow
        /\ result[j] # "short"

\* a payer credits before he debits, and does not end without the debit
LEMMA PayersProgram ==
    ASSUME TypeOK, NEW j \in Payers
    PROVE  /\ AtStep(j, "debit") => Passed(j, "credit")
           /\ pc[j] = Len(Program[Kind[j]]) => Passed(j, "credit") /\ Passed(j, "debit")
<1>1. /\ Len(Program[Kind[j]]) = 5
      /\ Program[Kind[j]][4] = "credit"
      /\ Program[Kind[j]][5] = "debit"
      /\ \A i \in 1..3 : Program[Kind[j]][i] # "debit"
  BY DEF Payers, Program, PaymentSteps, CheckSteps
<1>2. pc[j] \in 0..5 /\ j \in Jobs
  BY DEF TypeOK, Payers
<1>3. ASSUME AtStep(j, "debit") PROVE Passed(j, "credit")
  <2>1. pc[j] + 1 \in 1..5 /\ Program[Kind[j]][pc[j] + 1] = "debit"
    BY <1>1, <1>2, <1>3, AtStepIsNext
  <2>2. pc[j] + 1 # 4
    BY <1>1, <2>1
  <2>3. 4 \in 1..pc[j]
    BY <1>1, <1>2, <2>1, <2>2
  <2> QED
    BY <1>1, <2>3 DEF Passed
<1>4. ASSUME pc[j] = Len(Program[Kind[j]]) PROVE Passed(j, "credit") /\ Passed(j, "debit")
  <2>1. 4 \in 1..pc[j] /\ 5 \in 1..pc[j]
    BY <1>1, <1>4
  <2> QED
    BY <1>1, <2>1 DEF Passed
<1> QED
  BY <1>3, <1>4

\* a step that changes neither what is written nor what was passed of these steps
LEMMA SpentIdle ==
    ASSUME Spent, NEW j \in Jobs,
           ledger' = ledger, added' = added, result' = result,
           \A i \in Jobs : object'[i] = object[i] \/ ~Passed(i, "credit"),
           \A i \in Jobs : /\ Passed(i, "credit")' <=> Passed(i, "credit")
                           /\ Passed(i, "debit")' <=> Passed(i, "debit")
    PROVE  Spent'
<1> SUFFICES ASSUME NEW i \in Payers
             PROVE  /\ ledger'[CreditKey[i]] # NoRow => ledger'[DebitKey[i]] # NoRow
                    /\ Passed(i, "credit")' /\ ~Passed(i, "debit")' =>
                         object'[i] >= Amount[i] \/ ledger'[DebitKey[i]] # NoRow
                    /\ Passed(i, "debit")' =>
                         added'[i][DebitKey[i]] # NoRow \/ ledger'[DebitKey[i]] # NoRow
                    /\ result'[i] # "short"
  BY DEF Spent
<1> QED
  BY DEF Spent, Payers

\* locks and reads
LEMMA SpentForward ==
    ASSUME Inv, Spent, NEW j \in Jobs,
           LockGuard(j) \/ LockPromo(j) \/ LoadUser(j) \/ LockUser(j)
    PROVE  Spent'
<1>1. PICK step \in {"guard", "promo", "load", "lock"} :
        /\ AtStep(j, step)
        /\ step # "load" => object' = object
        /\ step = "load" => object' = [object EXCEPT ![j] = balance[Holder[j]]]
  BY DEF LockGuard, LockPromo, LoadUser, LockUser
<1>2. /\ Advance(j)
      /\ ledger' = ledger /\ added' = added /\ result' = result
  BY DEF LockGuard, LockPromo, LoadUser, LockUser, committed
<1>3. TypeOK /\ WithinProgram
  BY DEF Inv
<1>4. \A i \in Jobs : \A t \in {"credit", "debit"} : Passed(i, t)' <=> Passed(i, t)
  BY <1>1, <1>2, <1>3, Advanced
<1>5. \A i \in Jobs : object'[i] = object[i] \/ ~Passed(i, "credit")
  <2>1. CASE step = "load"
    <3>1. ~Passed(j, "credit")
      BY <1>1, <1>3, <2>1, StepsInOrder
    <3>2. \A i \in Jobs \ {j} : object'[i] = object[i]
      BY <1>1, <1>3, <2>1 DEF TypeOK
    <3> QED
      BY <3>1, <3>2
  <2>2. CASE step # "load"
    BY <1>1, <2>2
  <2> QED
    BY <2>1, <2>2
<1> QED
  BY <1>2, <1>4, <1>5, SpentIdle

\* a change, made, found made, or looked for
LEMMA SpentChange ==
    ASSUME Inv, Spent, NEW j \in Jobs, NEW step \in {"credit", "debit"}, NEW key, NEW amount,
           ChangeOf(j, step, key, amount), AtStep(j, step), Change(j, key, amount)
    PROVE  Spent'
<1>1. ledger' = ledger /\ result' = result
  BY DEF Change, committed
<1>2. TypeOK /\ WithinProgram
  BY DEF Inv
<1>3. CreditKey[j] \in Keys /\ DebitKey[j] \in Keys /\ CreditKey[j] # DebitKey[j]
  BY WalletAssumption, KeysDiffer
<1>4. CASE Sought(j, key, amount)
  <2>1. pc' = pc /\ object' = object /\ added' = added
    BY <1>4 DEF Sought
  <2> QED
    BY <1>1, <2>1, SpentIdle DEF Passed
<1>5. CASE Repeated(j, key) \/ Changed(j, key, amount)
  <2>1. Advance(j)
    BY <1>5 DEF Repeated, Changed
  <2>2. /\ \A t \in {"credit", "debit"} : Passed(j, t)' <=> Passed(j, t) \/ t = step
        /\ \A i \in Jobs \ {j} : \A t \in {"credit", "debit"} :
             Passed(i, t)' <=> Passed(i, t)
    BY <1>1, <1>2, <2>1, Advanced
  <2>3. \A i \in Jobs \ {j} : object'[i] = object[i] /\ added'[i] = added[i]
    BY <1>2, <1>5 DEF Repeated, Changed, TypeOK
  <2>4. step = "credit" => added'[j][DebitKey[j]] = added[j][DebitKey[j]]
    <3>1. CASE Repeated(j, key)
      BY <3>1 DEF Repeated
    <3>2. CASE Changed(j, key, amount) /\ step = "credit"
      <4>1. key = CreditKey[j] /\ added \in [Jobs -> [Keys -> Entry]]
        BY <1>2, <3>2 DEF ChangeOf, TypeOK
      <4>2. added' = [added EXCEPT ![j][key] = [user |-> Holder[j], amount |-> amount]]
        BY <3>2 DEF Changed
      <4> QED
        BY <1>3, <4>1, <4>2
    <3> QED
      BY <1>5, <3>1, <3>2
  <2>5. j \in Payers /\ step = "credit" =>
          object'[j] >= Amount[j] \/ ledger[DebitKey[j]] # NoRow
    <3>1. CASE Repeated(j, key)
      BY <3>1 DEF Repeated, ChangeOf, Spent
    <3>2. CASE Changed(j, key, amount) /\ step = "credit"
      <4>1. amount = Amount[j] /\ Amount[j] \in Nat
        BY <3>2, WalletAssumption DEF ChangeOf
      <4>2. object[j] \in Int /\ object[j] >= 0
        BY <1>2 DEF TypeOK, Inv, NoDebt
      <4>3. object'[j] = object[j] + amount
        BY <1>2, <3>2 DEF Changed, TypeOK
      <4> QED
        BY <4>1, <4>2, <4>3
    <3> QED
      BY <1>5, <3>1, <3>2
  <2>6. step = "debit" => added'[j][DebitKey[j]] # NoRow \/ ledger[DebitKey[j]] # NoRow
    <3>1. CASE Repeated(j, key)
      BY <3>1 DEF Repeated, ChangeOf
    <3>2. CASE Changed(j, key, amount) /\ step = "debit"
      <4>1. key = DebitKey[j] /\ Holder[j] \in Users /\ Nobody \notin Users
        BY <3>2, WalletAssumption DEF ChangeOf
      <4>2. added'[j][key] = [user |-> Holder[j], amount |-> amount]
        BY <1>2, <1>3, <3>2, <4>1 DEF Changed, TypeOK
      <4> QED
        BY <4>1, <4>2 DEF NoRow
    <3> QED
      BY <1>5, <3>1, <3>2
  <2> SUFFICES ASSUME NEW i \in Payers
               PROVE  /\ ledger[CreditKey[i]] # NoRow => ledger[DebitKey[i]] # NoRow
                      /\ Passed(i, "credit")' /\ ~Passed(i, "debit")' =>
                           object'[i] >= Amount[i] \/ ledger[DebitKey[i]] # NoRow
                      /\ Passed(i, "debit")' =>
                           added'[i][DebitKey[i]] # NoRow \/ ledger[DebitKey[i]] # NoRow
                      /\ result[i] # "short"
    BY <1>1 DEF Spent
  <2>7. i \in Jobs
    BY DEF Payers
  <2>8. CASE i = j
    <3>1. ~Passed(j, "debit") \/ step = "credit"
      BY <1>2, StepsInOrder
    <3> QED
      BY <2>2, <2>4, <2>5, <2>6, <2>8 DEF Spent
  <2>9. CASE i # j
    BY <2>2, <2>3, <2>7, <2>9 DEF Spent
  <2> QED
    BY <2>8, <2>9
<1> QED
  BY <1>4, <1>5 DEF Change

\* an end: a payer that commits a credit commits its debit with it
LEMMA SpentEnd ==
    ASSUME Inv, Spent, NEW j \in Jobs, NEW outcome \in Outcomes, End(j, outcome),
           \/ UNCHANGED committed
           \/ Publish(j) /\ (j \in Payers => Passed(j, "debit")),
           j \in Payers => outcome # "short"
    PROVE  Spent'
<1>1. /\ result'[j] = outcome
      /\ \A t \in {"credit", "debit"} : ~Passed(j, t)'
      /\ \A i \in Jobs \ {j} : /\ result'[i] = result[i]
                              /\ pc'[i] = pc[i]
                              /\ object'[i] = object[i]
                              /\ added'[i] = added[i]
  BY Ended
<1>2. \A i \in Jobs \ {j} : \A t \in {"credit", "debit"} : Passed(i, t)' <=> Passed(i, t)
  BY <1>1 DEF Passed
<1>3. \A key \in Keys : ledger[key] # NoRow => ledger'[key] # NoRow
  BY DEF Publish, committed
<1>4. ASSUME NEW i \in Payers, ledger'[CreditKey[i]] # NoRow
      PROVE  ledger'[DebitKey[i]] # NoRow
  <2>1. i \in Jobs /\ CreditKey[i] \in Keys /\ DebitKey[i] \in Keys
    BY WalletAssumption DEF Payers
  <2>2. CASE ledger[CreditKey[i]] # NoRow
    BY <1>3, <2>1, <2>2 DEF Spent
  <2>3. CASE ledger[CreditKey[i]] = NoRow
    <3>1. ledger' = [key \in Keys |->
                       IF added[j][key] # NoRow THEN added[j][key] ELSE ledger[key]]
      BY <1>4, <2>3 DEF Publish, committed
    <3>2. added[j][CreditKey[i]] # NoRow
      BY <1>4, <2>1, <2>3, <3>1
    <3>3. CreditKey[i] = CreditKey[j]
      BY <2>1, <3>2, KeysDiffer DEF Inv, AddedIsOwn
    <3>4. j \in Payers /\ DebitKey[j] = DebitKey[i]
      BY <2>1, <3>3, KeysAssumption
    <3>5. Passed(j, "debit")
      BY <1>4, <2>3, <3>4 DEF committed
    <3>6. added[j][DebitKey[j]] # NoRow \/ ledger[DebitKey[j]] # NoRow
      BY <3>4, <3>5 DEF Spent
    <3> QED
      BY <2>1, <3>1, <3>4, <3>6
  <2> QED
    BY <2>2, <2>3
<1> SUFFICES ASSUME NEW i \in Payers
             PROVE  /\ Passed(i, "credit")' /\ ~Passed(i, "debit")' =>
                         object'[i] >= Amount[i] \/ ledger'[DebitKey[i]] # NoRow
                    /\ Passed(i, "debit")' =>
                         added'[i][DebitKey[i]] # NoRow \/ ledger'[DebitKey[i]] # NoRow
                    /\ result'[i] # "short"
  BY <1>4 DEF Spent
<1>5. i \in Jobs /\ DebitKey[i] \in Keys
  BY WalletAssumption DEF Payers
<1>6. CASE i = j
  BY <1>1, <1>6
<1>7. CASE i # j
  BY <1>1, <1>2, <1>3, <1>5, <1>7 DEF Spent
<1> QED
  BY <1>6, <1>7

\* a payer has the money for his debit
LEMMA PayerIsNotShort ==
    ASSUME Inv, Spent, NEW j \in Jobs, Short(j)
    PROVE  j \notin Payers
<1> SUFFICES ASSUME j \in Payers PROVE FALSE
  OBVIOUS
<1>1. TypeOK /\ WithinProgram /\ AtStep(j, "debit") /\ ledger[DebitKey[j]] = NoRow
  BY DEF Short, Inv
<1>2. Passed(j, "credit") /\ ~Passed(j, "debit")
  BY <1>1, PayersProgram, StepsInOrder
<1>3. object[j] >= Amount[j] /\ object[j] \in Int /\ Amount[j] \in Nat
  BY <1>1, <1>2, WalletAssumption DEF Spent, TypeOK
<1>4. object[j] - Amount[j] < 0
  BY DEF Short
<1> QED
  BY <1>3, <1>4

\* nothing is paid at the start
LEMMA InitSpent == Init => Spent
<1> SUFFICES ASSUME Init PROVE Spent
  OBVIOUS
<1>1. \A j \in Payers : /\ j \in Jobs
                       /\ CreditKey[j] \in Keys
                       /\ pc[j] = 0
                       /\ result[j] = "open"
                       /\ ledger[CreditKey[j]] = NoRow
  BY WalletAssumption DEF Init, Payers
<1>2. \A j \in Payers : ~Passed(j, "credit") /\ ~Passed(j, "debit")
  BY <1>1 DEF Passed
<1> QED
  BY <1>1, <1>2 DEF Spent

\* every step keeps the payments spent
LEMMA NextSpent == Inv /\ Spent /\ [Next]_vars => Spent'
<1> SUFFICES ASSUME Inv, Spent, [Next]_vars PROVE Spent'
  OBVIOUS
<1>1. CASE UNCHANGED vars
  <2>1. /\ ledger' = ledger /\ added' = added /\ result' = result
        /\ object' = object /\ pc' = pc
    BY <1>1 DEF vars
  <2> QED
    BY <2>1 DEF Spent, Passed
<1>2. ASSUME NEW j \in Jobs, LockGuard(j) \/ LockPromo(j) \/ LoadUser(j) \/ LockUser(j)
      PROVE  Spent'
  BY <1>2, SpentForward
<1>3. ASSUME NEW j \in Jobs, Credit(j)
      PROVE  Spent'
  <2>1. ChangeOf(j, "credit", CreditKey[j], Amount[j])
    BY DEF ChangeOf
  <2> QED
    BY <1>3, <2>1, SpentChange DEF Credit
<1>4. ASSUME NEW j \in Jobs, Debit(j)
      PROVE  Spent'
  <2>1. ChangeOf(j, "debit", DebitKey[j], -Amount[j])
    BY DEF ChangeOf
  <2> QED
    BY <1>4, <2>1, SpentChange DEF Debit
<1>5. ASSUME NEW j \in Jobs, Commit(j)
      PROVE  Spent'
  <2>1. j \in Payers => Passed(j, "debit")
    BY <1>5, PayersProgram DEF Commit, Inv
  <2>2. "done" \in Outcomes /\ "done" # "short"
    BY DEF Outcomes
  <2> QED
    BY <1>5, <2>1, <2>2, SpentEnd DEF Commit
<1>6. ASSUME NEW j \in Jobs, Short(j)
      PROVE  Spent'
  <2>1. j \notin Payers
    BY <1>6, PayerIsNotShort
  <2>2. "short" \in Outcomes
    BY DEF Outcomes
  <2> QED
    BY <1>6, <2>1, <2>2, SpentEnd DEF Short
<1>7. ASSUME NEW j \in Jobs, Return(j) \/ Rollback(j)
      PROVE  Spent'
  <2>1. \A outcome \in {"done", "rolled back"} : outcome \in Outcomes /\ outcome # "short"
    BY DEF Outcomes
  <2>2. PICK outcome \in {"done", "rolled back"} : End(j, outcome) /\ UNCHANGED committed
    BY <1>7 DEF Return, Rollback
  <2> QED
    BY <2>1, <2>2, SpentEnd
<1> QED
  BY <1>1, <1>2, <1>3, <1>4, <1>5, <1>6, <1>7 DEF Next, Forward

\* A payment pays for its own order, whatever balance its transaction had read: no payer
\* ends short of money.
THEOREM PaymentSuffices == Spec => []PaymentIsNeverShort
<1>1. Init => Spent
  BY InitSpent
<1>2. Spent => PaymentIsNeverShort
  BY DEF Spent, PaymentIsNeverShort
<1> QED
  BY <1>1, <1>2, AlwaysInv, NextSpent, PTL DEF Spec
-----------------------------------------------------------------------------
(* Nobody waits in a circle *)

\* the guard is locked once, and before any other row
GuardFirst(program) ==
    /\ Len(program) \in 0..5
    /\ \A i \in 1..Len(program) : program[i] \in {"lock", "promo"} =>
         \E m \in 1..(i - 1) : program[m] = "guard"
    /\ \A i, m \in 1..Len(program) :
         program[i] = "guard" /\ program[m] = "guard" => i = m

\* the programs of the code are like that
LEMMA ProgramsGuardFirst == \A k \in Kinds : GuardFirst(Program[k])
<1>1. GuardFirst(TopUpSteps)
  BY DEF TopUpSteps, GuardFirst
<1>2. GuardFirst(CheckedTopUpSteps)
  BY DEF CheckedTopUpSteps, GuardFirst
<1>3. GuardFirst(PaymentSteps)
  BY DEF PaymentSteps, GuardFirst
<1>4. GuardFirst(CheckSteps)
  BY DEF CheckSteps, GuardFirst
<1>5. GuardFirst(PurchaseSteps)
  BY DEF PurchaseSteps, GuardFirst
<1>6. GuardFirst(ReferralSteps)
  BY ReferralProgram DEF GuardFirst
<1> QED
  BY <1>1, <1>2, <1>3, <1>4, <1>5, <1>6 DEF Kinds, Program

\* who asks for another row has passed his guard, and who asks for his guard has not
LEMMA GuardInOrder ==
    ASSUME TypeOK, WithinProgram, NEW j \in Jobs
    PROVE  /\ AtStep(j, "lock") \/ AtStep(j, "promo") => Passed(j, "guard")
           /\ AtStep(j, "guard") => ~Passed(j, "guard")
<1> DEFINE program == Program[Kind[j]]
<1>1. GuardFirst(program)
  BY ProgramsGuardFirst, WalletAssumption
<1>2. pc[j] \in Nat /\ pc[j] <= Len(program) /\ Len(program) \in Nat
  <2>1. Len(program) \in 0..5
    BY <1>1 DEF GuardFirst
  <2>2. pc[j] \in 0..5 /\ pc[j] <= Len(program)
    BY DEF TypeOK, WithinProgram
  <2> HIDE DEF program
  <2> QED
    BY <2>1, <2>2
<1>3. ASSUME NEW step \in {"lock", "promo"}, AtStep(j, step)
      PROVE  Passed(j, "guard")
  <2>1. pc[j] + 1 \in 1..Len(program) /\ program[pc[j] + 1] = step
    BY <1>3, AtStepIsNext
  <2>2. PICK m \in 1..((pc[j] + 1) - 1) : program[m] = "guard"
    BY <1>1, <2>1 DEF GuardFirst
  <2>3. m \in 1..pc[j]
    BY <1>2
  <2> QED
    BY <2>2, <2>3 DEF Passed
<1>4. ASSUME AtStep(j, "guard"), Passed(j, "guard")
      PROVE  FALSE
  <2>1. PICK i \in 1..pc[j] : program[i] = "guard"
    BY <1>4 DEF Passed
  <2>2. pc[j] + 1 \in 1..Len(program) /\ program[pc[j] + 1] = "guard"
    BY <1>4, AtStepIsNext
  <2>3. i \in 1..Len(program) /\ i # pc[j] + 1
    BY <1>2
  <2> QED
    BY <1>1, <2>1, <2>2, <2>3 DEF GuardFirst
<1> QED
  BY <1>3, <1>4

\* a transaction holds rows of its own, and none before its guard
Own(j) == {Guard[j], Holder[j]} \cup ({Promo[j]} \ {None})

HeldIsOwn == \A j \in Jobs, row \in Rows :
    holds[row] = j => row \in Own(j) /\ Passed(j, "guard")

\* a step within the program keeps what is held apart
LEMMA HeldForward ==
    ASSUME Inv, HeldIsOwn, NEW j \in Jobs, NEW step, AtStep(j, step), Advance(j),
           result' = result,
           step = "guard" \/ Passed(j, "guard") \/ holds' = holds,
           holds' = holds \/ \E row \in Own(j) : Take(row, j)
    PROVE  HeldIsOwn'
<1>1. TypeOK /\ WithinProgram
  BY DEF Inv
<1>2. /\ Passed(j, "guard")' <=> Passed(j, "guard") \/ "guard" = step
      /\ \A i \in Jobs \ {j} : Passed(i, "guard")' <=> Passed(i, "guard")
  BY <1>1, Advanced
<1> SUFFICES ASSUME NEW i \in Jobs, NEW row \in Rows, holds'[row] = i
             PROVE  row \in Own(i) /\ Passed(i, "guard")'
  BY DEF HeldIsOwn, Own
<1>3. CASE holds[row] = i
  BY <1>2, <1>3 DEF HeldIsOwn
<1>4. CASE holds[row] # i
  <2>1. PICK taken \in Own(j) : Take(taken, j)
    BY <1>4
  <2>2. i = j /\ row = taken
    BY <1>1, <1>4, <2>1 DEF Take, TypeOK
  <2> QED
    BY <1>2, <1>4, <2>2
<1> QED
  BY <1>3, <1>4

\* every step keeps what is held apart
LEMMA NextHeld == Inv /\ HeldIsOwn /\ [Next]_vars => HeldIsOwn'
<1> SUFFICES ASSUME Inv, HeldIsOwn, [Next]_vars PROVE HeldIsOwn'
  OBVIOUS
<1>0. TypeOK /\ WithinProgram
  BY DEF Inv
<1>1. CASE UNCHANGED vars
  BY <1>1 DEF vars, HeldIsOwn, Passed
<1>2. ASSUME NEW j \in Jobs, LockGuard(j) \/ LockPromo(j) \/ LockUser(j) \/ LoadUser(j)
      PROVE  HeldIsOwn'
  <2>1. CASE LockGuard(j)
    BY <2>1, HeldForward DEF LockGuard, Own
  <2>2. CASE LockPromo(j)
    <3>1. AtStep(j, "promo") /\ Advance(j) /\ result' = result
      BY <2>2 DEF LockPromo
    <3>2. holds' = holds \/ \E row \in Own(j) : Take(row, j)
      BY <2>2 DEF LockPromo, Own
    <3> QED
      BY <1>0, <3>1, <3>2, GuardInOrder, HeldForward
  <2>3. CASE LockUser(j)
    BY <1>0, <2>3, GuardInOrder, HeldForward DEF LockUser, Own
  <2>4. CASE LoadUser(j)
    BY <2>4, HeldForward DEF LoadUser
  <2> QED
    BY <1>2, <2>1, <2>2, <2>3, <2>4
<1>3. ASSUME NEW j \in Jobs, NEW step \in {"credit", "debit"}, NEW key, NEW amount,
             AtStep(j, step), Change(j, key, amount)
      PROVE  HeldIsOwn'
  <2>1. Passed(j, "guard") /\ result' = result
    BY <1>0, <1>3, StepsInOrder DEF Change
  <2>2. CASE Sought(j, key, amount)
    BY <2>2 DEF Sought, HeldIsOwn, Passed
  <2>3. CASE Repeated(j, key)
    BY <1>3, <2>1, <2>3, HeldForward DEF Repeated
  <2>4. CASE Changed(j, key, amount)
    BY <1>3, <2>1, <2>4, HeldForward DEF Changed, Own
  <2> QED
    BY <1>3, <2>2, <2>3, <2>4 DEF Change
<1>4. ASSUME NEW j \in Jobs, NEW outcome, End(j, outcome)
      PROVE  HeldIsOwn'
  <2> SUFFICES ASSUME NEW i \in Jobs, NEW row \in Rows, holds'[row] = i
               PROVE  row \in Own(i) /\ Passed(i, "guard")'
    BY DEF HeldIsOwn, Own
  <2>1. holds[row] = i /\ i # j
    BY <1>4, WalletAssumption DEF End
  <2>2. pc'[i] = pc[i]
    BY <1>0, <1>4, <2>1 DEF End, TypeOK
  <2> QED
    BY <2>1, <2>2 DEF HeldIsOwn, Passed
<1> QED
  BY <1>1, <1>2, <1>3, <1>4
     DEF Next, Forward, Credit, Debit, Commit, Short, Return, Rollback

\* who waits without a promo code waits for one row, his guard or his user
LEMMA WaitingForOne ==
    ASSUME Inv, HeldIsOwn, NEW j \in Jobs, Waits(j), Promo[j] = None
    PROVE  \E row \in {Guard[j], Holder[j]} :
             /\ Wanted(j) = {row}
             /\ holds[row] # j
             /\ Passed(j, "guard") => row = Holder[j] /\ holds[Guard[j]] = j
<1>0. TypeOK /\ WithinProgram
  BY DEF Inv
<1>1. PICK row \in Wanted(j) : ~Free(row, j)
  BY DEF Waits
<1>2. holds[row] # j
  BY <1>1 DEF Free
<1>3. Passed(j, "guard") => holds[Guard[j]] = j
  BY <1>0 DEF Inv, GuardIsHeld
<1>4. CASE AtStep(j, "guard")
  <2>1. Wanted(j) = {Guard[j]}
    BY <1>4 DEF Wanted
  <2> QED
    BY <1>0, <1>1, <1>2, <1>4, <2>1, GuardInOrder
<1>5. CASE ~AtStep(j, "guard")
  <2>1. Wanted(j) = {Holder[j]}
    BY <1>1, <1>5 DEF Wanted
  <2> QED
    BY <1>1, <1>2, <1>3, <2>1
<1> QED
  BY <1>4, <1>5

\* Payments and purchases without a promo code never wait for each other in a circle: who
\* waits for a user is stopped by one that holds its order and its user, and so does not wait.
THEOREM NoCircle == Spec => []PlainPurchasesDoNotDeadlock
<1>1. Init => HeldIsOwn
  BY WalletAssumption DEF Init, HeldIsOwn
<1>2. Inv /\ HeldIsOwn => PlainPurchasesDoNotDeadlock
  <2> SUFFICES ASSUME Inv, HeldIsOwn,
                      NEW D \in SUBSET {j \in Plain : Waits(j)},
                      \A i \in D : \E j \in D : WaitsFor(i, j),
                      NEW first \in D
               PROVE  FALSE
    BY DEF PlainPurchasesDoNotDeadlock
  <2>1. \A i \in D : /\ i \in Jobs /\ Waits(i) /\ Promo[i] = None
                     /\ Guard[i] \in Orders /\ Holder[i] \in Users
    BY WalletAssumption DEF Plain
  <2>2. \A i \in D : \A row \in Rows : holds[row] = i =>
          Passed(i, "guard") /\ row \in {Guard[i], Holder[i]}
    BY <2>1 DEF HeldIsOwn, Own
  <2>3. \A i \in D : Passed(i, "guard") => Wanted(i) = {Holder[i]} /\ holds[Holder[i]] # i
    BY <2>1, WaitingForOne
  <2>4. \A i \in D : \A row \in Wanted(i) : row \in {Guard[i], Holder[i]}
    BY <2>1, WaitingForOne
  <2>5. PICK second \in D : WaitsFor(first, second)
    OBVIOUS
  <2>6. Passed(second, "guard")
    BY <2>1, <2>2, <2>4, <2>5 DEF WaitsFor, Rows
  <2>7. PICK third \in D : WaitsFor(second, third)
    OBVIOUS
  <2>8. holds[Holder[second]] = third /\ Holder[second] \in Users
    BY <2>1, <2>3, <2>6, <2>7 DEF WaitsFor
  <2>9. Passed(third, "guard") /\ Holder[second] \in {Guard[third], Holder[third]}
    BY <2>2, <2>8 DEF Rows
  <2>10. Holder[second] = Holder[third]
    BY <2>1, <2>8, <2>9, WalletAssumption
  <2> QED
    BY <2>3, <2>8, <2>9, <2>10
<1> QED
  BY <1>1, <1>2, AlwaysInv, NextHeld, PTL DEF Spec
-----------------------------------------------------------------------------
(* The transactions keep the books *)

\* a row that is flushed says what was asked for, and who has credited finds the row of the
\* credit, his own or an earlier one
Posted ==
    /\ \A j \in Jobs :
         /\ added[j][CreditKey[j]] \in {NoRow, Books!CreditRow(j)}
         /\ added[j][DebitKey[j]] \in {NoRow, Books!DebitRow(j)}
    /\ \A j \in Jobs : Passed(j, "credit") =>
         added[j][CreditKey[j]] # NoRow \/ ledger[CreditKey[j]] # NoRow

\* locks and reads
LEMMA PostedForward ==
    ASSUME Inv, Posted, NEW j \in Jobs,
           LockGuard(j) \/ LockPromo(j) \/ LoadUser(j) \/ LockUser(j)
    PROVE  Posted'
<1>1. PICK step \in {"guard", "promo", "load", "lock"} : AtStep(j, step)
  BY DEF LockGuard, LockPromo, LoadUser, LockUser
<1>2. /\ Advance(j)
      /\ ledger' = ledger /\ added' = added /\ result' = result
  BY DEF LockGuard, LockPromo, LoadUser, LockUser, committed
<1>3. TypeOK /\ WithinProgram
  BY DEF Inv
<1>4. \A i \in Jobs : Passed(i, "credit")' <=> Passed(i, "credit")
  BY <1>1, <1>2, <1>3, Advanced
<1> QED
  BY <1>2, <1>4 DEF Posted, Books!CreditRow, Books!DebitRow

\* a change, made, found made, or looked for
LEMMA PostedChange ==
    ASSUME Inv, Posted, NEW j \in Jobs, NEW step \in {"credit", "debit"}, NEW key, NEW amount,
           ChangeOf(j, step, key, amount), AtStep(j, step), Change(j, key, amount)
    PROVE  Posted'
<1> USE DEF Books!CreditRow, Books!DebitRow
<1>1. ledger' = ledger /\ result' = result
  BY DEF Change, committed
<1>2. TypeOK /\ WithinProgram
  BY DEF Inv
<1>3. CreditKey[j] \in Keys /\ DebitKey[j] \in Keys /\ CreditKey[j] # DebitKey[j]
  BY WalletAssumption, KeysDiffer
<1>4. CASE Sought(j, key, amount)
  <2>1. pc' = pc /\ added' = added
    BY <1>4 DEF Sought
  <2> QED
    BY <1>1, <2>1 DEF Posted, Passed
<1>5. CASE Repeated(j, key) \/ Changed(j, key, amount)
  <2>1. Advance(j)
    BY <1>5 DEF Repeated, Changed
  <2>2. /\ Passed(j, "credit")' <=> Passed(j, "credit") \/ "credit" = step
        /\ \A i \in Jobs \ {j} : Passed(i, "credit")' <=> Passed(i, "credit")
    BY <1>1, <1>2, <2>1, Advanced
  <2>3. \A i \in Jobs \ {j} : added'[i] = added[i]
    BY <1>2, <1>5 DEF Repeated, Changed, TypeOK
  <2>4. \/ added' = added /\ (step = "credit" => ledger[CreditKey[j]] # NoRow)
        \/ /\ added'[j][key] = [user |-> Holder[j], amount |-> amount]
           /\ \A k \in Keys \ {key} : added'[j][k] = added[j][k]
    <3>1. CASE Repeated(j, key)
      BY <3>1 DEF Repeated, ChangeOf
    <3>2. CASE Changed(j, key, amount)
      <4>1. key \in Keys /\ added \in [Jobs -> [Keys -> Entry]]
        BY <1>2, <1>3 DEF ChangeOf, TypeOK
      <4>2. added' = [added EXCEPT ![j][key] = [user |-> Holder[j], amount |-> amount]]
        BY <3>2 DEF Changed
      <4> QED
        BY <4>1, <4>2
    <3> QED
      BY <1>5, <3>1, <3>2
  <2>5. [user |-> Holder[j], amount |-> amount] # NoRow
    BY WalletAssumption DEF NoRow
  <2>6. /\ added'[j][CreditKey[j]] \in {NoRow, Books!CreditRow(j)}
        /\ added'[j][DebitKey[j]] \in {NoRow, Books!DebitRow(j)}
        /\ Passed(j, "credit")' =>
             added'[j][CreditKey[j]] # NoRow \/ ledger[CreditKey[j]] # NoRow
    <3>1. CASE added' = added /\ (step = "credit" => ledger[CreditKey[j]] # NoRow)
      BY <2>2, <3>1 DEF Posted
    <3>2. CASE /\ added'[j][key] = [user |-> Holder[j], amount |-> amount]
               /\ \A k \in Keys \ {key} : added'[j][k] = added[j][k]
      BY <1>3, <2>2, <2>5, <3>2 DEF Posted, ChangeOf
    <3> QED
      BY <2>4, <3>1, <3>2
  <2> QED
    BY <1>1, <2>2, <2>3, <2>6 DEF Posted
<1> QED
  BY <1>4, <1>5 DEF Change

\* an end
LEMMA PostedEnd ==
    ASSUME Inv, Posted, NEW j \in Jobs, NEW outcome \in Outcomes, End(j, outcome),
           UNCHANGED committed \/ Publish(j)
    PROVE  Posted'
<1>1. /\ \A key \in Keys : added'[j][key] = NoRow
      /\ ~Passed(j, "credit")'
      /\ \A i \in Jobs \ {j} : pc'[i] = pc[i] /\ added'[i] = added[i]
  BY Ended
<1>2. \A i \in Jobs \ {j} : Passed(i, "credit")' <=> Passed(i, "credit")
  BY <1>1 DEF Passed
<1>3. \A key \in Keys : ledger[key] # NoRow => ledger'[key] # NoRow
  BY DEF Publish, committed
<1>4. \A i \in Jobs : CreditKey[i] \in Keys /\ DebitKey[i] \in Keys
  BY WalletAssumption
<1> QED
  BY <1>1, <1>2, <1>3, <1>4 DEF Posted, Books!CreditRow, Books!DebitRow

\* every step keeps it
LEMMA NextPosted == Inv /\ Posted /\ [Next]_vars => Posted'
<1> SUFFICES ASSUME Inv, Posted, [Next]_vars PROVE Posted'
  OBVIOUS
<1>1. CASE UNCHANGED vars
  <2>1. ledger' = ledger /\ added' = added /\ pc' = pc
    BY <1>1 DEF vars
  <2> QED
    BY <2>1 DEF Posted, Passed, Books!CreditRow, Books!DebitRow
<1>2. ASSUME NEW j \in Jobs, LockGuard(j) \/ LockPromo(j) \/ LoadUser(j) \/ LockUser(j)
      PROVE  Posted'
  BY <1>2, PostedForward
<1>3. ASSUME NEW j \in Jobs, Credit(j)
      PROVE  Posted'
  <2>1. ChangeOf(j, "credit", CreditKey[j], Amount[j])
    BY DEF ChangeOf
  <2> QED
    BY <1>3, <2>1, PostedChange DEF Credit
<1>4. ASSUME NEW j \in Jobs, Debit(j)
      PROVE  Posted'
  <2>1. ChangeOf(j, "debit", DebitKey[j], -Amount[j])
    BY DEF ChangeOf
  <2> QED
    BY <1>4, <2>1, PostedChange DEF Debit
<1>5. ASSUME NEW j \in Jobs, Commit(j) \/ Short(j) \/ Return(j) \/ Rollback(j)
      PROVE  Posted'
  <2>1. PICK outcome \in Outcomes :
          End(j, outcome) /\ (UNCHANGED committed \/ Publish(j))
    BY <1>5 DEF Commit, Short, Return, Rollback, Outcomes
  <2> QED
    BY <2>1, PostedEnd
<1> QED
  BY <1>1, <1>2, <1>3, <1>4, <1>5 DEF Next, Forward

\* a balance is one of those the user has had, and so is the one a transaction started from
Founded ==
    /\ \A u \in Users : balance[u] \in past[u]
    /\ \A j \in Jobs : Loaded(j) => \E b \in past[Holder[j]] : object[j] = b + Flushed(j)

\* a step within a transaction
LEMMA FoundedForward ==
    ASSUME Inv, Founded, NEW j \in Jobs, UNCHANGED committed, result' = result,
           \/ LockGuard(j) \/ LockPromo(j) \/ LoadUser(j) \/ LockUser(j)
           \/ \E step \in {"credit", "debit"} : \E key, amount :
                AtStep(j, step) /\ ChangeOf(j, step, key, amount) /\ Change(j, key, amount)
    PROVE  Founded'
<1>1. TypeOK /\ WithinProgram /\ past' = past /\ balance' = balance
  BY DEF Inv, committed
<1>2. CASE UNCHANGED <<object, added, pc>>
  BY <1>1, <1>2 DEF Founded, Loaded, Flushed
<1>3. ASSUME NEW step, AtStep(j, step), Advance(j)
      PROVE  /\ Loaded(j)' => Loaded(j) \/ step = "load"
             /\ \A i \in Jobs \ {j} : Loaded(i)' => Loaded(i)
  BY <1>1, <1>3, Advanced DEF Loaded, Passed
<1>4. CASE LockGuard(j) \/ LockPromo(j) \/ LockUser(j)
  <2>1. PICK step \in {"guard", "promo", "lock"} : AtStep(j, step) /\ Advance(j)
    BY <1>4 DEF LockGuard, LockPromo, LockUser
  <2>2. UNCHANGED <<object, added>>
    BY <1>4 DEF LockGuard, LockPromo, LockUser
  <2>3. \A i \in Jobs : Loaded(i)' => Loaded(i)
    BY <1>3, <2>1
  <2> QED
    BY <1>1, <2>2, <2>3 DEF Founded, Flushed
<1>5. CASE LoadUser(j)
  <2>1. /\ AtStep(j, "load") /\ Advance(j) /\ added' = added
        /\ object' = [object EXCEPT ![j] = balance[Holder[j]]] /\ Holder[j] \in Users
    BY <1>5, WalletAssumption DEF LoadUser
  <2>2. object'[j] = balance[Holder[j]] /\ \A i \in Jobs \ {j} : object'[i] = object[i]
    BY <1>1, <2>1 DEF TypeOK
  <2>3. Flushed(j) = 0 /\ \A i \in Jobs : Flushed(i)' = Flushed(i)
    BY <1>1, <2>1, StepsInOrder, NothingFlushed DEF Flushed
  <2>4. balance[Holder[j]] \in past[Holder[j]] /\ balance[Holder[j]] \in Int
    BY <1>1, <2>1 DEF Founded, TypeOK
  <2>5. \E b \in past[Holder[j]] : object'[j] = b + Flushed(j)'
    BY <2>2, <2>3, <2>4
  <2>6. \A i \in Jobs \ {j} : Loaded(i)' => Loaded(i)
    BY <1>3, <2>1
  <2> QED
    BY <1>1, <2>2, <2>3, <2>5, <2>6 DEF Founded
<1>6. ASSUME NEW step \in {"credit", "debit"}, NEW key, NEW amount,
             AtStep(j, step), ChangeOf(j, step, key, amount), Change(j, key, amount)
      PROVE  Founded'
  <2>1. CASE Sought(j, key, amount)
    BY <1>2, <2>1 DEF Sought
  <2>2. CASE Repeated(j, key)
    <3>1. Advance(j) /\ UNCHANGED <<object, added>>
      BY <2>2 DEF Repeated
    <3>2. \A i \in Jobs : Loaded(i)' => Loaded(i)
      BY <1>3, <1>6, <3>1
    <3> QED
      BY <1>1, <3>1, <3>2 DEF Founded, Flushed
  <2>3. CASE Changed(j, key, amount)
    <3>1. Advance(j)
      BY <2>3 DEF Changed
    <3>2. \A i \in Jobs : Loaded(i)' => Loaded(i)
      BY <1>3, <1>6, <3>1
    <3>3. /\ object'[j] = object[j] + amount
          /\ Flushed(j)' = Flushed(j) + amount
          /\ amount \in Int /\ Flushed(j) \in Int
          /\ \A i \in Jobs \ {j} : object'[i] = object[i] /\ Flushed(i)' = Flushed(i)
      BY <1>6, <2>3, FlushedGrows
    <3>4. ASSUME Loaded(j)
          PROVE  \E b \in past[Holder[j]] : object'[j] = b + Flushed(j)'
      <4>1. PICK b \in past[Holder[j]] : object[j] = b + Flushed(j)
        BY <3>4 DEF Founded
      <4>2. b \in Nat
        BY <1>1, WalletAssumption DEF TypeOK
      <4>3. object'[j] = b + Flushed(j)'
        BY <3>3, <4>1, <4>2
      <4> QED
        BY <4>3
    <3> QED
      BY <1>1, <3>2, <3>3, <3>4 DEF Founded
  <2> QED
    BY <1>6, <2>1, <2>2, <2>3 DEF Change
<1> QED
  BY <1>4, <1>5, <1>6

\* an end
LEMMA FoundedEnd ==
    ASSUME Inv, Founded, NEW j \in Jobs, NEW outcome \in Outcomes, End(j, outcome),
           UNCHANGED committed \/ Publish(j)
    PROVE  Founded'
<1>1. /\ ~Passed(j, "load")'
      /\ \A i \in Jobs \ {j} : pc'[i] = pc[i] /\ object'[i] = object[i] /\ added'[i] = added[i]
  BY Ended
<1>2. /\ ~Loaded(j)'
      /\ \A i \in Jobs \ {j} : (Loaded(i)' <=> Loaded(i)) /\ Flushed(i)' = Flushed(i)
  BY <1>1 DEF Loaded, Passed, Flushed
<1>3. /\ \A u \in Users : balance'[u] \in past'[u]
      /\ \A u \in Users : past[u] \subseteq past'[u]
  <2>1. CASE UNCHANGED committed
    BY <2>1 DEF committed, Founded
  <2>2. CASE /\ balance' = [balance EXCEPT ![Holder[j]] = object[j]]
             /\ past' = [past EXCEPT ![Holder[j]] = @ \cup {object[j]}]
    BY <2>2, WalletAssumption DEF Inv, TypeOK, Founded
  <2> QED
    BY <2>1, <2>2 DEF Publish
<1>4. \A i \in Jobs : Holder[i] \in Users
  BY WalletAssumption
<1> QED
  BY <1>1, <1>2, <1>3, <1>4 DEF Founded

\* every step keeps it
LEMMA NextFounded == Inv /\ Founded /\ [Next]_vars => Founded'
<1> SUFFICES ASSUME Inv, Founded, [Next]_vars PROVE Founded'
  OBVIOUS
<1>1. CASE UNCHANGED vars
  BY <1>1 DEF vars, Founded, Loaded, Flushed
<1>2. ASSUME NEW j \in Jobs, LockGuard(j) \/ LockPromo(j) \/ LoadUser(j) \/ LockUser(j)
      PROVE  Founded'
  <2>1. UNCHANGED committed /\ result' = result
    BY <1>2 DEF LockGuard, LockPromo, LoadUser, LockUser
  <2> QED
    BY <1>2, <2>1, FoundedForward
<1>3. ASSUME NEW j \in Jobs, Credit(j) \/ Debit(j)
      PROVE  Founded'
  <2>1. UNCHANGED committed /\ result' = result
    BY <1>3 DEF Credit, Debit, Change
  <2>2. \E step \in {"credit", "debit"} : \E key, amount :
          AtStep(j, step) /\ ChangeOf(j, step, key, amount) /\ Change(j, key, amount)
    BY <1>3 DEF Credit, Debit, ChangeOf
  <2> QED
    BY <2>1, <2>2, FoundedForward
<1>4. ASSUME NEW j \in Jobs, Commit(j) \/ Short(j) \/ Return(j) \/ Rollback(j)
      PROVE  Founded'
  <2>1. PICK outcome \in Outcomes :
          End(j, outcome) /\ (UNCHANGED committed \/ Publish(j))
    BY <1>4 DEF Commit, Short, Return, Rollback, Outcomes
  <2> QED
    BY <2>1, FoundedEnd
<1> QED
  BY <1>1, <1>2, <1>3, <1>4 DEF Next, Forward

\* a transaction that is not a payer's credits or debits, and does not do both
LEMMA OthersProgram ==
    ASSUME TypeOK, WithinProgram, NEW j \in Jobs \ Payers
    PROVE  ~Passed(j, "credit") \/ ~(Passed(j, "debit") \/ AtStep(j, "debit"))
<1> DEFINE program == Program[Kind[j]]
<1>1. Kind[j] \in {"topup", "checked", "purchase", "referral"}
  BY WalletAssumption DEF Kinds, Payers
<1>2. \A step \in {"credit", "debit"} :
        Passed(j, step) \/ AtStep(j, step) => \E i \in 1..Len(program) : program[i] = step
  <2>1. pc[j] \in 0..5 /\ pc[j] <= Len(program) /\ Len(program) \in Nat
    <3>1. Len(program) \in 0..5
      BY ProgramsWellFormed, WalletAssumption DEF WellFormed
    <3>2. pc[j] \in 0..5 /\ pc[j] <= Len(program)
      BY DEF TypeOK, WithinProgram
    <3> QED
      BY <3>1, <3>2
  <2>2. ASSUME NEW step, AtStep(j, step)
        PROVE  \E i \in 1..Len(program) : program[i] = step
    BY <2>2, AtStepIsNext
  <2>3. ASSUME NEW step, Passed(j, step)
        PROVE  \E i \in 1..Len(program) : program[i] = step
    <3>1. PICK i \in 1..pc[j] : program[i] = step
      BY <2>3 DEF Passed
    <3>2. i \in 1..Len(program)
      BY <2>1
    <3> QED
      BY <3>1, <3>2
  <2> QED
    BY <2>2, <2>3
<1>3. CASE Kind[j] = "topup"
  <2>1. program = TopUpSteps
    BY <1>3 DEF Program
  <2>2. ~\E i \in 1..Len(program) : program[i] = "debit"
    BY <2>1 DEF TopUpSteps
  <2> QED
    BY <1>2, <2>2
<1>4. CASE Kind[j] = "checked"
  <2>1. program = CheckedTopUpSteps
    BY <1>4 DEF Program
  <2>2. ~\E i \in 1..Len(program) : program[i] = "debit"
    BY <2>1 DEF CheckedTopUpSteps
  <2> QED
    BY <1>2, <2>2
<1>5. CASE Kind[j] = "purchase"
  <2>1. program = PurchaseSteps
    BY <1>5 DEF Program
  <2>2. ~\E i \in 1..Len(program) : program[i] = "credit"
    BY <2>1 DEF PurchaseSteps
  <2> QED
    BY <1>2, <2>2
<1>6. CASE Kind[j] = "referral"
  <2>1. program = ReferralSteps
    BY <1>6 DEF Program
  <2>2. ~\E i \in 1..Len(program) : program[i] = "debit"
    BY <2>1, ReferralProgram
  <2> QED
    BY <1>2, <2>2
<1> QED
  BY <1>1, <1>3, <1>4, <1>5, <1>6

\* what is committed moves the balance by the rows that are flushed
LEMMA PublishMoves ==
    ASSUME Inv, Founded, NEW j \in Jobs, Wrote(j), Publish(j)
    PROVE  Books!Moves(Holder[j], Flushed(j))
<1> DEFINE user == Holder[j]
           n == Flushed(j)
<1>1. /\ user \in Users
      /\ balance' = [balance EXCEPT ![user] = object[j]]
      /\ past' = [past EXCEPT ![user] = @ \cup {object[j]}]
      /\ overtaken' \in {overtaken, overtaken \cup {user}}
  BY WalletAssumption DEF Publish
<1>2. /\ TypeOK /\ balance[user] \in Int /\ past[user] \subseteq Nat /\ n \in Int
      /\ object[j] >= 0
  BY <1>1, FlushedIsInt DEF Inv, TypeOK, NoDebt
<1>3. Loaded(j)
  <2>1. Passed(j, "credit") \/ Passed(j, "debit")
    BY DEF Wrote, Inv, AddedIsOwn
  <2> QED
    BY <2>1, StepsInOrder DEF Inv, Loaded, Passed
<1>4. PICK b \in past[user] : object[j] = b + n
  BY <1>3 DEF Founded
<1>5. ASSUME user \in Users \ overtaken
      PROVE  b = balance[user]
  <2>1. object[j] = balance[user] + n
    BY <1>3, <1>5 DEF Inv, ReadIsCurrent
  <2>2. b \in Int
    BY <1>2
  <2> QED
    BY <1>2, <1>4, <2>1, <2>2
<1>6. (Users \ overtaken)' \in {Users \ overtaken, (Users \ overtaken) \ {user}}
  BY <1>1
<1> HIDE DEF user, n
<1>7. /\ b + n >= 0
      /\ user \in Users \ overtaken => b = balance[user]
      /\ balance' = [balance EXCEPT ![user] = b + n]
      /\ past' = [past EXCEPT ![user] = @ \cup {b + n}]
  BY <1>1, <1>2, <1>4, <1>5
<1> QED
  BY <1>6, <1>7 DEF Books!Moves, user, n

\* a commit that wrote something is one entry of the books
LEMMA CommitIsEntry ==
    ASSUME Inv, Spent, Posted, Founded, NEW j \in Jobs, Wrote(j), Publish(j),
           j \in Payers => Passed(j, "credit") /\ Passed(j, "debit")
    PROVE  Books!Next
<1> DEFINE c == CreditKey[j]
           d == DebitKey[j]
<1>1. c \in Keys /\ d \in Keys /\ c # d /\ Amount[j] \in Int /\ Amount[j] # 0
  BY WalletAssumption, KeysDiffer
<1>2. /\ ledger' = [key \in Keys |-> IF added[j][key] # NoRow THEN added[j][key] ELSE ledger[key]]
      /\ ledger \in [Keys -> Entry]
  BY DEF Publish, Inv, TypeOK
<1>3. \A key \in Keys : added[j][key] # NoRow => key \in {c, d} /\ ledger[key] = NoRow
  BY DEF Inv, AddedIsOwn, NoKeyWrittenTwice
<1>4. /\ added[j][c] \in {NoRow, Books!CreditRow(j)}
      /\ added[j][d] \in {NoRow, Books!DebitRow(j)}
  BY DEF Posted
<1>5. Books!Moves(Holder[j], Flushed(j))
  BY PublishMoves
<1>6. /\ NoRow.amount = 0
      /\ Books!CreditRow(j).amount = Amount[j]
      /\ Books!DebitRow(j).amount = -Amount[j]
  BY DEF NoRow, Books!CreditRow, Books!DebitRow
<1>7. Books!NoRow = NoRow
  BY DEF NoRow, Books!NoRow
<1>8. ledger' # ledger
  <2>1. PICK key \in Keys : added[j][key] # NoRow
    BY DEF Wrote
  <2>2. ledger'[key] = added[j][key] /\ ledger[key] = NoRow
    BY <1>2, <1>3, <2>1
  <2> QED
    BY <2>1, <2>2
<1>9. CASE added[j][c] # NoRow /\ added[j][d] = NoRow
  <2>1. Flushed(j) = Amount[j]
    BY <1>1, <1>4, <1>6, <1>9 DEF Flushed
  <2>2. ledger' = [ledger EXCEPT ![c] = Books!CreditRow(j)]
    BY <1>1, <1>2, <1>3, <1>4, <1>9
  <2>3. ledger[c] = NoRow
    BY <1>1, <1>3, <1>9
  <2>4. CASE j \in Payers
    <3>1. ledger[d] # NoRow
      BY <1>9, <2>4 DEF Spent
    <3>2. Books!PayAgain(j)
      BY <1>5, <1>7, <2>1, <2>2, <2>3, <3>1 DEF Books!PayAgain, Books!Entered
    <3> QED
      BY <1>8, <2>4, <3>2 DEF Books!Next
  <2>5. CASE j \notin Payers
    <3>1. Books!Credit(j)
      BY <1>5, <1>7, <2>1, <2>2, <2>3 DEF Books!Credit, Books!Entered
    <3> QED
      BY <1>8, <2>5, <3>1 DEF Books!Next
  <2> QED
    BY <2>4, <2>5
<1>10. CASE added[j][c] = NoRow /\ added[j][d] # NoRow
  <2>1. Flushed(j) = -Amount[j]
    BY <1>1, <1>4, <1>6, <1>10 DEF Flushed
  <2>2. ledger' = [ledger EXCEPT ![d] = Books!DebitRow(j)]
    BY <1>1, <1>2, <1>3, <1>4, <1>10
  <2>3. ledger[d] = NoRow
    BY <1>1, <1>3, <1>10
  <2>4. j \notin Payers
    BY <1>10, <2>3 DEF Spent, Posted
  <2>5. Books!Buy(j)
    BY <1>5, <1>7, <2>1, <2>2, <2>3 DEF Books!Buy, Books!Entered
  <2> QED
    BY <1>8, <2>4, <2>5 DEF Books!Next
<1>11. CASE added[j][c] # NoRow /\ added[j][d] # NoRow
  <2>1. Flushed(j) = 0
    BY <1>1, <1>4, <1>6, <1>11 DEF Flushed
  <2>2. ledger' = [ledger EXCEPT ![c] = Books!CreditRow(j), ![d] = Books!DebitRow(j)]
    BY <1>1, <1>2, <1>3, <1>4, <1>11
  <2>3. ledger[c] = NoRow /\ ledger[d] = NoRow
    BY <1>1, <1>3, <1>11
  <2>4. j \in Payers
    <3>1. Passed(j, "credit") /\ Passed(j, "debit")
      BY <1>1, <1>11 DEF Inv, AddedIsOwn
    <3> QED
      BY <3>1, OthersProgram DEF Inv
  <2>5. Books!Pay(j)
    BY <1>5, <1>7, <2>1, <2>2, <2>3 DEF Books!Pay, Books!Entered
  <2> QED
    BY <1>8, <2>4, <2>5 DEF Books!Next
<1>12. added[j][c] # NoRow \/ added[j][d] # NoRow
  BY <1>3 DEF Wrote
<1> QED
  BY <1>9, <1>10, <1>11, <1>12

\* every step is an entry of the books, or leaves them alone
LEMMA NextKeepsBooks ==
    ASSUME Inv, Spent, Posted, Founded, [Next]_vars
    PROVE  [Books!Next]_(Books!vars)
<1>1. ASSUME UNCHANGED committed
      PROVE  UNCHANGED Books!vars
  BY <1>1 DEF committed, Books!vars
<1>2. CASE UNCHANGED vars
  BY <1>1, <1>2 DEF vars, committed
<1>3. ASSUME NEW j \in Jobs, Commit(j)
      PROVE  Books!Next \/ UNCHANGED committed
  <2>1. Publish(j) /\ pc[j] = Len(Program[Kind[j]])
    BY <1>3 DEF Commit
  <2>2. j \in Payers => Passed(j, "credit") /\ Passed(j, "debit")
    BY <2>1, PayersProgram DEF Inv
  <2> QED
    BY <2>1, <2>2, CommitIsEntry DEF Publish
<1>4. ASSUME NEW j \in Jobs, Short(j)
      PROVE  UNCHANGED committed
  <2>1. Publish(j) /\ AtStep(j, "debit") /\ TypeOK /\ WithinProgram
    BY <1>4 DEF Short, Inv
  <2>2. j \notin Payers
    BY <1>4, <2>1, PayerIsNotShort
  <2>3. ~Passed(j, "credit") /\ ~Passed(j, "debit")
    BY <2>1, <2>2, OthersProgram, StepsInOrder
  <2>4. ~Wrote(j)
    BY <2>3 DEF Wrote, Inv, AddedIsOwn
  <2> QED
    BY <2>1, <2>4 DEF Publish
<1>5. ASSUME NEW j \in Jobs, Forward(j) \/ Rollback(j), ~Commit(j), ~Short(j)
      PROVE  UNCHANGED committed
  BY <1>5 DEF Forward, LockGuard, LockPromo, LoadUser, LockUser, Credit, Debit, Change,
              Return, Rollback
<1> QED
  BY <1>1, <1>2, <1>3, <1>4, <1>5 DEF Next

\* The transactions of the wallet, with their stale reads, their locks, their failures and
\* their deadlocks, do nothing but enter each row once and as it was asked for, a payment
\* together with its purchase, within the balance, and move the balance by these rows until
\* two transactions of one user overlap.
THEOREM KeepsBooks == Spec => ImplementsBookkeeping
<1>1. Init => Books!Init
  <2> SUFFICES ASSUME Init PROVE Books!Init
    OBVIOUS
  <2>1. Users \ overtaken = Users
    BY DEF Init
  <2> QED
    BY <2>1 DEF Init, NoRow, Books!Init, Books!NoRow
<1>2. Init => Posted
  <2> SUFFICES ASSUME Init PROVE Posted
    OBVIOUS
  <2>1. \A j \in Jobs : CreditKey[j] \in Keys /\ DebitKey[j] \in Keys /\ pc[j] = 0
    BY WalletAssumption DEF Init
  <2>2. \A j \in Jobs : ~Passed(j, "credit")
    BY <2>1 DEF Passed
  <2> QED
    BY <2>1, <2>2 DEF Init, Posted
<1>3. Init => Founded
  BY DEF Init, Founded, Loaded
<1>4. Inv /\ Spent /\ Posted /\ Founded /\ [Next]_vars => [Books!Next]_(Books!vars)
  BY NextKeepsBooks
<1> QED
  BY <1>1, <1>2, <1>3, <1>4, InitSpent, NextSpent, NextPosted, NextFounded, AlwaysInv, PTL
     DEF Spec, ImplementsBookkeeping, Books!Spec
=============================================================================
