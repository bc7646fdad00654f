--------------------------- MODULE JourneysProofs ---------------------------
(***************************************************************************)
(* Theorems about Journeys, for any contacts and operations, any plans of  *)
(* the three types and any number of launches and faults.                  *)
(***************************************************************************)
EXTENDS Journeys, FiniteSetTheorems, SequenceTheorems, TLAPS

-----------------------------------------------------------------------------
(* The sequences of contacts that operations work through.                 *)

LEMMA Emptied == ToSet(<<>>) = {} /\ Distinct(<<>>) /\ <<>> \in Seq(Contact)
BY DEF ToSet, Distinct

\* The elements of a sequence of contacts.
LEMMA Elements ==
    ASSUME NEW s \in Seq(Contact)
    PROVE  /\ ToSet(s) = {s[i] : i \in 1..Len(s)}
           /\ ToSet(s) \subseteq Contact
BY DEF ToSet

\* The first contact and the others.
LEMMA FirstAndOthers ==
    ASSUME NEW s \in Seq(Contact), s # <<>>
    PROVE  /\ Head(s) \in Contact /\ Tail(s) \in Seq(Contact)
           /\ ToSet(s) = {Head(s)} \cup ToSet(Tail(s))
           /\ Distinct(s) => Distinct(Tail(s)) /\ Head(s) \notin ToSet(Tail(s))
<1>1. /\ Head(s) \in Contact /\ Head(s) = s[1] /\ Tail(s) \in Seq(Contact)
      /\ Len(s) \in Nat \ {0} /\ Len(Tail(s)) = Len(s) - 1
      /\ \A i \in 1..Len(Tail(s)) : Tail(s)[i] = s[i + 1]
  BY HeadTailProperties, LenProperties, EmptySeq
<1>2. ToSet(s) = {s[i] : i \in 1..Len(s)} /\ ToSet(Tail(s)) = {Tail(s)[i] : i \in 1..Len(Tail(s))}
  BY <1>1, Elements
<1>3. ToSet(s) \subseteq {Head(s)} \cup ToSet(Tail(s))
  <2> SUFFICES ASSUME NEW i \in 1..Len(s) PROVE s[i] \in {Head(s)} \cup ToSet(Tail(s))
    BY <1>2
  <2>1. CASE i = 1
    BY <2>1, <1>1
  <2>2. CASE i # 1
    <3>1. i - 1 \in 1..Len(Tail(s)) /\ Tail(s)[i - 1] = s[(i - 1) + 1] /\ (i - 1) + 1 = i
      BY <2>2, <1>1
    <3> QED
      BY <3>1, <1>2
  <2> QED
    BY <2>1, <2>2
<1>4. {Head(s)} \cup ToSet(Tail(s)) \subseteq ToSet(s)
  <2>1. Head(s) \in ToSet(s)
    BY <1>1, <1>2
  <2>2. \A i \in 1..Len(Tail(s)) : i + 1 \in 1..Len(s)
    BY <1>1
  <2> QED
    BY <2>1, <2>2, <1>1, <1>2
<1>5. ASSUME Distinct(s) PROVE Distinct(Tail(s)) /\ Head(s) \notin ToSet(Tail(s))
  <2>1. \A i, j \in 1..Len(Tail(s)) : i + 1 \in 1..Len(s) /\ (i + 1 = j + 1 => i = j)
    BY <1>1
  <2>2. \A i \in 1..Len(Tail(s)) : Tail(s)[i] # s[1]
    <3> SUFFICES ASSUME NEW i \in 1..Len(Tail(s)), Tail(s)[i] = s[1] PROVE FALSE
      OBVIOUS
    <3>1. i + 1 \in 1..Len(s) /\ 1 \in 1..Len(s) /\ s[i + 1] = s[1] /\ i + 1 # 1
      BY <1>1
    <3> QED
      BY <3>1, <1>5 DEF Distinct
  <2>3. Distinct(Tail(s))
    <3> SUFFICES ASSUME NEW i \in 1..Len(Tail(s)), NEW j \in 1..Len(Tail(s)),
                        Tail(s)[i] = Tail(s)[j]
                 PROVE  i = j
      BY DEF Distinct
    <3>1. s[i + 1] = s[j + 1] /\ i + 1 \in 1..Len(s) /\ j + 1 \in 1..Len(s)
      BY <1>1
    <3>2. i + 1 = j + 1
      BY <3>1, <1>5 DEF Distinct
    <3> QED
      BY <3>2
  <2> QED
    BY <2>2, <2>3, <1>1, <1>2
<1> QED
  BY <1>1, <1>3, <1>4, <1>5

\* The whole audience, in some order.
LEMMA Audience ==
    ASSUME NEW s \in SetToSeqs(Contact)
    PROVE  s \in Seq(Contact) /\ s # <<>> /\ Distinct(s) /\ ToSet(s) = Contact
<1> DEFINE D == 1..Cardinality(Contact)
<1>1. /\ Cardinality(Contact) \in Nat /\ Cardinality(Contact) # 0
      /\ IsFiniteSet(D) /\ Cardinality(D) = Cardinality(Contact)
  <2>1. Cardinality(Contact) \in Nat /\ Cardinality(Contact) # 0
    BY FiniteSets, SomeContact, FS_CardinalityType, FS_EmptySet
  <2>2. /\ IsFiniteSet(1..Cardinality(Contact))
        /\ Cardinality(1..Cardinality(Contact)) =
              IF 1 > Cardinality(Contact) THEN 0 ELSE Cardinality(Contact) - 1 + 1
    BY <2>1, FS_Interval
  <2> QED
    BY <2>1, <2>2
<1>2. s \in [D -> Contact] /\ \A i, j \in D : i # j => s[i] # s[j]
  BY DEF SetToSeqs
<1>3. s \in Seq(Contact) /\ Len(s) = Cardinality(Contact) /\ s # <<>>
  BY <1>1, <1>2
<1>4. s \in Injection(D, Contact)
  BY <1>2 DEF Injection, IsInjective
<1>5. s \in Surjection(D, Contact)
  BY <1>1, <1>4, FiniteSets, FS_Injection
<1>6. \A c \in Contact : \E i \in D : s[i] = c
  BY <1>5 DEF Surjection
<1>7. ToSet(s) = Contact
  BY <1>2, <1>3, <1>6, Elements
<1>8. Distinct(s)
  BY <1>2, <1>3 DEF Distinct
<1> QED
  BY <1>3, <1>7, <1>8

\* A slice and what is left share out a sequence between them.
LEMMA Sliced ==
    ASSUME NEW s \in Seq(Contact), NEW share \in Nat, Distinct(s)
    PROVE  LET slice == SubSeq(s, 1, IF share < Len(s) THEN share ELSE Len(s))
               left == SubSeq(s, share + 1, Len(s))
           IN  /\ slice \in Seq(Contact) /\ left \in Seq(Contact)
               /\ Distinct(slice) /\ Distinct(left)
               /\ ToSet(slice) \cap ToSet(left) = {}
               /\ ToSet(slice) \cup ToSet(left) = ToSet(s)
               /\ share >= Len(s) => left = <<>>
<1> DEFINE m == IF share < Len(s) THEN share ELSE Len(s)
           slice == SubSeq(s, 1, m)
           left == SubSeq(s, share + 1, Len(s))
<1>1. Len(s) \in Nat /\ m \in 0..Len(s) /\ m <= share /\ (m # share => m = Len(s))
  BY LenProperties
<1>2. \A i \in 1..Len(s) : s[i] \in Contact
  BY ElementOfSeq
<1>3. /\ slice \in Seq(Contact) /\ Len(slice) = m
      /\ \A i \in 1..m : slice[i] = s[i]
  <2>1. \A i \in 1..m : s[i] \in Contact
    BY <1>1, <1>2
  <2> QED
    BY <2>1, <1>1, SubSeqProperties
<1>4. /\ left \in Seq(Contact) /\ Len(left) = Len(s) - m
      /\ \A i \in 1..Len(s) - m : left[i] = s[m + i]
      /\ share >= Len(s) => left = <<>>
  <2>1. \A i \in (share + 1)..Len(s) : s[i] \in Contact
    BY <1>1, <1>2
  <2>2. /\ left \in Seq(Contact)
        /\ Len(left) = IF share + 1 <= Len(s) THEN Len(s) - (share + 1) + 1 ELSE 0
        /\ \A i \in 1..Len(s) - (share + 1) + 1 : left[i] = s[(share + 1) + i - 1]
    BY <2>1, <1>1, SubSeqProperties
  <2>3. share >= Len(s) => left = <<>>
    BY <1>1, SubSeqEmpty
  <2>4. CASE share < Len(s)
    <3>1. \A i \in 1..Len(s) - m : (share + 1) + i - 1 = m + i
      BY <1>1, <2>4
    <3> QED
      BY <2>2, <2>4, <3>1, <1>1
  <2>5. CASE share >= Len(s)
    BY <2>2, <2>3, <2>5, <1>1
  <2> QED
    BY <1>1, <2>4, <2>5
<1> HIDE DEF m, slice, left
<1>5. Distinct(slice) /\ Distinct(left)
  <2>1. Distinct(slice)
    BY <1>1, <1>3 DEF Distinct
  <2>2. \A i \in 1..Len(left) : m + i \in 1..Len(s)
    BY <1>1, <1>4
  <2>3. \A i, j \in 1..Len(left) : m + i = m + j => i = j
    BY <1>1, <1>4
  <2>4. Distinct(left)
    BY <1>4, <2>2, <2>3 DEF Distinct
  <2> QED
    BY <2>1, <2>4
<1>6. /\ ToSet(slice) = {s[i] : i \in 1..m}
      /\ ToSet(left) = {s[m + i] : i \in 1..Len(s) - m}
      /\ ToSet(s) = {s[i] : i \in 1..Len(s)}
  BY <1>3, <1>4, Elements
<1>7. ToSet(slice) \cap ToSet(left) = {}
  <2> SUFFICES ASSUME NEW i \in 1..m, NEW j \in 1..Len(s) - m, s[i] = s[m + j] PROVE FALSE
    BY <1>6
  <2>1. i \in 1..Len(s) /\ m + j \in 1..Len(s) /\ i # m + j
    BY <1>1
  <2> QED
    BY <2>1 DEF Distinct
<1>8. ToSet(slice) \cup ToSet(left) = ToSet(s)
  <2>1. \A i \in 1..Len(s) : i \in 1..m \/ (i - m \in 1..Len(s) - m /\ m + (i - m) = i)
    BY <1>1
  <2>2. \A i \in 1..Len(s) - m : m + i \in 1..Len(s)
    BY <1>1
  <2>3. 1..m \subseteq 1..Len(s)
    BY <1>1
  <2>4. ToSet(s) \subseteq ToSet(slice) \cup ToSet(left)
    <3> SUFFICES ASSUME NEW i \in 1..Len(s) PROVE s[i] \in ToSet(slice) \cup ToSet(left)
      BY <1>6
    <3> QED
      BY <2>1, <1>6
  <2> QED
    BY <2>2, <2>3, <2>4, <1>6
<1> QED
  BY <1>3, <1>4, <1>5, <1>7, <1>8 DEF slice, left, m

-----------------------------------------------------------------------------
(* Types, and the course of each kind of operation.                        *)

\* An operation moves and the others stay where they are.
OthersStay(o) ==
    /\ op' \in [Op -> OpRecord]
    /\ \A p \in Op : p # o => op'[p] = op[p]

LEMMA FreeOpIsRecord ==
    /\ FreeOp \in OpRecord
    /\ NoProgress \in Progress
BY Emptied DEF FreeOp, OpRecord, NoProgress, Progress, Kind, PC

LEMMA LaunchBoundIsNat == ASSUME TypeOK PROVE plan.maxLaunches \in Nat
BY PlansAreSound DEF TypeOK, PlanRecord

LEMMA Written ==
    ASSUME TypeOK, NEW o \in Op, NEW r \in OpRecord, op' = [op EXCEPT ![o] = r]
    PROVE  OthersStay(o) /\ op'[o] = r
BY DEF TypeOK, OthersStay

LEMMA Gone ==
    ASSUME TypeOK, NEW o \in Op, NEW pc \in PC, Goto(o, pc)
    PROVE  /\ OthersStay(o) /\ op'[o] = [op[o] EXCEPT !.pc = pc]
           /\ op'[o].pc = pc /\ op'[o].kind = op[o].kind
           /\ op'[o].todo = op[o].todo /\ op'[o].rest = op[o].rest
           /\ op'[o].step = op[o].step /\ op'[o].read = op[o].read /\ op'[o].idle = op[o].idle
<1>1. op[o] \in OpRecord
  BY DEF TypeOK
<1>2. [op[o] EXCEPT !.pc = pc] \in OpRecord
  BY <1>1 DEF OpRecord
<1>3. op' = [op EXCEPT ![o] = [op[o] EXCEPT !.pc = pc]]
  BY DEF Goto
<1>4. OthersStay(o) /\ op'[o] = [op[o] EXCEPT !.pc = pc]
  BY <1>2, <1>3, Written
<1> QED
  BY <1>1, <1>4 DEF OpRecord

LEMMA Finished ==
    ASSUME TypeOK, NEW o \in Op, Finish(o)
    PROVE  /\ OthersStay(o)
           /\ op'[o].kind = op[o].kind /\ op'[o].pc = "done"
           /\ op'[o].todo = <<>> /\ op'[o].rest = <<>>
           /\ op'[o].step = 0 /\ op'[o].read = NoProgress /\ op'[o].idle
<1>1. op[o].kind \in Kind
  BY DEF TypeOK, OpRecord
<1>2. [FreeOp EXCEPT !.kind = op[o].kind, !.pc = "done"] \in OpRecord
  BY <1>1, FreeOpIsRecord DEF OpRecord, PC
<1>3. /\ OthersStay(o)
      /\ op'[o] = [FreeOp EXCEPT !.kind = op[o].kind, !.pc = "done"]
  BY <1>2, Written DEF Finish
<1> QED
  BY <1>3 DEF FreeOp

LEMMA Begun ==
    ASSUME TypeOK, NEW o \in Op, NEW kind \in Kind, NEW pc \in PC, NEW todo \in Seq(Contact),
           Begin(o, kind, pc, todo)
    PROVE  /\ OthersStay(o)
           /\ op'[o].kind = kind /\ op'[o].pc = pc /\ op'[o].todo = todo
           /\ op'[o].step = 0 /\ op'[o].read = NoProgress /\ op'[o].idle
<1> DEFINE new == [FreeOp EXCEPT !.kind = kind, !.pc = pc, !.todo = todo]
<1>1. new \in OpRecord
  BY FreeOpIsRecord DEF OpRecord
<1>2. op'[o] = new /\ OthersStay(o)
  BY <1>1, Written DEF Begin
<1> QED
  BY <1>2 DEF FreeOp

\* An operation that finishes, from wherever it is, keeps the shape of its kind.
LEMMA FinishedShape ==
    ASSUME Shapes, NEW o \in Op, op[o].pc # "free", Finish(o), plan' = plan
    PROVE  OthersStay(o) /\ OpShape(o)'
<1>1. OthersStay(o) /\ op'[o].kind = op[o].kind /\ op'[o].pc = "done"
  BY Finished DEF Shapes
<1>2. OpShape(o)
  BY DEF Shapes
<1> QED
  BY <1>1, <1>2 DEF OpShape, Course

\* The kinds of operation that stop at an await.
LEMMA Kinds ==
    ASSUME Shapes, NEW o \in Op
    PROVE  /\ op[o].pc \in {"nextVariant", "queueNext"} => op[o].kind = "launchAb"
           /\ op[o].pc = "run" => op[o].kind \in {"launchAb", "launchDrip", "activate"}
           /\ op[o].pc \in {"enroll", "meta"} => op[o].kind = "launchDrip"
           /\ op[o].pc \in {"queueStep", "readNext", "writeNext"} =>
                  op[o].kind \in {"launchDrip", "stepCompleted"}
           /\ op[o].pc \in {"progress", "complete", "advance", "again", "scan"} =>
                  op[o].kind = "stepCompleted"
           /\ op[o].pc = "remove" => op[o].kind = "remove"
           /\ op[o].pc \in {"setKey", "list"} => op[o].kind = "activate"
           /\ op[o].pc \in {"delKey", "unlist", "pause"} => op[o].kind = "deactivate"
           /\ op[o].pc \in {"config", "cooldown", "count", "fire", "sentCount", "cool", "incr"} =>
                  op[o].kind = "evaluate"
<1>1. op[o].kind \in Kind /\ OpShape(o)
  BY DEF Shapes, TypeOK, OpRecord
<1> QED
  BY <1>1 DEF OpShape, Course, Kind

\* What a variant is rounded to.
LEMMA SharesAreNat ==
    ASSUME TypeOK, plan.type = "AB", NEW i \in Nat, i < Len(plan.split) - 1
    PROVE  Rounded(plan.split[i + 1]) \subseteq Nat
<1>1. Size \in Nat
  BY FiniteSets, FS_CardinalityType DEF Size
<1>2. plan.split[i + 1] \in 0..100
  <2>1. plan.split \in Seq(0..100) /\ Len(plan.split) > 1
    BY PlansAreSound DEF TypeOK, PlanRecord
  <2>2. Len(plan.split) \in Nat
    BY <2>1, LenProperties
  <2>3. i + 1 \in 1..Len(plan.split)
    BY <2>2
  <2> QED
    BY <2>1, <2>3, ElementOfSeq
<1>3. \A pct \in 0..100 : (pct * Size) \div 100 \in Nat
  <2> SUFFICES ASSUME NEW pct \in 0..100 PROVE (pct * Size) \div 100 \in Nat
    OBVIOUS
  <2>1. pct * Size \in Nat
    BY <1>1
  <2> QED
    BY <2>1
<1> DEFINE low == (plan.split[i + 1] * Size) \div 100
<1>4. low \in Nat
  BY <1>2, <1>3
<1>5. Rounded(plan.split[i + 1]) \subseteq {low, low + 1}
  BY DEF Rounded
<1> QED
  BY <1>4, <1>5

\* What the queue does with a message.
LEMMA Added ==
    ASSUME TypeOK, NEW c \in Contact, AddMessage(c)
    PROVE  /\ queued' \in [Contact -> Nat] /\ merged' \subseteq Contact
           /\ merged \subseteq merged'
           /\ \A d \in Contact : d # c => queued'[d] = queued[d]
           /\ queued'[c] = queued[c] + 1 \/ (queued' = queued /\ merged' = merged \cup {c})
           /\ c \notin merged' => queued'[c] = queued[c] + 1 /\ merged' = merged
BY DEF TypeOK, AddMessage

\* The steps of one operation, and what they leave of the shapes.
ShapeStep(o) ==
    /\ OthersStay(o) /\ OpShape(o)'
    /\ plan' = plan

LEMMA AbStepsKeepShape ==
    ASSUME Shapes, NEW o \in Op,
           LaunchAbTest(o) \/ NextVariant(o) \/ QueueVariant(o) \/ MarkRunning(o)
    PROVE  ShapeStep(o) /\ TypeOK'
<1> USE DEF Shapes
<1>0. TypeOK /\ OpShape(o) /\ op[o] \in OpRecord
  BY DEF TypeOK
<1>1. ASSUME LaunchAbTest(o) PROVE ShapeStep(o) /\ TypeOK'
  <2>1. PICK shuffled \in SetToSeqs(Contact) :
            op' = [op EXCEPT ![o] = [FreeOp EXCEPT !.kind = "launchAb", !.pc = "nextVariant",
                                         !.rest = shuffled]]
    BY <1>1 DEF LaunchAbTest
  <2>2. shuffled \in Seq(Contact)
    BY Audience
  <2>3. [FreeOp EXCEPT !.kind = "launchAb", !.pc = "nextVariant", !.rest = shuffled] \in OpRecord
    BY <2>2, FreeOpIsRecord DEF OpRecord, Kind, PC
  <2>4. OthersStay(o) /\ op'[o] = [FreeOp EXCEPT !.kind = "launchAb", !.pc = "nextVariant",
                                       !.rest = shuffled]
    BY <2>1, <2>3, <1>0, Written
  <2>5. op'[o].kind = "launchAb" /\ op'[o].pc = "nextVariant" /\ plan' = plan /\ plan.type = "AB"
    BY <2>4, <1>1 DEF FreeOp, LaunchAbTest, row
  <2>6. OpShape(o)'
    BY <2>5 DEF OpShape, Course
  <2>7. TypeOK'
    <3>1. /\ UNCHANGED <<plan, status, sentCount, queued, progress, awaiting, meta, trigger,
                         cooling, count, deleted, skipped, merged, clobbered, overlapped, faults>>
          /\ launches < plan.maxLaunches /\ launches' = launches + 1
      BY <1>1 DEF LaunchAbTest, row, drip, trig, queue, people
    <3>2. launches' \in 0..plan.maxLaunches
      BY <1>0, <3>1, LaunchBoundIsNat DEF TypeOK
    <3> QED
      BY <1>0, <3>1, <3>2, <2>4 DEF TypeOK, OthersStay
  <2> QED
    BY <2>4, <2>5, <2>6, <2>7 DEF ShapeStep
<1>2. ASSUME NextVariant(o) PROVE ShapeStep(o) /\ TypeOK'
  <2>0. /\ UNCHANGED <<row, drip, trig, queue, launches, faults>>
        /\ op[o].pc = "nextVariant"
        /\ op[o].kind = "launchAb" /\ plan.type = "AB"
    BY <1>0, <1>2, Kinds DEF NextVariant, At, OpShape, Course
  <2>1. CASE Goto(o, "run")
    <3>1. OthersStay(o) /\ op'[o] = [op[o] EXCEPT !.pc = "run"]
      BY <2>1, <1>0, Gone DEF PC
    <3>2. op'[o].kind = "launchAb" /\ op'[o].pc = "run" /\ plan' = plan
      BY <3>1, <2>0, <1>0 DEF OpRecord, row
    <3>3. OpShape(o)'
      BY <3>2, <2>0 DEF OpShape, Course
    <3>4. TypeOK'
      BY <1>0, <2>0, <3>1 DEF TypeOK, OthersStay, row, drip, trig, queue, people
    <3> QED
      BY <3>1, <3>2, <3>3, <3>4 DEF ShapeStep
  <2>2. ASSUME NEW share \in Nat, Slice(o, share) PROVE ShapeStep(o) /\ TypeOK'
    <3> DEFINE slice == SubSeq(op[o].rest, 1, IF share < Len(op[o].rest) THEN share
                                              ELSE Len(op[o].rest))
               left == SubSeq(op[o].rest, share + 1, Len(op[o].rest))
               new == [op[o] EXCEPT !.pc = "queueNext", !.step = @ + 1, !.todo = slice,
                                    !.rest = left]
    <3>1. slice \in Seq(Contact) /\ left \in Seq(Contact)
      BY <1>0 DEF OpRecord
    <3> HIDE DEF slice, left
    <3>2. new \in OpRecord
      <4>1. "queueNext" \in PC /\ op[o].step + 1 \in Nat
        BY <1>0 DEF OpRecord, PC
      <4> QED
        BY <4>1, <3>1, <1>0 DEF OpRecord
    <3>3. op' = [op EXCEPT ![o] = new]
      BY <2>2 DEF Slice, slice, left
    <3>4. OthersStay(o) /\ op'[o] = new
      BY <3>2, <3>3, <1>0, Written
    <3>5. op'[o].kind = "launchAb" /\ op'[o].pc = "queueNext" /\ plan' = plan
      BY <3>4, <2>0, <1>0 DEF OpRecord, row
    <3>6. OpShape(o)'
      BY <3>5, <2>0 DEF OpShape, Course
    <3>7. TypeOK'
      BY <1>0, <2>0, <3>4 DEF TypeOK, OthersStay, row, drip, trig, queue, people
    <3> QED
      BY <3>4, <3>5, <3>6, <3>7 DEF ShapeStep
  <2> QED
    <3>1. Len(op[o].rest) \in Nat /\ op[o].step \in Nat
      BY <1>0, LenProperties DEF OpRecord
    <3>2. CASE op[o].step = Len(plan.split) - 1 /\ Slice(o, Len(op[o].rest))
      BY <3>1, <3>2, <2>2
    <3>3. ASSUME op[o].step < Len(plan.split) - 1,
                 NEW share \in Rounded(plan.split[op[o].step + 1]), Slice(o, share)
          PROVE  ShapeStep(o) /\ TypeOK'
      <4>1. share \in Nat
        BY <3>1, <3>3, <2>0, <1>0, SharesAreNat
      <4> QED
        BY <4>1, <3>3, <2>2
    <3> QED
      BY <1>2, <2>1, <3>2, <3>3 DEF NextVariant
<1>3. ASSUME QueueVariant(o) PROVE ShapeStep(o) /\ TypeOK'
  <2>0. /\ UNCHANGED <<row, drip, trig, launches, faults>>
        /\ op[o].pc = "queueNext" /\ op[o].kind = "launchAb" /\ plan.type = "AB"
    BY <1>0, <1>3, Kinds DEF QueueVariant, At, OpShape, Course
  <2>1. CASE Goto(o, "nextVariant") /\ UNCHANGED queue
    <3>1. OthersStay(o) /\ op'[o] = [op[o] EXCEPT !.pc = "nextVariant"]
      BY <2>1, <1>0, Gone DEF PC
    <3>2. op'[o].kind = "launchAb" /\ op'[o].pc = "nextVariant" /\ plan' = plan
      BY <3>1, <2>0, <1>0 DEF OpRecord, row
    <3>3. OpShape(o)'
      BY <3>2, <2>0 DEF OpShape, Course
    <3>4. TypeOK'
      BY <1>0, <2>0, <2>1, <3>1 DEF TypeOK, OthersStay, row, drip, trig, queue, people
    <3> QED
      BY <3>1, <3>2, <3>3, <3>4 DEF ShapeStep
  <2>2. CASE op[o].todo # <<>> /\ AddMessage(Who(o)) /\ op' = [op EXCEPT ![o].todo = Tail(@)]
    <3>1. Who(o) \in Contact /\ Tail(op[o].todo) \in Seq(Contact)
      BY <2>2, <1>0, FirstAndOthers DEF OpRecord, Who
    <3>2. OthersStay(o) /\ op'[o] = [op[o] EXCEPT !.todo = Tail(op[o].todo)]
      <4>1. [op[o] EXCEPT !.todo = Tail(op[o].todo)] \in OpRecord
        BY <3>1, <1>0 DEF OpRecord
      <4> QED
        BY <4>1, <2>2, <1>0, Written
    <3>3. op'[o].kind = "launchAb" /\ op'[o].pc = "queueNext" /\ plan' = plan
      BY <3>2, <2>0, <1>0 DEF OpRecord, row
    <3>4. OpShape(o)'
      BY <3>3, <2>0 DEF OpShape, Course
    <3>5. queued' \in [Contact -> Nat] /\ merged' \subseteq Contact
      BY <2>2, <3>1, <1>0, Added
    <3>6. TypeOK'
      BY <1>0, <2>0, <3>2, <3>5 DEF TypeOK, OthersStay, row, drip, trig, people
    <3> QED
      BY <3>2, <3>3, <3>4, <3>6 DEF ShapeStep
  <2> QED
    BY <1>3, <2>1, <2>2 DEF QueueVariant
<1>4. ASSUME MarkRunning(o) PROVE ShapeStep(o) /\ TypeOK'
  <2>1. /\ UNCHANGED <<plan, sentCount, drip, trig, queue, launches, faults>>
        /\ op[o].pc = "run" /\ status' = "RUNNING" /\ Finish(o)
    BY <1>4 DEF MarkRunning, At
  <2>2. OthersStay(o) /\ OpShape(o)'
    BY <2>1, FinishedShape
  <2>3. TypeOK'
    BY <1>0, <2>1, <2>2 DEF TypeOK, OthersStay, drip, trig, queue, people
  <2> QED
    BY <2>1, <2>2, <2>3 DEF ShapeStep
<1> QED
  BY <1>1, <1>2, <1>3, <1>4

\* A write of a contact's progress.
LEMMA ProgressWritten ==
    ASSUME TypeOK, NEW o \in Op, Who(o) \in Contact, NEW value \in Progress,
           WriteProgress(o, value)
    PROVE  /\ progress' \in [Contact -> Progress] /\ clobbered' \subseteq Contact
           /\ clobbered \subseteq clobbered'
           /\ progress'[Who(o)] = value
           /\ \A c \in Contact : c # Who(o) => progress'[c] = progress[c]
           /\ Who(o) \in clobbered' \/ progress[Who(o)] = op[o].read
BY DEF TypeOK, WriteProgress

LEMMA LaunchDripKeepsShape ==
    ASSUME Shapes, NEW o \in Op, LaunchDrip(o)
    PROVE  ShapeStep(o) /\ TypeOK'
<1>1. PICK contacts \in SetToSeqs(Contact) : Begin(o, "launchDrip", "enroll", contacts)
  BY DEF LaunchDrip
<1>2. contacts \in Seq(Contact) /\ "launchDrip" \in Kind /\ "enroll" \in PC
  BY Audience DEF Kind, PC
<1>3. /\ OthersStay(o)
      /\ op'[o].kind = "launchDrip" /\ op'[o].pc = "enroll"
  <2>1. TypeOK
    BY DEF Shapes
  <2> QED
    BY <1>1, <1>2, <2>1, Begun
<1>5. /\ UNCHANGED <<plan, status, sentCount, queued, progress, awaiting, meta, trigger,
                     cooling, count, deleted, skipped, merged, clobbered, overlapped, faults>>
      /\ launches < plan.maxLaunches /\ launches' = launches + 1 /\ plan.type = "DRIP"
  BY DEF LaunchDrip, row, drip, trig, queue, people
<1>6. OpShape(o)'
  BY <1>3, <1>5 DEF OpShape, Course
<1>7. launches' \in 0..plan.maxLaunches
  BY <1>5, LaunchBoundIsNat DEF Shapes, TypeOK
<1>8. TypeOK'
  BY <1>5, <1>7, <1>3 DEF Shapes, TypeOK, OthersStay
<1> QED
  BY <1>3, <1>5, <1>6, <1>8 DEF ShapeStep

\* The steps of a drip launch and of a completion that only move the operation on.
LEMMA EnrollKeepsShape ==
    ASSUME Shapes, NEW o \in Op, Enroll(o)
    PROVE  ShapeStep(o) /\ TypeOK'
<1>0. /\ TypeOK /\ OpShape(o) /\ op[o] \in OpRecord
      /\ op[o].pc = "enroll" /\ op[o].kind = "launchDrip" /\ plan.type = "DRIP"
      /\ UNCHANGED <<row, awaiting, meta, clobbered, trig, queue, launches, faults>>
  BY Kinds DEF Shapes, TypeOK, Enroll, At, OpShape, Course
<1>1. CASE op[o].todo = <<>> /\ Goto(o, "meta") /\ UNCHANGED progress
  <2>1. OthersStay(o) /\ op'[o] = [op[o] EXCEPT !.pc = "meta"]
    BY <1>1, <1>0, Gone DEF PC
  <2>2. op'[o].kind = "launchDrip" /\ op'[o].pc = "meta" /\ plan' = plan
    BY <2>1, <1>0 DEF OpRecord, row
  <2>3. OpShape(o)'
    BY <2>2, <1>0 DEF OpShape, Course
  <2>4. TypeOK'
    BY <1>0, <1>1, <2>1 DEF TypeOK, OthersStay, row, trig, queue, people
  <2> QED
    BY <2>1, <2>2, <2>3, <2>4 DEF ShapeStep
<1>2. CASE /\ op[o].todo # <<>>
           /\ progress' = [progress EXCEPT ![Who(o)] = [status |-> "active", step |-> 0]]
           /\ Goto(o, "queueStep")
  <2>1. OthersStay(o) /\ op'[o] = [op[o] EXCEPT !.pc = "queueStep"]
    BY <1>2, <1>0, Gone DEF PC
  <2>2. /\ op'[o].kind = "launchDrip" /\ op'[o].pc = "queueStep" /\ op'[o].todo = op[o].todo
        /\ plan' = plan
    BY <2>1, <1>0 DEF OpRecord, row
  <2>3. OpShape(o)'
    BY <2>2, <1>0, <1>2 DEF OpShape, Course
  <2>4. progress' \in [Contact -> Progress]
    BY <1>2, <1>0 DEF TypeOK, Progress
  <2>5. TypeOK'
    BY <1>0, <2>4, <2>1 DEF TypeOK, OthersStay, row, trig, queue, people
  <2> QED
    BY <2>1, <2>2, <2>3, <2>5 DEF ShapeStep
<1> QED
  BY <1>1, <1>2 DEF Enroll

\* A step that leaves the operation's kind, contacts and progress as they are.
LEMMA WentShape ==
    ASSUME Shapes, NEW o \in Op, NEW pc \in PC, Goto(o, pc), plan' = plan,
           op[o].pc \notin {"free", "done"},
           \/ op[o].kind = "launchAb" /\ pc \in {"nextVariant", "queueNext", "run"}
           \/ op[o].kind = "launchDrip" /\ pc \in {"enroll", "meta", "run"}
           \/ op[o].kind = "stepCompleted" /\ pc = "scan"
           \/ /\ op[o].kind = "launchDrip" /\ pc \in {"queueStep", "readNext", "writeNext"}
              /\ op[o].todo # <<>>
           \/ /\ op[o].kind = "stepCompleted" /\ op[o].todo # <<>>
              /\ pc \in {"progress", "complete", "advance", "queueStep", "readNext", "writeNext",
                         "again"}
           \/ op[o].kind = "activate" /\ pc \in {"setKey", "list", "run"}
           \/ op[o].kind = "deactivate" /\ pc \in {"delKey", "unlist", "pause"}
           \/ op[o].kind = "evaluate" /\ pc \in {"config", "cooldown", "count", "fire",
                                                 "sentCount", "cool", "incr"}
    PROVE  OthersStay(o) /\ OpShape(o)'
<1>1. TypeOK /\ OpShape(o)
  BY DEF Shapes
<1>2. /\ OthersStay(o)
      /\ op'[o].pc = pc /\ op'[o].kind = op[o].kind /\ op'[o].todo = op[o].todo
  BY <1>1, Gone
<1> QED
  BY <1>1, <1>2 DEF OpShape, Course

LEMMA WriteMetaKeepsShape ==
    ASSUME Shapes, NEW o \in Op, WriteMeta(o)
    PROVE  /\ ShapeStep(o) /\ TypeOK' /\ plan.type = "DRIP" /\ op[o].kind = "launchDrip"
           /\ op'[o] = [op[o] EXCEPT !.pc = "run"]
<1>0. /\ TypeOK /\ OpShape(o)
      /\ op[o].pc = "meta" /\ op[o].kind = "launchDrip" /\ plan.type = "DRIP"
      /\ UNCHANGED <<row, progress, awaiting, clobbered, trig, queue, launches, faults>>
      /\ meta' = "there" /\ Goto(o, "run") /\ plan' = plan
  BY Kinds DEF Shapes, WriteMeta, At, OpShape, Course, row
<1>1. OthersStay(o) /\ OpShape(o)' /\ op'[o] = [op[o] EXCEPT !.pc = "run"]
  BY <1>0, WentShape, Gone DEF PC
<1>2. TypeOK'
  BY <1>0, <1>1 DEF TypeOK, OthersStay, row, trig, queue, people
<1> QED
  BY <1>0, <1>1, <1>2 DEF ShapeStep

LEMMA QueueStepKeepsShape ==
    ASSUME Shapes, NEW o \in Op, QueueStep(o)
    PROVE  ShapeStep(o) /\ TypeOK' /\ Who(o) \in Contact /\ plan.type = "DRIP"
<1>0. /\ TypeOK /\ OpShape(o) /\ op[o] \in OpRecord
      /\ op[o].pc = "queueStep" /\ op[o].kind \in {"launchDrip", "stepCompleted"}
      /\ plan.type = "DRIP" /\ op[o].todo # <<>>
      /\ UNCHANGED <<row, progress, meta, clobbered, trig, launches, faults>>
      /\ AddMessage(Who(o)) /\ Goto(o, "readNext")
      /\ awaiting' = IF queued' = queued THEN awaiting
                     ELSE awaiting \cup {<<Who(o), op[o].step>>}
  BY Kinds DEF Shapes, TypeOK, QueueStep, At, OpShape, Course
<1>1. Who(o) \in Contact /\ op[o].step \in Nat
  BY <1>0, FirstAndOthers DEF OpRecord, Who
<1>2. queued' \in [Contact -> Nat] /\ merged' \subseteq Contact
  BY <1>0, <1>1, Added
<1>3. OthersStay(o) /\ OpShape(o)' /\ plan' = plan
  BY <1>0, WentShape DEF PC, row
<1>4. awaiting' \in SUBSET (Contact \X Nat)
  BY <1>0, <1>1 DEF TypeOK
<1>5. TypeOK'
  BY <1>0, <1>2, <1>3, <1>4 DEF TypeOK, OthersStay, row, trig, people
<1> QED
  BY <1>0, <1>1, <1>3, <1>5 DEF ShapeStep

LEMMA ReadNextKeepsShape ==
    ASSUME Shapes, NEW o \in Op, ReadNext(o)
    PROVE  /\ ShapeStep(o) /\ TypeOK' /\ Who(o) \in Contact /\ plan.type = "DRIP"
           /\ op'[o] = [op[o] EXCEPT !.pc = "writeNext", !.read = progress[Who(o)]]
<1>0. /\ TypeOK /\ OpShape(o) /\ op[o] \in OpRecord
      /\ op[o].pc = "readNext" /\ op[o].kind \in {"launchDrip", "stepCompleted"}
      /\ plan.type = "DRIP" /\ op[o].todo # <<>>
      /\ UNCHANGED <<row, drip, trig, queue, launches, faults>>
      /\ op' = [op EXCEPT ![o].pc = "writeNext", ![o].read = progress[Who(o)]]
  BY Kinds DEF Shapes, TypeOK, ReadNext, At, OpShape, Course
<1>1. Who(o) \in Contact /\ progress[Who(o)] \in Progress /\ "writeNext" \in PC
  BY <1>0, FirstAndOthers DEF OpRecord, Who, TypeOK, PC
<1> DEFINE new == [op[o] EXCEPT !.pc = "writeNext", !.read = progress[Who(o)]]
<1>2. new \in OpRecord
  BY <1>0, <1>1 DEF OpRecord
<1>3. OthersStay(o) /\ op'[o] = new
  <2>1. op' = [op EXCEPT ![o] = new]
    BY <1>0
  <2> QED
    BY <1>0, <1>2, <2>1, Written
<1>4. op'[o].kind = op[o].kind /\ op'[o].pc = "writeNext" /\ op'[o].todo = op[o].todo
  BY <1>0, <1>3 DEF OpRecord
<1>5. OpShape(o)' /\ plan' = plan
  BY <1>0, <1>4 DEF OpShape, Course, row
<1>6. TypeOK'
  BY <1>0, <1>3 DEF TypeOK, OthersStay, row, drip, trig, queue, people
<1> QED
  BY <1>0, <1>1, <1>3, <1>5, <1>6 DEF ShapeStep

LEMMA WriteNextKeepsShape ==
    ASSUME Shapes, NEW o \in Op, WriteNext(o)
    PROVE  ShapeStep(o) /\ TypeOK' /\ Who(o) \in Contact /\ plan.type = "DRIP"
<1>0. /\ TypeOK /\ OpShape(o) /\ op[o] \in OpRecord
      /\ op[o].pc = "writeNext" /\ op[o].kind \in {"launchDrip", "stepCompleted"}
      /\ plan.type = "DRIP" /\ op[o].todo # <<>>
      /\ UNCHANGED <<row, awaiting, meta, trig, queue, launches, faults>>
      /\ WriteProgress(o, op[o].read)
  BY Kinds DEF Shapes, TypeOK, WriteNext, At, OpShape, Course
<1>1. Who(o) \in Contact /\ op[o].read \in Progress /\ Tail(op[o].todo) \in Seq(Contact)
  BY <1>0, FirstAndOthers DEF OpRecord, Who
<1>2. progress' \in [Contact -> Progress] /\ clobbered' \subseteq Contact /\ plan' = plan
  BY <1>0, <1>1, ProgressWritten DEF row
<1>3. OthersStay(o) /\ OpShape(o)'
  <2>1. CASE Finish(o)
    BY <2>1, <1>0, <1>2, FinishedShape
  <2>2. CASE /\ op[o].kind = "launchDrip"
             /\ op' = [op EXCEPT ![o].pc = "enroll", ![o].todo = Tail(@)]
    <3> DEFINE new == [op[o] EXCEPT !.pc = "enroll", !.todo = Tail(op[o].todo)]
    <3>1. new \in OpRecord
      BY <1>0, <1>1 DEF OpRecord, PC
    <3>2. OthersStay(o) /\ op'[o] = new
      <4>1. op' = [op EXCEPT ![o] = new]
        BY <2>2
      <4> QED
        BY <1>0, <3>1, <4>1, Written
    <3>3. op'[o].kind = "launchDrip" /\ op'[o].pc = "enroll"
      BY <1>0, <2>2, <3>2 DEF OpRecord
    <3> QED
      BY <1>0, <1>2, <3>2, <3>3 DEF OpShape, Course
  <2> QED
    BY <2>1, <2>2 DEF WriteNext
<1>4. TypeOK'
  BY <1>0, <1>2, <1>3 DEF TypeOK, OthersStay, row, trig, queue, people
<1> QED
  BY <1>0, <1>1, <1>2, <1>3, <1>4 DEF ShapeStep

\* A reported step is one of a drip campaign, and its report begins an operation or is lost.
LEMMA OnStepCompletedKeepsShape ==
    ASSUME Shapes, NEW o \in Op, NEW a \in awaiting, OnStepCompleted(o, a[1], a[2])
    PROVE  /\ ShapeStep(o) /\ TypeOK' /\ plan.type = "DRIP" /\ a[1] \in Contact
           /\ \/ op' = op
              \/ /\ status = "RUNNING" /\ op[o].pc = "free"
                 /\ op'[o].kind = "stepCompleted" /\ op'[o].pc = "progress"
                 /\ op'[o].read = NoProgress /\ op'[o].idle
<1>0. /\ TypeOK /\ OpShape(o) /\ op[o] \in OpRecord
      /\ plan.type = "DRIP" /\ a[1] \in Contact /\ a[2] \in Nat
      /\ awaiting' = awaiting \ {<<a[1], a[2]>>}
      /\ UNCHANGED <<row, progress, meta, clobbered, trig, queue, launches, faults>>
  BY DEF Shapes, TypeOK, OnStepCompleted
<1>1. CASE op' = op
  <2>1. OthersStay(o) /\ OpShape(o)' /\ plan' = plan
    BY <1>0, <1>1 DEF TypeOK, OthersStay, OpShape, Course, row
  <2>2. TypeOK'
    BY <1>0, <1>1 DEF TypeOK, row, trig, queue, people
  <2> QED
    BY <1>0, <1>1, <2>1, <2>2 DEF ShapeStep
<1>2. CASE /\ status = "RUNNING" /\ op[o].pc = "free"
           /\ op' = [op EXCEPT ![o] = [FreeOp EXCEPT !.kind = "stepCompleted",
                                           !.pc = "progress", !.todo = <<a[1]>>, !.step = a[2]]]
  <2> DEFINE new == [FreeOp EXCEPT !.kind = "stepCompleted", !.pc = "progress",
                                   !.todo = <<a[1]>>, !.step = a[2]]
  <2>1. <<a[1]>> \in Seq(Contact) /\ <<a[1]>> # <<>> /\ "progress" \in PC
        /\ "stepCompleted" \in Kind
    BY <1>0 DEF PC, Kind
  <2>2. new \in OpRecord
    BY <2>1, <1>0, FreeOpIsRecord DEF OpRecord
  <2>3. OthersStay(o) /\ op'[o] = new
    BY <1>0, <1>2, <2>2, Written
  <2>4. /\ op'[o].kind = "stepCompleted" /\ op'[o].pc = "progress" /\ op'[o].todo = <<a[1]>>
        /\ op'[o].read = NoProgress /\ op'[o].idle
    BY <2>3 DEF FreeOp
  <2>5. OpShape(o)' /\ plan' = plan
    BY <1>0, <2>1, <2>4 DEF OpShape, Course, row
  <2>6. TypeOK'
    BY <1>0, <2>3 DEF TypeOK, OthersStay, row, trig, queue, people
  <2> QED
    BY <1>0, <1>2, <2>3, <2>4, <2>5, <2>6 DEF ShapeStep
<1> QED
  BY <1>1, <1>2 DEF OnStepCompleted, At

LEMMA ReadProgressKeepsShape ==
    ASSUME Shapes, NEW o \in Op, ReadProgress(o)
    PROVE  /\ ShapeStep(o) /\ TypeOK' /\ Who(o) \in Contact /\ plan.type = "DRIP"
           /\ op[o].kind = "stepCompleted"
           /\ \/ Finish(o)
              \/ /\ progress[Who(o)].status = "active" /\ op'[o].read = progress[Who(o)]
                 /\ op'[o].pc \in {"complete", "advance"} /\ op'[o].idle = op[o].idle
                 /\ op'[o].kind = "stepCompleted"
<1>0. /\ TypeOK /\ OpShape(o) /\ op[o] \in OpRecord
      /\ op[o].pc = "progress" /\ op[o].kind = "stepCompleted"
      /\ plan.type = "DRIP" /\ op[o].todo # <<>>
      /\ UNCHANGED <<row, drip, trig, queue, launches, faults>>
  BY Kinds DEF Shapes, TypeOK, ReadProgress, At, OpShape, Course
<1>1. Who(o) \in Contact /\ progress[Who(o)] \in Progress /\ plan' = plan
  BY <1>0, FirstAndOthers DEF OpRecord, Who, TypeOK, row
<1>2. CASE Finish(o)
  <2>1. OthersStay(o) /\ OpShape(o)'
    BY <1>0, <1>1, <1>2, FinishedShape
  <2>2. TypeOK'
    BY <1>0, <2>1 DEF TypeOK, OthersStay, row, drip, trig, queue, people
  <2> QED
    BY <1>0, <1>1, <1>2, <2>1, <2>2 DEF ShapeStep
<1>3. ASSUME NEW pc \in {"complete", "advance"}, progress[Who(o)].status = "active",
             op' = [op EXCEPT ![o].read = progress[Who(o)], ![o].pc = pc]
      PROVE  /\ ShapeStep(o) /\ TypeOK' /\ op'[o].read = progress[Who(o)]
             /\ op'[o].pc = pc /\ op'[o].idle = op[o].idle /\ op'[o].kind = "stepCompleted"
  <2> DEFINE new == [op[o] EXCEPT !.read = progress[Who(o)], !.pc = pc]
  <2>1. new \in OpRecord
    BY <1>0, <1>1 DEF OpRecord, PC
  <2>2. op' = [op EXCEPT ![o] = new]
    BY <1>3
  <2>3. OthersStay(o) /\ op'[o] = new
    BY <1>0, <2>1, <2>2, Written
  <2>4. /\ op'[o].kind = "stepCompleted" /\ op'[o].pc = pc /\ op'[o].todo = op[o].todo
        /\ op'[o].read = progress[Who(o)] /\ op'[o].idle = op[o].idle
    BY <1>0, <2>3 DEF OpRecord
  <2>5. OpShape(o)'
    BY <1>0, <1>1, <2>4 DEF OpShape, Course
  <2>6. TypeOK'
    BY <1>0, <2>3 DEF TypeOK, OthersStay, row, drip, trig, queue, people
  <2> QED
    BY <1>1, <2>3, <2>4, <2>5, <2>6 DEF ShapeStep
<1>4. \/ Finish(o)
      \/ /\ progress[Who(o)].status = "active"
         /\ \E pc \in {"complete", "advance"} :
                op' = [op EXCEPT ![o].read = progress[Who(o)], ![o].pc = pc]
  BY DEF ReadProgress
<1> QED
  BY <1>0, <1>1, <1>2, <1>3, <1>4

LEMMA CompleteContactKeepsShape ==
    ASSUME Shapes, NEW o \in Op, CompleteContact(o)
    PROVE  /\ ShapeStep(o) /\ TypeOK' /\ Who(o) \in Contact /\ plan.type = "DRIP"
           /\ op[o].kind = "stepCompleted" /\ op'[o].kind = "stepCompleted"
           /\ \/ meta # "there" /\ Finish(o)
              \/ /\ op'[o].pc = "scan" /\ ToSet(op'[o].todo) = Contact
                 /\ op'[o].idle = op[o].idle /\ op'[o].read = op[o].read
<1>0. /\ TypeOK /\ OpShape(o) /\ op[o] \in OpRecord
      /\ op[o].pc = "complete" /\ op[o].kind = "stepCompleted"
      /\ plan.type = "DRIP" /\ op[o].todo # <<>>
      /\ UNCHANGED <<row, awaiting, meta, trig, queue, launches, faults>>
      /\ WriteProgress(o, [status |-> "completed", step |-> op[o].step])
  BY Kinds DEF Shapes, TypeOK, CompleteContact, At, OpShape, Course
<1>1. Who(o) \in Contact /\ plan' = plan
      /\ [status |-> "completed", step |-> op[o].step] \in Progress
  BY <1>0, FirstAndOthers DEF OpRecord, Who, Progress, row
<1>2. progress' \in [Contact -> Progress] /\ clobbered' \subseteq Contact
  BY <1>0, <1>1, ProgressWritten
<1>3. ASSUME NEW keys \in SetToSeqs(Contact),
             op' = [op EXCEPT ![o].pc = "scan", ![o].todo = keys]
      PROVE  /\ OthersStay(o) /\ OpShape(o)' /\ op'[o].kind = "stepCompleted"
             /\ op'[o].pc = "scan" /\ ToSet(op'[o].todo) = Contact
             /\ op'[o].idle = op[o].idle /\ op'[o].read = op[o].read
  <2> DEFINE new == [op[o] EXCEPT !.pc = "scan", !.todo = keys]
  <2>1. keys \in Seq(Contact) /\ ToSet(keys) = Contact /\ "scan" \in PC
    BY Audience DEF PC
  <2>2. new \in OpRecord
    BY <1>0, <2>1 DEF OpRecord
  <2>3. OthersStay(o) /\ op'[o] = new
    <3>1. op' = [op EXCEPT ![o] = new]
      BY <1>3
    <3> QED
      BY <1>0, <2>2, <3>1, Written
  <2>4. /\ op'[o].kind = "stepCompleted" /\ op'[o].pc = "scan" /\ op'[o].todo = keys
        /\ op'[o].idle = op[o].idle /\ op'[o].read = op[o].read
    BY <1>0, <2>3 DEF OpRecord
  <2>5. OpShape(o)'
    BY <1>0, <1>1, <2>4 DEF OpShape, Course
  <2> QED
    BY <2>1, <2>3, <2>4, <2>5
<1>4. ASSUME Finish(o)
      PROVE  OthersStay(o) /\ OpShape(o)' /\ op'[o].kind = "stepCompleted"
  BY <1>0, <1>1, <1>4, FinishedShape, Finished
<1>5. \/ meta # "there" /\ Finish(o)
      \/ \E keys \in SetToSeqs(Contact) : op' = [op EXCEPT ![o].pc = "scan", ![o].todo = keys]
  BY DEF CompleteContact
<1>6. OthersStay(o) /\ OpShape(o)'
  BY <1>3, <1>4, <1>5
<1>7. TypeOK'
  BY <1>0, <1>2, <1>6 DEF TypeOK, OthersStay, row, trig, queue, people
<1> QED
  BY <1>0, <1>1, <1>3, <1>4, <1>5, <1>6, <1>7 DEF ShapeStep

LEMMA AdvanceKeepsShape ==
    ASSUME Shapes, NEW o \in Op, Advance(o)
    PROVE  /\ ShapeStep(o) /\ TypeOK' /\ Who(o) \in Contact /\ plan.type = "DRIP"
           /\ op[o].kind = "stepCompleted" /\ op'[o].kind = "stepCompleted"
           /\ \/ Finish(o) /\ UNCHANGED <<progress, clobbered>>
              \/ /\ WriteProgress(o, [status |-> "active", step |-> op[o].step + 1])
                 /\ op'[o].pc \in {"queueStep", "again"}
                 /\ op'[o].idle = op[o].idle /\ op'[o].read = op[o].read
<1>0. /\ TypeOK /\ OpShape(o) /\ op[o] \in OpRecord
      /\ op[o].pc = "advance" /\ op[o].kind = "stepCompleted"
      /\ plan.type = "DRIP" /\ op[o].todo # <<>>
      /\ UNCHANGED <<row, awaiting, meta, trig, queue, launches, faults>>
  BY Kinds DEF Shapes, TypeOK, Advance, At, OpShape, Course
<1>1. Who(o) \in Contact /\ plan' = plan /\ op[o].step + 1 \in Nat
      /\ [status |-> "active", step |-> op[o].step + 1] \in Progress
  BY <1>0, FirstAndOthers DEF OpRecord, Who, Progress, row
<1>2. CASE Finish(o) /\ UNCHANGED <<progress, clobbered>>
  <2>1. OthersStay(o) /\ OpShape(o)' /\ op'[o].kind = "stepCompleted"
    BY <1>0, <1>1, <1>2, FinishedShape, Finished
  <2>2. TypeOK'
    BY <1>0, <1>2, <2>1 DEF TypeOK, OthersStay, row, trig, queue, people
  <2> QED
    BY <1>0, <1>1, <1>2, <2>1, <2>2 DEF ShapeStep
<1>3. ASSUME WriteProgress(o, [status |-> "active", step |-> op[o].step + 1]),
             NEW pc \in {"queueStep", "again"}, op' = [op EXCEPT ![o].pc = pc, ![o].step = @ + 1]
      PROVE  /\ ShapeStep(o) /\ TypeOK' /\ op'[o].kind = "stepCompleted" /\ op'[o].pc = pc
             /\ op'[o].idle = op[o].idle /\ op'[o].read = op[o].read
  <2> DEFINE new == [op[o] EXCEPT !.pc = pc, !.step = op[o].step + 1]
  <2>1. new \in OpRecord
    <3>1. pc \in PC
      BY DEF PC
    <3> QED
      BY <1>0, <1>1, <3>1 DEF OpRecord
  <2>2. OthersStay(o) /\ op'[o] = new
    <3>1. op' = [op EXCEPT ![o] = new]
      BY <1>3
    <3> QED
      BY <1>0, <2>1, <3>1, Written
  <2>3. /\ op'[o].kind = "stepCompleted" /\ op'[o].pc = pc /\ op'[o].todo = op[o].todo
        /\ op'[o].idle = op[o].idle /\ op'[o].read = op[o].read
    BY <1>0, <2>2 DEF OpRecord
  <2>4. OpShape(o)'
    BY <1>0, <1>1, <2>3 DEF OpShape, Course
  <2>5. progress' \in [Contact -> Progress] /\ clobbered' \subseteq Contact
    BY <1>0, <1>1, <1>3, ProgressWritten
  <2>6. TypeOK'
    BY <1>0, <2>2, <2>5 DEF TypeOK, OthersStay, row, trig, queue, people
  <2> QED
    BY <1>1, <2>2, <2>3, <2>4, <2>6 DEF ShapeStep
<1>4. \/ Finish(o) /\ UNCHANGED <<progress, clobbered>>
      \/ /\ WriteProgress(o, [status |-> "active", step |-> op[o].step + 1])
         /\ \E pc \in {"queueStep", "again"} : op' = [op EXCEPT ![o].pc = pc, ![o].step = @ + 1]
  BY DEF Advance
<1> QED
  BY <1>0, <1>1, <1>2, <1>3, <1>4

LEMMA AgainKeepsShape ==
    ASSUME Shapes, NEW o \in Op, Again(o)
    PROVE  ShapeStep(o) /\ TypeOK' /\ plan.type = "DRIP" /\ op[o].kind = "stepCompleted"
<1>0. /\ TypeOK /\ OpShape(o)
      /\ op[o].pc = "again" /\ op[o].kind = "stepCompleted"
      /\ plan.type = "DRIP" /\ op[o].todo # <<>> /\ plan' = plan
      /\ UNCHANGED <<row, drip, trig, queue, launches, faults>>
  BY Kinds DEF Shapes, TypeOK, Again, At, OpShape, Course, row
<1>1. OthersStay(o) /\ OpShape(o)'
  <2>1. CASE Goto(o, "progress")
    BY <1>0, <2>1, WentShape DEF PC
  <2>2. CASE Finish(o)
    BY <1>0, <2>2, FinishedShape
  <2> QED
    BY <2>1, <2>2 DEF Again
<1>2. TypeOK'
  BY <1>0, <1>1 DEF TypeOK, OthersStay, row, drip, trig, queue, people
<1> QED
  BY <1>0, <1>1, <1>2 DEF ShapeStep

LEMMA CheckCompletionKeepsShape ==
    ASSUME Shapes, NEW o \in Op, CheckCompletion(o)
    PROVE  /\ ShapeStep(o) /\ TypeOK' /\ plan.type = "DRIP" /\ op[o].kind = "stepCompleted"
           /\ \/ /\ op[o].todo = <<>> /\ Finish(o)
                 /\ status' = IF op[o].idle THEN "COMPLETED" ELSE status
              \/ /\ op[o].todo # <<>> /\ status' = status
                 /\ op'[o].kind = "stepCompleted" /\ op'[o].pc = "scan"
                 /\ op'[o].todo = Tail(op[o].todo) /\ op'[o].read = op[o].read
                 /\ op'[o].idle <=> op[o].idle /\ progress[Who(o)].status # "active"
<1>0. /\ TypeOK /\ OpShape(o) /\ op[o] \in OpRecord
      /\ op[o].pc = "scan" /\ op[o].kind = "stepCompleted"
      /\ plan.type = "DRIP" /\ plan' = plan
      /\ UNCHANGED <<plan, sentCount, drip, trig, queue, launches, faults>>
  BY Kinds DEF Shapes, TypeOK, CheckCompletion, At, OpShape, Course
<1>1. CASE /\ op[o].todo = <<>> /\ Finish(o)
           /\ status' = IF op[o].idle THEN "COMPLETED" ELSE status
  <2>1. OthersStay(o) /\ OpShape(o)'
    BY <1>0, <1>1, FinishedShape
  <2>2. TypeOK'
    BY <1>0, <1>1, <2>1 DEF TypeOK, OthersStay, drip, trig, queue, people
  <2> QED
    BY <1>0, <1>1, <2>1, <2>2 DEF ShapeStep
<1>2. CASE /\ op[o].todo # <<>> /\ UNCHANGED status
           /\ op' = [op EXCEPT ![o].todo = Tail(@),
                               ![o].idle = @ /\ progress[Who(o)].status # "active"]
  <2> DEFINE idle == op[o].idle /\ progress[Who(o)].status # "active"
             new == [op[o] EXCEPT !.todo = Tail(op[o].todo), !.idle = idle]
  <2>1. Tail(op[o].todo) \in Seq(Contact) /\ idle \in BOOLEAN
    BY <1>0, <1>2, FirstAndOthers DEF OpRecord
  <2>2. new \in OpRecord
    <3> HIDE DEF idle
    <3> QED
      BY <1>0, <2>1 DEF OpRecord
  <2>3. OthersStay(o) /\ op'[o] = new
    <3>1. op' = [op EXCEPT ![o] = new]
      BY <1>2
    <3> QED
      BY <1>0, <2>2, <3>1, Written
  <2> HIDE DEF idle
  <2>4. /\ op'[o].kind = "stepCompleted" /\ op'[o].pc = "scan"
        /\ op'[o].todo = Tail(op[o].todo) /\ op'[o].idle = idle /\ op'[o].read = op[o].read
    BY <1>0, <2>3 DEF OpRecord
  <2>5. OpShape(o)'
    BY <1>0, <2>4 DEF OpShape, Course
  <2>6. TypeOK'
    BY <1>0, <1>2, <2>3 DEF TypeOK, OthersStay, drip, trig, queue, people
  <2> QED
    BY <1>0, <1>2, <2>3, <2>4, <2>5, <2>6 DEF ShapeStep, idle
<1> QED
  BY <1>1, <1>2 DEF CheckCompletion

LEMMA RemoveContactKeepsShape ==
    ASSUME Shapes, NEW o \in Op, NEW c \in Contact, RemoveContact(o, c)
    PROVE  /\ ShapeStep(o) /\ TypeOK' /\ plan.type = "DRIP"
           /\ op'[o].kind = "remove" /\ op'[o].pc = "remove" /\ op'[o].read = progress[c]
           /\ op'[o].idle
<1>0. /\ TypeOK /\ OpShape(o) /\ op[o] \in OpRecord /\ progress[c] \in Progress
      /\ plan.type = "DRIP" /\ plan' = plan
      /\ UNCHANGED <<row, drip, trig, queue, launches, faults>>
      /\ op' = [op EXCEPT ![o] = [FreeOp EXCEPT !.kind = "remove", !.pc = "remove",
                                      !.todo = <<c>>, !.read = progress[c]]]
  BY DEF Shapes, TypeOK, RemoveContact, row
<1> DEFINE new == [FreeOp EXCEPT !.kind = "remove", !.pc = "remove", !.todo = <<c>>,
                                 !.read = progress[c]]
<1>1. <<c>> \in Seq(Contact) /\ <<c>> # <<>> /\ "remove" \in PC /\ "remove" \in Kind
  BY DEF PC, Kind
<1>2. new \in OpRecord
  BY <1>0, <1>1, FreeOpIsRecord DEF OpRecord
<1>3. OthersStay(o) /\ op'[o] = new
  BY <1>0, <1>2, Written
<1>4. /\ op'[o].kind = "remove" /\ op'[o].pc = "remove" /\ op'[o].read = progress[c]
      /\ op'[o].todo = <<c>> /\ op'[o].idle
  BY <1>3 DEF FreeOp
<1>5. OpShape(o)'
  BY <1>0, <1>1, <1>4 DEF OpShape, Course
<1>6. TypeOK'
  BY <1>0, <1>3 DEF TypeOK, OthersStay, row, drip, trig, queue, people
<1> QED
  BY <1>0, <1>3, <1>4, <1>5, <1>6 DEF ShapeStep

LEMMA WriteRemovedKeepsShape ==
    ASSUME Shapes, NEW o \in Op, WriteRemoved(o)
    PROVE  /\ ShapeStep(o) /\ TypeOK' /\ Who(o) \in Contact /\ plan.type = "DRIP"
           /\ op[o].kind = "remove" /\ [op[o].read EXCEPT !.status = "removed"] \in Progress
<1>0. /\ TypeOK /\ OpShape(o) /\ op[o] \in OpRecord
      /\ op[o].pc = "remove" /\ op[o].kind = "remove"
      /\ plan.type = "DRIP" /\ op[o].todo # <<>> /\ plan' = plan /\ Finish(o)
      /\ UNCHANGED <<row, awaiting, meta, trig, queue, launches, faults>>
      /\ WriteProgress(o, [op[o].read EXCEPT !.status = "removed"])
  BY Kinds DEF Shapes, TypeOK, WriteRemoved, At, OpShape, Course, row
<1>1. Who(o) \in Contact /\ op[o].read \in Progress
  BY <1>0, FirstAndOthers DEF OpRecord, Who
<1>2. [op[o].read EXCEPT !.status = "removed"] \in Progress
  BY <1>1 DEF Progress
<1>3. progress' \in [Contact -> Progress] /\ clobbered' \subseteq Contact
  BY <1>0, <1>1, <1>2, ProgressWritten
<1>4. OthersStay(o) /\ OpShape(o)'
  BY <1>0, FinishedShape
<1>5. TypeOK'
  BY <1>0, <1>3, <1>4 DEF TypeOK, OthersStay, row, trig, queue, people
<1> QED
  BY <1>0, <1>1, <1>2, <1>4, <1>5 DEF ShapeStep

-----------------------------------------------------------------------------
(* The same of trigger campaigns.                                          *)

LEMMA ActivationsKeepShape ==
    ASSUME Shapes, NEW o \in Op,
           Activate(o) \/ Deactivate(o) \/ WriteKey(o) \/ WriteList(o) \/ MarkPaused(o)
    PROVE  ShapeStep(o) /\ TypeOK' /\ plan.type = "TRIGGER" /\ (op[o].kind # "evaluate")
           /\ (op'[o].kind # "evaluate")
<1>0. TypeOK /\ OpShape(o) /\ op[o] \in OpRecord /\ <<>> \in Seq(Contact)
  BY Emptied DEF Shapes, TypeOK
<1>1. CASE Activate(o) \/ Deactivate(o)
  <2>1. PICK kind \in {"activate", "deactivate"}, pc \in {"setKey", "delKey"} :
            /\ Begin(o, kind, pc, <<>>) /\ (kind = "activate" <=> pc = "setKey")
            /\ UNCHANGED <<row, drip, trig, queue, launches, faults>> /\ plan.type = "TRIGGER"
    BY <1>1 DEF Activate, Deactivate
  <2>2. kind \in Kind /\ pc \in PC /\ op[o].pc = "free"
    BY <2>1 DEF Kind, PC, Begin, At
  <2>3. OthersStay(o) /\ op'[o].kind = kind /\ op'[o].pc = pc
    BY <1>0, <2>1, <2>2, Begun
  <2>4. OpShape(o)' /\ plan' = plan
    BY <2>1, <2>3 DEF OpShape, Course, row
  <2>5. TypeOK'
    BY <1>0, <2>1, <2>3 DEF TypeOK, OthersStay, row, drip, trig, queue, people
  <2>6. op[o].kind = "none"
    BY <1>0, <2>2 DEF OpShape
  <2> QED
    BY <2>1, <2>3, <2>4, <2>5, <2>6 DEF ShapeStep
<1>2. CASE WriteKey(o)
  <2>1. PICK new \in [active: BOOLEAN, listed: BOOLEAN], pc \in {"list", "unlist"} :
            /\ Goto(o, pc) /\ trigger' = new
            /\ op[o].pc = IF pc = "list" THEN "setKey" ELSE "delKey"
            /\ UNCHANGED <<row, drip, cooling, count, overlapped, people, queue, launches, faults>>
    <3>1. /\ [trigger EXCEPT !.active = TRUE] \in [active: BOOLEAN, listed: BOOLEAN]
          /\ [trigger EXCEPT !.active = FALSE] \in [active: BOOLEAN, listed: BOOLEAN]
      BY <1>0 DEF TypeOK
    <3> QED
      BY <1>2, <3>1 DEF WriteKey, At
  <2>2. op[o].kind = (IF pc = "list" THEN "activate" ELSE "deactivate") /\ plan.type = "TRIGGER"
    BY <1>0, <2>1, Kinds DEF OpShape, Course
  <2>3. OthersStay(o) /\ OpShape(o)' /\ plan' = plan /\ op'[o].kind = op[o].kind
    BY <1>0, <2>1, <2>2, WentShape, Gone DEF PC, row
  <2>4. TypeOK'
    BY <1>0, <2>1, <2>3 DEF TypeOK, OthersStay, row, drip, queue, people
  <2> QED
    BY <2>2, <2>3, <2>4 DEF ShapeStep
<1>3. CASE WriteList(o)
  <2>1. PICK new \in [active: BOOLEAN, listed: BOOLEAN], pc \in {"run", "pause"} :
            /\ Goto(o, pc) /\ trigger' = new
            /\ op[o].pc = IF pc = "run" THEN "list" ELSE "unlist"
            /\ UNCHANGED <<row, drip, cooling, count, overlapped, people, queue, launches, faults>>
    <3>1. /\ [trigger EXCEPT !.listed = TRUE] \in [active: BOOLEAN, listed: BOOLEAN]
          /\ [trigger EXCEPT !.listed = FALSE] \in [active: BOOLEAN, listed: BOOLEAN]
      BY <1>0 DEF TypeOK
    <3> QED
      BY <1>3, <3>1 DEF WriteList, At
  <2>2. op[o].kind = (IF pc = "run" THEN "activate" ELSE "deactivate") /\ plan.type = "TRIGGER"
    BY <1>0, <2>1, Kinds DEF OpShape, Course
  <2>3. OthersStay(o) /\ OpShape(o)' /\ plan' = plan /\ op'[o].kind = op[o].kind
    BY <1>0, <2>1, <2>2, WentShape, Gone DEF PC, row
  <2>4. TypeOK'
    BY <1>0, <2>1, <2>3 DEF TypeOK, OthersStay, row, drip, queue, people
  <2> QED
    BY <2>2, <2>3, <2>4 DEF ShapeStep
<1>4. CASE MarkPaused(o)
  <2>1. /\ UNCHANGED <<plan, sentCount, drip, trig, queue, launches, faults>>
        /\ op[o].pc = "pause" /\ status' = "PAUSED" /\ Finish(o)
    BY <1>4 DEF MarkPaused, At
  <2>2. op[o].kind = "deactivate" /\ plan.type = "TRIGGER"
    BY <1>0, <2>1, Kinds DEF OpShape, Course
  <2>3. OthersStay(o) /\ OpShape(o)' /\ op'[o].kind = op[o].kind
    BY <1>0, <2>1, FinishedShape, Finished
  <2>4. TypeOK'
    BY <1>0, <2>1, <2>3 DEF TypeOK, OthersStay, drip, trig, queue, people
  <2> QED
    BY <2>1, <2>2, <2>3, <2>4 DEF ShapeStep
<1> QED
  BY <1>1, <1>2, <1>3, <1>4

\* An evaluation looks at one contact.
LEMMA EvaluationHasContact ==
    ASSUME Shapes, NEW o \in Op, op[o].kind = "evaluate", op[o].pc # "done"
    PROVE  /\ Who(o) \in Contact /\ op[o].todo = <<Who(o)>> /\ op[o].todo # <<>>
           /\ plan.type = "TRIGGER"
           /\ op[o].pc \in {"config", "cooldown", "count", "fire", "sentCount", "cool", "incr"}
<1>1. PICK c \in Contact : op[o].todo = <<c>>
  BY DEF Shapes, OpShape
<1>2. Who(o) = c
  BY <1>1 DEF Who
<1> QED
  BY <1>1, <1>2 DEF Shapes, OpShape, Course

LEMMA EvaluateKeepsShape ==
    ASSUME Shapes, NEW o \in Op, NEW c \in Contact, EvaluateContactEvent(o, c)
    PROVE  /\ ShapeStep(o) /\ TypeOK' /\ plan.type = "TRIGGER"
           /\ op[o].kind = "none" /\ op'[o].kind = "evaluate" /\ op'[o].pc = "config"
           /\ op'[o].todo = <<c>>
<1>0. /\ TypeOK /\ OpShape(o) /\ plan.type = "TRIGGER" /\ plan' = plan
      /\ Begin(o, "evaluate", "config", <<c>>)
      /\ overlapped' = IF Evaluating(c) = {} THEN overlapped ELSE overlapped \cup {c}
      /\ UNCHANGED <<row, drip, trigger, cooling, count, people, queue, launches, faults>>
  BY DEF Shapes, EvaluateContactEvent, row
<1>1. <<c>> \in Seq(Contact) /\ "evaluate" \in Kind /\ "config" \in PC
  BY DEF Kind, PC
<1>2. /\ OthersStay(o) /\ op'[o].kind = "evaluate" /\ op'[o].pc = "config"
      /\ op'[o].todo = <<c>> /\ op[o].pc = "free"
  <2>1. OthersStay(o) /\ op'[o].kind = "evaluate" /\ op'[o].pc = "config" /\ op'[o].todo = <<c>>
    BY <1>0, <1>1, Begun
  <2>2. op[o].pc = "free"
    BY <1>0 DEF Begin, At
  <2> QED
    BY <2>1, <2>2
<1>3. OpShape(o)' /\ op[o].kind = "none"
  BY <1>0, <1>2 DEF OpShape, Course
<1>4. TypeOK'
  BY <1>0, <1>2 DEF TypeOK, OthersStay, row, drip, queue, people
<1> QED
  BY <1>0, <1>2, <1>3, <1>4 DEF ShapeStep

\* The next await of an evaluation.
LEMMA EvaluationMoves ==
    ASSUME Shapes, NEW o \in Op, op[o].kind = "evaluate", plan' = plan,
           NEW pc \in {"cooldown", "count", "fire", "sentCount", "cool", "incr"},
           Goto(o, pc), op[o].pc # "done"
    PROVE  /\ ShapeStep(o) /\ op'[o].pc = pc /\ op'[o].kind = "evaluate"
           /\ op'[o].todo = op[o].todo
<1>1. TypeOK /\ op[o].pc # "free" /\ pc \in PC
  BY EvaluationHasContact DEF Shapes, PC
<1>2. OthersStay(o) /\ OpShape(o)'
  BY <1>1, WentShape
<1>3. op'[o].pc = pc /\ op'[o].kind = "evaluate" /\ op'[o].todo = op[o].todo
  BY <1>1, Gone
<1> QED
  BY <1>2, <1>3 DEF ShapeStep

LEMMA EvaluationEnds ==
    ASSUME Shapes, NEW o \in Op, op[o].kind = "evaluate", plan' = plan,
           op[o].pc # "done", Finish(o)
    PROVE  /\ ShapeStep(o) /\ op'[o].pc = "done" /\ op'[o].kind = "evaluate"
           /\ op'[o].todo = <<>>
<1>1. TypeOK /\ op[o].pc # "free"
  BY EvaluationHasContact DEF Shapes
<1>2. OthersStay(o) /\ OpShape(o)'
  BY <1>1, FinishedShape
<1>3. op'[o].pc = "done" /\ op'[o].kind = "evaluate" /\ op'[o].todo = <<>>
  BY <1>1, Finished
<1> QED
  BY <1>2, <1>3 DEF ShapeStep

\* What each await of an evaluation does.
LEMMA EvaluationSteps ==
    ASSUME Shapes, NEW o \in Op,
           \/ ReadConfig(o) \/ ReadCooldown(o) \/ ReadCount(o) \/ TriggerForContact(o)
           \/ IncrementSent(o) \/ SetCooldown(o) \/ IncrementCount(o)
    PROVE  /\ op[o].kind = "evaluate" /\ op[o].pc # "done" /\ plan' = plan
           /\ plan.type = "TRIGGER" /\ Who(o) \in Contact /\ op[o].todo = <<Who(o)>>
<1>1. op[o].kind = "evaluate" /\ op[o].pc # "done"
  BY Kinds DEF ReadConfig, ReadCooldown, ReadCount, TriggerForContact, IncrementSent,
               SetCooldown, IncrementCount, At
<1>2. plan' = plan
  BY DEF ReadConfig, ReadCooldown, ReadCount, TriggerForContact, IncrementSent,
         SetCooldown, IncrementCount, row
<1> QED
  BY <1>1, <1>2, EvaluationHasContact

LEMMA EvaluationKeepsShape ==
    ASSUME Shapes, NEW o \in Op,
           \/ ReadConfig(o) \/ ReadCooldown(o) \/ ReadCount(o) \/ TriggerForContact(o)
           \/ IncrementSent(o) \/ SetCooldown(o) \/ IncrementCount(o)
    PROVE  ShapeStep(o) /\ TypeOK' /\ trigger' = trigger
<1>0. /\ TypeOK /\ op[o].kind = "evaluate" /\ op[o].pc # "done" /\ plan' = plan
      /\ Who(o) \in Contact
  BY EvaluationSteps DEF Shapes
<1>1. ShapeStep(o)
  <2>1. \/ Finish(o)
        \/ \E pc \in {"cooldown", "count", "fire", "sentCount", "cool", "incr"} : Goto(o, pc)
    BY DEF ReadConfig, ReadCooldown, ReadCount, TriggerForContact, IncrementSent,
           SetCooldown, IncrementCount
  <2> QED
    BY <1>0, <2>1, EvaluationMoves, EvaluationEnds
<1>2. CASE ReadConfig(o) \/ ReadCooldown(o) \/ ReadCount(o)
  <2>1. UNCHANGED <<row, drip, trig, queue, launches, faults>>
    BY <1>2 DEF ReadConfig, ReadCooldown, ReadCount
  <2> QED
    BY <1>0, <1>1, <2>1 DEF TypeOK, ShapeStep, OthersStay, row, drip, trig, queue, people
<1>3. CASE TriggerForContact(o)
  <2>1. UNCHANGED <<row, drip, trigger, cooling, count, overlapped, deleted, launches, faults>>
    BY <1>3 DEF TriggerForContact
  <2>2. queued' \in [Contact -> Nat] /\ merged' \subseteq Contact
        /\ skipped' \in [Contact -> Nat]
    <3>1. CASE AddMessage(Who(o)) /\ UNCHANGED skipped
      BY <1>0, <3>1, Added DEF TypeOK
    <3>2. CASE skipped' = [skipped EXCEPT ![Who(o)] = @ + 1] /\ UNCHANGED queue
      BY <1>0, <3>2 DEF TypeOK, queue
    <3> QED
      BY <1>3, <3>1, <3>2 DEF TriggerForContact
  <2> QED
    BY <1>0, <1>1, <2>1, <2>2 DEF TypeOK, ShapeStep, OthersStay, row, drip
<1>4. CASE IncrementSent(o)
  <2>1. sentCount' = sentCount + 1
        /\ UNCHANGED <<plan, status, drip, trig, queue, launches, faults>>
    BY <1>4 DEF IncrementSent
  <2> QED
    BY <1>0, <1>1, <2>1 DEF TypeOK, ShapeStep, OthersStay, drip, trig, queue, people
<1>5. CASE SetCooldown(o)
  <2>1. cooling' \subseteq cooling \cup {Who(o)}
        /\ UNCHANGED <<row, drip, trigger, count, overlapped, people, queue, launches, faults>>
    BY <1>5 DEF SetCooldown
  <2> QED
    BY <1>0, <1>1, <2>1 DEF TypeOK, ShapeStep, OthersStay, row, drip, queue, people
<1>6. CASE IncrementCount(o)
  <2>1. count' = [count EXCEPT ![Who(o)] = @ + 1]
        /\ UNCHANGED <<row, drip, trigger, cooling, overlapped, people, queue, launches, faults>>
    BY <1>6 DEF IncrementCount
  <2>2. count' \in [Contact -> Nat]
    BY <1>0, <2>1 DEF TypeOK
  <2> QED
    BY <1>0, <1>1, <2>1, <2>2 DEF TypeOK, ShapeStep, OthersStay, row, drip, queue, people
<1> QED
  BY <1>2, <1>3, <1>4, <1>5, <1>6

LEMMA FailsKeepsShape ==
    ASSUME Shapes, NEW o \in Op, Fails(o)
    PROVE  /\ ShapeStep(o) /\ TypeOK' /\ Finish(o) /\ op[o].pc \notin {"free", "done"}
           /\ UNCHANGED <<row, drip, trig, queue, launches>> /\ faults' # 0
<1>0. /\ TypeOK /\ Finish(o) /\ op[o].pc \notin {"free", "done"} /\ faults' = faults + 1
      /\ faults < MaxFaults /\ faults \in Nat
      /\ UNCHANGED <<row, drip, trig, queue, launches>> /\ plan' = plan
  BY DEF Shapes, Fails, TypeOK, row
<1>1. OthersStay(o) /\ OpShape(o)'
  BY <1>0, FinishedShape
<1>2. faults' \in 0..MaxFaults /\ faults' # 0
  BY <1>0, BoundIsNat
<1>3. TypeOK'
  BY <1>0, <1>1, <1>2 DEF TypeOK, OthersStay, row, drip, trig, queue, people
<1> QED
  BY <1>0, <1>1, <1>2, <1>3 DEF ShapeStep

\* What a step does to the shapes and to the plan.
LEMMA ShapesKept ==
    ASSUME Shapes, NEW o \in Op, ShapeStep(o), TypeOK',
           awaiting' \subseteq awaiting \/ plan.type = "DRIP",
           trigger' = trigger \/ plan.type = "TRIGGER"
    PROVE  Shapes'
<1>1. \A p \in Op : OpShape(p)'
  BY DEF Shapes, ShapeStep, OthersStay, OpShape, Course
<1> QED
  BY <1>1 DEF Shapes, ShapeStep

\* What a step of an operation is, for each type of campaign.
AbStep(o) == LaunchAbTest(o) \/ NextVariant(o) \/ QueueVariant(o) \/ MarkRunning(o)
DripStep(o) ==
    \/ LaunchDrip(o) \/ Enroll(o) \/ WriteMeta(o)
    \/ QueueStep(o) \/ ReadNext(o) \/ WriteNext(o)
    \/ ReadProgress(o) \/ CompleteContact(o) \/ Advance(o) \/ Again(o) \/ CheckCompletion(o)
    \/ WriteRemoved(o)
    \/ \E a \in awaiting : OnStepCompleted(o, a[1], a[2])
    \/ \E c \in Contact : RemoveContact(o, c)
Activation(o) ==
    Activate(o) \/ Deactivate(o) \/ WriteKey(o) \/ WriteList(o) \/ MarkPaused(o)
Evaluation(o) ==
    \/ ReadConfig(o) \/ ReadCooldown(o) \/ ReadCount(o) \/ TriggerForContact(o)
    \/ IncrementSent(o) \/ SetCooldown(o) \/ IncrementCount(o)

LEMMA StepsByType ==
    ASSUME Next
    PROVE  \/ \E o \in Op : \/ AbStep(o) \/ DripStep(o) \/ Activation(o) \/ Evaluation(o)
                            \/ Fails(o)
                            \/ \E c \in Contact : EvaluateContactEvent(o, c)
           \/ \E c \in Contact : CooldownExpires(c) \/ ContactDeleted(c)
           \/ MetaExpires
BY DEF Next, OpStep, AbStep, DripStep, Activation, Evaluation

LEMMA DripStepKeepsShape ==
    ASSUME Shapes, NEW o \in Op, DripStep(o)
    PROVE  ShapeStep(o) /\ TypeOK' /\ plan.type = "DRIP" /\ UNCHANGED <<plan, trig>>
<1>1. UNCHANGED trig
  BY DEF DripStep, LaunchDrip, Enroll, WriteMeta, QueueStep, ReadNext, WriteNext, ReadProgress,
         CompleteContact, Advance, Again, CheckCompletion, WriteRemoved, OnStepCompleted,
         RemoveContact
<1>2. ShapeStep(o) /\ TypeOK' /\ plan.type = "DRIP"
  <2>1. CASE LaunchDrip(o) \/ Enroll(o) \/ WriteMeta(o)
    <3>1. plan.type = "DRIP"
      BY <2>1, Kinds DEF LaunchDrip, Enroll, WriteMeta, At, Shapes, OpShape, Course
    <3> QED
      BY <2>1, <3>1, LaunchDripKeepsShape, EnrollKeepsShape, WriteMetaKeepsShape
  <2>2. CASE QueueStep(o) \/ ReadNext(o) \/ WriteNext(o)
    BY <2>2, QueueStepKeepsShape, ReadNextKeepsShape, WriteNextKeepsShape
  <2>3. CASE ReadProgress(o) \/ CompleteContact(o) \/ Advance(o)
    BY <2>3, ReadProgressKeepsShape, CompleteContactKeepsShape, AdvanceKeepsShape
  <2>4. CASE Again(o) \/ CheckCompletion(o) \/ WriteRemoved(o)
    BY <2>4, AgainKeepsShape, CheckCompletionKeepsShape, WriteRemovedKeepsShape
  <2>5. CASE \E a \in awaiting : OnStepCompleted(o, a[1], a[2])
    BY <2>5, OnStepCompletedKeepsShape
  <2>6. CASE \E c \in Contact : RemoveContact(o, c)
    BY <2>6, RemoveContactKeepsShape
  <2> QED
    BY <2>1, <2>2, <2>3, <2>4, <2>5, <2>6 DEF DripStep
<1> QED
  BY <1>1, <1>2 DEF ShapeStep

LEMMA AbStepKeepsRest ==
    ASSUME Shapes, NEW o \in Op, AbStep(o)
    PROVE  UNCHANGED <<plan, awaiting, trig>>
BY DEF AbStep, LaunchAbTest, NextVariant, QueueVariant, MarkRunning, row, drip

LEMMA NextKeepsShapes ==
    ASSUME Shapes, Next
    PROVE  Shapes' /\ plan' = plan
<1>1. ASSUME NEW o \in Op, AbStep(o) PROVE Shapes' /\ plan' = plan
  <2>1. ShapeStep(o) /\ TypeOK'
    BY <1>1, AbStepsKeepShape DEF AbStep
  <2> QED
    BY <1>1, <2>1, AbStepKeepsRest, ShapesKept DEF trig
<1>2. ASSUME NEW o \in Op, DripStep(o) PROVE Shapes' /\ plan' = plan
  <2>1. trigger' = trigger
    BY <1>2, DripStepKeepsShape DEF trig
  <2> QED
    BY <1>2, <2>1, DripStepKeepsShape, ShapesKept
<1>3. ASSUME NEW o \in Op, Activation(o) PROVE Shapes' /\ plan' = plan
  <2>1. ShapeStep(o) /\ TypeOK' /\ plan.type = "TRIGGER"
    BY <1>3, ActivationsKeepShape DEF Activation
  <2>2. awaiting' = awaiting
    BY <1>3 DEF Activation, Activate, Deactivate, WriteKey, WriteList, MarkPaused, drip
  <2> QED
    BY <2>1, <2>2, ShapesKept DEF ShapeStep
<1>4. ASSUME NEW o \in Op, Evaluation(o) PROVE Shapes' /\ plan' = plan
  <2>1. ShapeStep(o) /\ TypeOK' /\ plan.type = "TRIGGER"
    BY <1>4, EvaluationKeepsShape, EvaluationSteps DEF Evaluation
  <2>2. awaiting' = awaiting
    BY <1>4 DEF Evaluation, ReadConfig, ReadCooldown, ReadCount, TriggerForContact,
                IncrementSent, SetCooldown, IncrementCount, drip
  <2> QED
    BY <2>1, <2>2, ShapesKept DEF ShapeStep
<1>5. ASSUME NEW o \in Op, Fails(o) PROVE Shapes' /\ plan' = plan
  <2>1. ShapeStep(o) /\ TypeOK' /\ awaiting' = awaiting /\ trigger' = trigger
    BY <1>5, FailsKeepsShape DEF drip, trig
  <2> QED
    BY <2>1, ShapesKept DEF ShapeStep
<1>6. ASSUME NEW o \in Op, NEW c \in Contact, EvaluateContactEvent(o, c)
      PROVE  Shapes' /\ plan' = plan
  <2>1. ShapeStep(o) /\ TypeOK' /\ plan.type = "TRIGGER" /\ awaiting' = awaiting
    BY <1>6, EvaluateKeepsShape DEF EvaluateContactEvent, drip
  <2> QED
    BY <2>1, ShapesKept DEF ShapeStep
<1>7. ASSUME NEW c \in Contact, CooldownExpires(c) PROVE Shapes' /\ plan' = plan
  <2>1. /\ cooling' \subseteq cooling
        /\ UNCHANGED <<row, drip, trigger, count, overlapped, people, queue, op, launches, faults>>
    BY <1>7 DEF CooldownExpires
  <2> QED
    BY <2>1 DEF Shapes, TypeOK, OpShape, Course, row, drip, queue, people
<1>8. ASSUME NEW c \in Contact, ContactDeleted(c) PROVE Shapes' /\ plan' = plan
  <2>1. /\ deleted' = deleted \cup {c}
        /\ UNCHANGED <<row, drip, trigger, cooling, count, overlapped, skipped, queue, op,
                       launches, faults>>
    BY <1>8 DEF ContactDeleted
  <2> QED
    BY <2>1 DEF Shapes, TypeOK, OpShape, Course, row, drip, queue
<1>9. ASSUME MetaExpires PROVE Shapes' /\ plan' = plan
  <2>1. /\ meta' = "expired"
        /\ UNCHANGED <<row, progress, awaiting, clobbered, trig, queue, op, launches, faults>>
    BY <1>9 DEF MetaExpires
  <2> QED
    BY <2>1 DEF Shapes, TypeOK, OpShape, Course, row, trig, queue, people
<1> QED
  BY <1>1, <1>2, <1>3, <1>4, <1>5, <1>6, <1>7, <1>8, <1>9, StepsByType

LEMMA LaunchBoundAtInit == ASSUME Init PROVE 0 \in 0..plan.maxLaunches
BY PlansAreSound DEF Init, PlanRecord

LEMMA InitShapes ==
    ASSUME Init
    PROVE  Shapes
<1>1. TypeOK
  BY FreeOpIsRecord, LaunchBoundAtInit, BoundIsNat DEF Init, TypeOK
<1>2. \A o \in Op : OpShape(o)
  BY DEF Init, OpShape, Course, FreeOp
<1> QED
  BY <1>1, <1>2 DEF Shapes, Init

LEMMA StutterKeepsShapes ==
    ASSUME Shapes, UNCHANGED vars
    PROVE  Shapes'
BY DEF Shapes, TypeOK, OpShape, Course, vars, row, drip, trig, queue, people

-----------------------------------------------------------------------------
(* A/B tests: who is still to be handed over.                              *)

\* The launches that owe a contact change by the one that moves.
LEMMA OwingMoves ==
    ASSUME NEW o \in Op, OthersStay(o), NEW c \in Contact
    PROVE  /\ IsFiniteSet(Owing(c)) /\ Cardinality(Owing(c)) \in Nat
           /\ (o \in Owing(c)' <=> o \in Owing(c)) => Owing(c)' = Owing(c)
           /\ o \in Owing(c)' /\ o \notin Owing(c) =>
                  Cardinality(Owing(c)') = Cardinality(Owing(c)) + 1
           /\ o \notin Owing(c)' /\ o \in Owing(c) =>
                  Cardinality(Owing(c)') = Cardinality(Owing(c)) - 1
<1>1. IsFiniteSet(Owing(c)) /\ Cardinality(Owing(c)) \in Nat
  BY FiniteSets, FS_Subset, FS_CardinalityType DEF Owing
<1>2. \A p \in Op : p # o => (p \in Owing(c)' <=> p \in Owing(c))
  BY DEF OthersStay, Owing, Undealt
<1>3. Owing(c) \subseteq Op /\ Owing(c)' \subseteq Op
  BY DEF Owing
<1>4. ASSUME o \in Owing(c)' <=> o \in Owing(c) PROVE Owing(c)' = Owing(c)
  BY <1>2, <1>3, <1>4
<1>5. ASSUME o \in Owing(c)', o \notin Owing(c)
      PROVE  Cardinality(Owing(c)') = Cardinality(Owing(c)) + 1
  <2>1. Owing(c)' = Owing(c) \cup {o}
    BY <1>2, <1>3, <1>5
  <2> QED
    BY <1>1, <1>5, <2>1, FS_AddElement
<1>6. ASSUME o \notin Owing(c)', o \in Owing(c)
      PROVE  Cardinality(Owing(c)') = Cardinality(Owing(c)) - 1
  <2>1. Owing(c)' = Owing(c) \ {o}
    BY <1>2, <1>3, <1>6
  <2> QED
    BY <1>1, <1>6, <2>1, FS_RemoveElement
<1> QED
  BY <1>1, <1>4, <1>5, <1>6

\* The promise to each contact is kept when no message is queued.
LEMMA PromiseKept ==
    ASSUME Promise, NEW o \in Op, OthersStay(o), UNCHANGED <<queue, launches, faults>>,
           \A c \in Contact : o \in Owing(c)' <=> o \in Owing(c)
    PROVE  Promise'
<1>1. \A c \in Contact : Owing(c)' = Owing(c)
  BY OwingMoves
<1> QED
  BY <1>1 DEF Promise, queue

LEMMA DealingStays ==
    ASSUME plan' = plan, NEW o \in Op, OthersStay(o), \A p \in Op : Dealing(p), Dealing(o)'
    PROVE  \A p \in Op : Dealing(p)'
<1> SUFFICES ASSUME NEW p \in Op, p # o PROVE Dealing(p)'
  OBVIOUS
<1>1. op'[p] = op[p]
  BY DEF OthersStay
<1> QED
  BY <1>1 DEF Dealing

LEMMA LaunchAbTestDeals ==
    ASSUME Shapes, \A p \in Op : Dealing(p), Promise, NEW o \in Op, LaunchAbTest(o)
    PROVE  Dealing(o)' /\ Promise'
<1>1. PICK shuffled \in SetToSeqs(Contact) :
          op' = [op EXCEPT ![o] = [FreeOp EXCEPT !.kind = "launchAb", !.pc = "nextVariant",
                                       !.rest = shuffled]]
  BY DEF LaunchAbTest
<1>2. /\ TypeOK /\ ShapeStep(o) /\ op[o].kind = "none" /\ plan.type = "AB" /\ plan' = plan
      /\ launches' = launches + 1 /\ launches \in Nat
      /\ UNCHANGED <<queue, faults>>
  <2>1. op[o].pc = "free" /\ OpShape(o) /\ TypeOK
    BY DEF Shapes, LaunchAbTest, At
  <2> QED
    <3>1. op[o].kind = "none"
      BY <2>1 DEF OpShape
    <3>2. ShapeStep(o)
      BY AbStepsKeepShape
    <3>3. launches \in Nat
      BY <2>1, BoundIsNat DEF TypeOK
    <3> QED
      BY <2>1, <3>1, <3>2, <3>3 DEF LaunchAbTest, ShapeStep
<1>3. /\ op'[o].kind = "launchAb" /\ op'[o].pc = "nextVariant" /\ op'[o].rest = shuffled
      /\ op'[o].todo = <<>> /\ op'[o].step = 0
  BY <1>1, <1>2 DEF TypeOK, FreeOp
<1>4. /\ Distinct(shuffled) /\ ToSet(shuffled) = Contact
      /\ Distinct(<<>>) /\ ToSet(<<>>) = {}
  BY Audience, Emptied
<1>5. Len(plan.split) \in Nat /\ Len(plan.split) > 1
  <2>1. plan.split \in Seq(0..100) /\ Len(plan.split) > 1
    BY <1>2, PlansAreSound DEF TypeOK, PlanRecord
  <2> QED
    BY <2>1, LenProperties
<1>6. Dealing(o)'
  BY <1>2, <1>3, <1>4, <1>5 DEF Dealing
<1>7. ASSUME NEW c \in Contact
      PROVE  /\ Cardinality(Owing(c)') = Cardinality(Owing(c)) + 1
             /\ Cardinality(Owing(c)) \in Nat
  <2>1. o \notin Owing(c)
    BY <1>2 DEF Owing
  <2>2. o \in Owing(c)'
    BY <1>3, <1>4 DEF Owing, Undealt
  <2> QED
    BY <1>2, <2>1, <2>2, OwingMoves DEF ShapeStep
<1>8. Promise'
  <2> SUFFICES ASSUME faults = 0, NEW c \in Contact \ merged
               PROVE  queued[c] + Cardinality(Owing(c)') = launches + 1
    BY <1>2 DEF Promise, queue
  <2> QED
    BY <1>2, <1>7 DEF Promise, TypeOK
<1> QED
  BY <1>6, <1>8

\* Dealing out the next slice, or being done with the variants.
LEMMA NextVariantDeals ==
    ASSUME Shapes, \A p \in Op : Dealing(p), Promise, NEW o \in Op, NextVariant(o)
    PROVE  Dealing(o)' /\ Promise'
<1>1. /\ TypeOK /\ OpShape(o) /\ ShapeStep(o) /\ op[o] \in OpRecord /\ plan' = plan
      /\ Dealing(o) /\ op[o].pc = "nextVariant" /\ op[o].kind = "launchAb"
      /\ op[o].todo = <<>> /\ plan.type = "AB"
      /\ UNCHANGED <<queue, launches, faults>>
  <2>1. TypeOK /\ OpShape(o) /\ op[o] \in OpRecord /\ Dealing(o) /\ op[o].pc = "nextVariant"
        /\ UNCHANGED <<queue, launches, faults>>
    BY DEF Shapes, TypeOK, NextVariant, At
  <2>2. ShapeStep(o) /\ plan' = plan
    BY AbStepsKeepShape DEF ShapeStep
  <2>3. op[o].kind = "launchAb"
    BY <2>1, Kinds
  <2> QED
    BY <2>1, <2>2, <2>3 DEF Dealing, OpShape, Course
<1>2. /\ op[o].step \in Nat /\ op[o].rest \in Seq(Contact) /\ Len(op[o].rest) \in Nat
      /\ Distinct(op[o].rest) /\ ToSet(<<>>) = {} /\ Distinct(<<>>)
      /\ op[o].step <= Len(plan.split) /\ Len(plan.split) \in Nat
  <2>1. plan.split \in Seq(0..100)
    BY <1>1, PlansAreSound DEF TypeOK, PlanRecord
  <2>2. Len(plan.split) \in Nat
    BY <2>1, LenProperties
  <2> QED
    BY <1>1, <2>2, LenProperties, Emptied DEF OpRecord, Dealing
<1>3. CASE op[o].step = Len(plan.split) /\ Goto(o, "run")
  <2>1. /\ OthersStay(o) /\ op'[o].pc = "run" /\ op'[o].kind = "launchAb"
        /\ op'[o].todo = <<>> /\ op'[o].rest = op[o].rest /\ op'[o].step = op[o].step
    BY <1>1, <1>3, Gone DEF PC
  <2>2. op[o].rest = <<>>
    BY <1>1, <1>3 DEF Dealing
  <2>3. Dealing(o)'
    BY <1>1, <1>2, <2>1, <2>2 DEF Dealing
  <2>4. \A c \in Contact : o \in Owing(c)' <=> o \in Owing(c)
    BY <1>1, <2>1 DEF Owing, Undealt
  <2> QED
    BY <1>1, <2>1, <2>3, <2>4, PromiseKept
<1>4. ASSUME NEW share \in Nat, op[o].step < Len(plan.split), Slice(o, share),
             op[o].step = Len(plan.split) - 1 => share >= Len(op[o].rest)
      PROVE  Dealing(o)' /\ Promise'
  <2> DEFINE slice == SubSeq(op[o].rest, 1, IF share < Len(op[o].rest) THEN share
                                            ELSE Len(op[o].rest))
             left == SubSeq(op[o].rest, share + 1, Len(op[o].rest))
  <2>1. /\ Distinct(slice) /\ Distinct(left) /\ ToSet(slice) \cap ToSet(left) = {}
        /\ ToSet(slice) \cup ToSet(left) = ToSet(op[o].rest)
        /\ share >= Len(op[o].rest) => left = <<>>
    BY <1>2, Sliced
  <2>2. /\ op'[o].kind = "launchAb" /\ op'[o].pc = "queueNext" /\ op'[o].todo = slice
        /\ op'[o].rest = left /\ op'[o].step = op[o].step + 1
    BY <1>1, <1>4 DEF Slice, TypeOK, OpRecord
  <2> HIDE DEF slice, left
  <2>3. Dealing(o)'
    <3>1. op'[o].step <= Len(plan.split)
      BY <1>2, <1>4, <2>2
    <3>2. op'[o].step = Len(plan.split) => op'[o].rest = <<>>
      BY <1>2, <1>4, <2>1, <2>2
    <3> QED
      BY <1>1, <2>1, <2>2, <3>1, <3>2 DEF Dealing
  <2>4. \A c \in Contact : o \in Owing(c)' <=> o \in Owing(c)
    BY <1>1, <1>2, <2>1, <2>2 DEF Owing, Undealt
  <2> QED
    BY <1>1, <2>3, <2>4, PromiseKept DEF ShapeStep
<1>5. CASE op[o].step = Len(plan.split) - 1 /\ Slice(o, Len(op[o].rest))
  BY <1>2, <1>4, <1>5
<1>6. ASSUME op[o].step < Len(plan.split) - 1,
             NEW share \in Rounded(plan.split[op[o].step + 1]), Slice(o, share)
      PROVE  Dealing(o)' /\ Promise'
  <2>1. share \in Nat
    BY <1>1, <1>2, <1>6, SharesAreNat
  <2> QED
    BY <1>2, <1>4, <1>6, <2>1
<1> QED
  BY <1>3, <1>5, <1>6 DEF NextVariant

\* A contact handed over is owed no more, and its message is queued or merged.
LEMMA QueueVariantDeals ==
    ASSUME Shapes, \A p \in Op : Dealing(p), Promise, NEW o \in Op, QueueVariant(o)
    PROVE  Dealing(o)' /\ Promise'
<1>1. /\ TypeOK /\ OpShape(o) /\ ShapeStep(o) /\ op[o] \in OpRecord /\ plan' = plan
      /\ Dealing(o) /\ op[o].pc = "queueNext" /\ op[o].kind = "launchAb"
      /\ UNCHANGED <<launches, faults>>
  <2>1. TypeOK /\ OpShape(o) /\ op[o] \in OpRecord /\ Dealing(o) /\ op[o].pc = "queueNext"
        /\ UNCHANGED <<launches, faults>>
    BY DEF Shapes, TypeOK, QueueVariant, At
  <2>2. ShapeStep(o) /\ plan' = plan
    BY AbStepsKeepShape DEF ShapeStep
  <2> QED
    BY <2>1, <2>2, Kinds
<1>2. CASE op[o].todo = <<>> /\ Goto(o, "nextVariant") /\ UNCHANGED queue
  <2>1. /\ OthersStay(o) /\ op'[o].pc = "nextVariant" /\ op'[o].kind = "launchAb"
        /\ op'[o].todo = op[o].todo /\ op'[o].rest = op[o].rest /\ op'[o].step = op[o].step
    BY <1>1, <1>2, Gone DEF PC
  <2>2. Dealing(o)'
    BY <1>1, <1>2, <2>1 DEF Dealing
  <2>3. \A c \in Contact : o \in Owing(c)' <=> o \in Owing(c)
    BY <1>1, <2>1 DEF Owing, Undealt
  <2> QED
    BY <1>1, <1>2, <2>1, <2>2, <2>3, PromiseKept
<1>3. CASE op[o].todo # <<>> /\ AddMessage(Who(o)) /\ op' = [op EXCEPT ![o].todo = Tail(@)]
  <2>0. PICK who \in Contact : who = Who(o)
    <3>1. op[o].todo \in Seq(Contact)
      BY <1>1 DEF OpRecord
    <3> QED
      BY <1>3, <3>1, FirstAndOthers DEF Who
  <2>1. /\ ToSet(op[o].todo) = {who} \cup ToSet(Tail(op[o].todo))
        /\ Distinct(Tail(op[o].todo)) /\ who \notin ToSet(Tail(op[o].todo))
        /\ who \notin ToSet(op[o].rest)
    <3>1. op[o].todo \in Seq(Contact) /\ Distinct(op[o].todo)
      BY <1>1 DEF OpRecord, Dealing
    <3>2. /\ ToSet(op[o].todo) = {who} \cup ToSet(Tail(op[o].todo))
          /\ Distinct(Tail(op[o].todo)) /\ who \notin ToSet(Tail(op[o].todo))
      BY <1>3, <2>0, <3>1, FirstAndOthers DEF Who
    <3>3. ToSet(op[o].todo) \cap ToSet(op[o].rest) = {}
      BY <1>1 DEF Dealing
    <3> QED
      BY <3>2, <3>3
  <2>2. /\ op'[o].kind = "launchAb" /\ op'[o].pc = "queueNext"
        /\ op'[o].todo = Tail(op[o].todo) /\ op'[o].rest = op[o].rest
        /\ op'[o].step = op[o].step
    BY <1>1, <1>3 DEF TypeOK, OpRecord
  <2>3. Dealing(o)'
    BY <1>1, <2>1, <2>2 DEF Dealing
  <2>4. \A c \in Contact : c # who => (o \in Owing(c)' <=> o \in Owing(c))
    BY <1>1, <2>1, <2>2 DEF Owing, Undealt
  <2>5. o \in Owing(who) /\ o \notin Owing(who)'
    BY <1>1, <2>1, <2>2 DEF Owing, Undealt
  <2>6. /\ merged \subseteq merged'
        /\ \A d \in Contact : d # who => queued'[d] = queued[d]
        /\ who \notin merged' => queued'[who] = queued[who] + 1 /\ merged' = merged
    BY <1>1, <1>3, <2>0, Added
  <2>7. Promise'
    <3> SUFFICES ASSUME faults = 0, NEW c \in Contact, c \notin merged'
                 PROVE  queued'[c] + Cardinality(Owing(c)') = launches
      BY <1>1 DEF Promise
    <3>1. queued[c] + Cardinality(Owing(c)) = launches /\ queued[c] \in Nat
      BY <1>1, <2>6 DEF Promise, TypeOK
    <3>2. CASE c = who
      <4>1. Cardinality(Owing(c)') = Cardinality(Owing(c)) - 1 /\ Cardinality(Owing(c)) \in Nat
        BY <1>1, <2>5, <3>2, OwingMoves DEF ShapeStep
      <4> QED
        BY <2>6, <3>1, <3>2, <4>1
    <3>3. CASE c # who
      <4>1. Owing(c)' = Owing(c)
        BY <1>1, <2>4, <3>3, OwingMoves DEF ShapeStep
      <4> QED
        BY <2>6, <3>1, <3>3, <4>1
    <3> QED
      BY <3>2, <3>3
  <2> QED
    BY <2>3, <2>7
<1> QED
  BY <1>2, <1>3 DEF QueueVariant

LEMMA MarkRunningDeals ==
    ASSUME Shapes, plan.type = "AB", \A p \in Op : Dealing(p), Promise, NEW o \in Op,
           MarkRunning(o)
    PROVE  Dealing(o)' /\ Promise'
<1>1. /\ TypeOK /\ OpShape(o) /\ ShapeStep(o) /\ plan' = plan
      /\ Dealing(o) /\ op[o].pc = "run" /\ op[o].kind = "launchAb" /\ Finish(o)
      /\ UNCHANGED <<queue, launches, faults>>
  <2>1. TypeOK /\ OpShape(o) /\ Dealing(o) /\ op[o].pc = "run" /\ Finish(o)
        /\ UNCHANGED <<queue, launches, faults>>
    BY DEF Shapes, MarkRunning, At
  <2>2. ShapeStep(o) /\ plan' = plan
    BY AbStepsKeepShape DEF ShapeStep
  <2> QED
    BY <2>1, <2>2, Kinds DEF OpShape, Course
<1>2. /\ op'[o].kind = "launchAb" /\ op'[o].pc = "done" /\ op'[o].todo = <<>>
      /\ op'[o].rest = <<>> /\ op'[o].step = 0
  BY <1>1, Finished
<1>3. Len(plan.split) \in Nat /\ Distinct(<<>>) /\ ToSet(<<>>) = {}
  <2>1. plan.split \in Seq(0..100)
    BY <1>1, PlansAreSound DEF TypeOK, PlanRecord
  <2> QED
    BY <2>1, LenProperties, Emptied
<1>4. Dealing(o)'
  BY <1>1, <1>2, <1>3 DEF Dealing
<1>5. \A c \in Contact : o \in Owing(c)' <=> o \in Owing(c)
  BY <1>1, <1>2 DEF Owing, Undealt, Dealing
<1> QED
  BY <1>1, <1>4, <1>5, PromiseKept DEF ShapeStep

LEMMA NextKeepsDeals ==
    ASSUME Shapes, Deals, Next
    PROVE  Deals'
<1> SUFFICES ASSUME plan.type = "AB" PROVE (\A p \in Op : Dealing(p)') /\ Promise'
  BY NextKeepsShapes DEF Deals, Promise
<1>0. (\A p \in Op : Dealing(p)) /\ Promise
  BY DEF Deals, Promise
<1>1. ASSUME NEW o \in Op, AbStep(o) PROVE (\A p \in Op : Dealing(p)') /\ Promise'
  <2>1. Dealing(o)' /\ Promise'
    BY <1>0, <1>1, LaunchAbTestDeals, NextVariantDeals, QueueVariantDeals, MarkRunningDeals
    DEF AbStep
  <2>2. ShapeStep(o)
    BY <1>1, AbStepsKeepShape DEF AbStep
  <2> QED
    BY <1>0, <2>1, <2>2, DealingStays DEF ShapeStep
<1>2. ASSUME NEW o \in Op, Fails(o) PROVE (\A p \in Op : Dealing(p)') /\ Promise'
  <2>1. ShapeStep(o) /\ Finish(o) /\ faults' # 0 /\ TypeOK
    BY <1>2, FailsKeepsShape DEF Shapes
  <2>2. op'[o].todo = <<>> /\ op'[o].rest = <<>> /\ op'[o].step = 0 /\ op'[o].pc = "done"
    BY <2>1, Finished
  <2>3. Len(plan.split) \in Nat /\ Distinct(<<>>) /\ ToSet(<<>>) = {}
    <3>1. plan.split \in Seq(0..100)
      BY <2>1, PlansAreSound DEF TypeOK, PlanRecord
    <3> QED
      BY <3>1, LenProperties, Emptied
  <2>4. Dealing(o)' /\ Promise'
    BY <2>1, <2>2, <2>3 DEF Dealing, Promise, ShapeStep
  <2> QED
    BY <1>0, <2>1, <2>4, DealingStays DEF ShapeStep
<1>3. ASSUME NEW c \in Contact, CooldownExpires(c)
      PROVE  (\A p \in Op : Dealing(p)') /\ Promise'
  BY <1>0, <1>3 DEF CooldownExpires, Dealing, Promise, Owing, Undealt, row, queue
<1>4. ASSUME \/ MetaExpires
             \/ \E c \in Contact : ContactDeleted(c)
      PROVE  (\A p \in Op : Dealing(p)') /\ Promise'
  <2>1. UNCHANGED <<plan, queued, merged, op, launches, faults>>
    BY <1>4 DEF ContactDeleted, MetaExpires, row, queue
  <2> QED
    BY <1>0, <2>1 DEF Dealing, Promise, Owing, Undealt
<1> QED
  BY <1>1, <1>2, <1>3, <1>4, StepsByType, DripStepKeepsShape, ActivationsKeepShape, EvaluationSteps,
     EvaluateKeepsShape
  DEF Activation, Evaluation

-----------------------------------------------------------------------------
(* Trigger campaigns: the sums and the counters.                           *)

\* Every unit of a counter, as a pair.
Units(f) == UNION {{c} \X (1..f[c]) : c \in Contact}

LEMMA UnitsAreFinite ==
    ASSUME NEW f \in [Contact -> Nat]
    PROVE  IsFiniteSet(Units(f)) /\ Sum(f) = Cardinality(Units(f)) /\ Sum(f) \in Nat
<1> DEFINE family == {{c} \X (1..f[c]) : c \in Contact}
           of == [c \in Contact |-> {c} \X (1..f[c])]
<1>1. IsFiniteSet(family)
  <2>1. of \in Surjection(Contact, family)
    BY DEF Surjection
  <2> QED
    BY <2>1, FiniteSets, FS_Surjection
<1>2. \A s \in family : IsFiniteSet(s)
  <2> SUFFICES ASSUME NEW c \in Contact PROVE IsFiniteSet({c} \X (1..f[c]))
    OBVIOUS
  <2>1. IsFiniteSet({c})
    BY FS_Singleton
  <2>2. f[c] \in Int
    OBVIOUS
  <2>3. IsFiniteSet(1..f[c])
    BY <2>2, FS_Interval
  <2> QED
    BY <2>1, <2>3, FS_Product
<1>3. IsFiniteSet(UNION family)
  BY <1>1, <1>2, FS_UNION
<1> QED
  BY <1>3, FS_CardinalityType DEF Units, Sum

LEMMA SumOfZeros ==
    ASSUME NEW f \in [Contact -> Nat], \A c \in Contact : f[c] = 0
    PROVE  Sum(f) = 0
<1>1. Units(f) = {}
  BY DEF Units
<1> QED
  BY <1>1, UnitsAreFinite, FS_EmptySet

\* One more in one counter is one more in the sum.
LEMMA SumGrows ==
    ASSUME NEW f \in [Contact -> Nat], NEW g \in [Contact -> Nat], NEW c \in Contact,
           g[c] = f[c] + 1, \A d \in Contact : d # c => g[d] = f[d]
    PROVE  Sum(g) = Sum(f) + 1
<1> DEFINE new == <<c, f[c] + 1>>
<1>1. new \notin Units(f)
  BY DEF Units
<1>2. Units(g) = Units(f) \cup {new}
  <2>1. Units(g) \subseteq Units(f) \cup {new}
    <3> SUFFICES ASSUME NEW d \in Contact, NEW i \in 1..g[d]
                 PROVE  <<d, i>> \in Units(f) \cup {new}
      BY DEF Units
    <3>1. CASE d = c /\ i = f[c] + 1
      BY <3>1
    <3>2. CASE ~(d = c /\ i = f[c] + 1)
      <4>1. i \in 1..f[d]
        BY <3>2
      <4> QED
        BY <4>1 DEF Units
    <3> QED
      BY <3>1, <3>2
  <2>2. Units(f) \subseteq Units(g)
    <3> SUFFICES ASSUME NEW d \in Contact, NEW i \in 1..f[d] PROVE <<d, i>> \in Units(g)
      BY DEF Units
    <3>1. i \in 1..g[d]
      OBVIOUS
    <3> QED
      BY <3>1 DEF Units
  <2>3. new \in Units(g)
    <3>1. f[c] + 1 \in 1..g[c]
      OBVIOUS
    <3> QED
      BY <3>1 DEF Units
  <2> QED
    BY <2>1, <2>2, <2>3
<1>3. IsFiniteSet(Units(f)) /\ Sum(f) = Cardinality(Units(f)) /\ Sum(g) = Cardinality(Units(g))
  BY UnitsAreFinite
<1> QED
  BY <1>1, <1>2, <1>3, FS_AddElement

\* How many operations stop at some awaits, when one moves.
LEMMA InFlightMoves ==
    ASSUME NEW o \in Op, OthersStay(o), NEW pcs
    PROVE  /\ InFlight(pcs) \in Nat /\ InFlight(pcs)' \in Nat
           /\ (op'[o].pc \in pcs <=> op[o].pc \in pcs) => InFlight(pcs)' = InFlight(pcs)
           /\ op'[o].pc \in pcs /\ op[o].pc \notin pcs => InFlight(pcs)' = InFlight(pcs) + 1
           /\ op'[o].pc \notin pcs /\ op[o].pc \in pcs => InFlight(pcs)' = InFlight(pcs) - 1
<1> DEFINE before == {p \in Op : op[p].pc \in pcs}
           after == {p \in Op : op'[p].pc \in pcs}
<1>1. InFlight(pcs) = Cardinality(before) /\ InFlight(pcs)' = Cardinality(after)
  BY DEF InFlight
<1>2. /\ IsFiniteSet(before) /\ Cardinality(before) \in Nat
      /\ IsFiniteSet(after) /\ Cardinality(after) \in Nat
  <2>1. before \subseteq Op /\ after \subseteq Op
    OBVIOUS
  <2> QED
    BY <2>1, FiniteSets, FS_Subset, FS_CardinalityType
<1>3. \A p \in Op : p # o => (p \in before <=> p \in after)
  BY DEF OthersStay
<1>4. o \in before <=> op[o].pc \in pcs
  OBVIOUS
<1>5. o \in after <=> op'[o].pc \in pcs
  OBVIOUS
<1>6. CASE o \in before <=> o \in after
  <2>1. before = after
    BY <1>3, <1>6
  <2> QED
    BY <1>1, <1>2, <1>4, <1>5, <2>1, <1>6
<1>7. CASE o \in after /\ o \notin before
  <2>1. after = before \cup {o}
    BY <1>3, <1>7
  <2>2. Cardinality(after) = Cardinality(before) + 1
    BY <1>2, <1>7, <2>1, FS_AddElement
  <2> QED
    BY <1>1, <1>2, <1>4, <1>5, <1>7, <2>2
<1>8. CASE o \notin after /\ o \in before
  <2>1. after = before \ {o}
    BY <1>3, <1>8
  <2>2. Cardinality(after) = Cardinality(before) - 1
    BY <1>2, <1>8, <2>1, FS_RemoveElement
  <2> QED
    BY <1>1, <1>2, <1>4, <1>5, <1>8, <2>2
<1> QED
  BY <1>6, <1>7, <1>8

LEMMA PrimedKinds ==
    ASSUME Shapes', NEW o \in Op, op'[o].pc \in Fired
    PROVE  op'[o].kind = "evaluate"
<1>1. op'[o].kind \in Kind /\ OpShape(o)'
  BY DEF Shapes, TypeOK, OpRecord
<1> QED
  BY <1>1 DEF OpShape, Course, Kind, Fired

LEMMA FiringsStay ==
    ASSUME FiringsAreCounted, NEW o \in Op, OthersStay(o), plan' = plan,
           UNCHANGED <<sentCount, count, skipped, queue, faults>>, deleted' = deleted,
           op'[o].pc \in {"cool", "incr"} <=> op[o].pc \in {"cool", "incr"},
           op'[o].pc \in {"sentCount"} <=> op[o].pc \in {"sentCount"}
    PROVE  FiringsAreCounted'
<1>1. InFlight({"cool", "incr"})' = InFlight({"cool", "incr"})
  BY InFlightMoves
<1>2. InFlight({"sentCount"})' = InFlight({"sentCount"})
  BY InFlightMoves
<1>3. Sum(count)' = Sum(count) /\ Sum(queued)' = Sum(queued) /\ Sum(skipped)' = Sum(skipped)
  BY DEF queue, Sum
<1> QED
  BY <1>1, <1>2, <1>3 DEF FiringsAreCounted, queue

LEMMA EvaluationKeepsFirings ==
    ASSUME Shapes, FiringsAreCounted, NEW o \in Op, Evaluation(o)
    PROVE  FiringsAreCounted'
<1>0. /\ TypeOK /\ OthersStay(o) /\ TypeOK' /\ plan' = plan /\ plan.type = "TRIGGER"
      /\ op[o].kind = "evaluate" /\ op[o].pc # "done" /\ Who(o) \in Contact
      /\ count \in [Contact -> Nat] /\ queued \in [Contact -> Nat] /\ sentCount \in Nat
      /\ count' \in [Contact -> Nat] /\ queued' \in [Contact -> Nat]
      /\ skipped \in [Contact -> Nat] /\ skipped' \in [Contact -> Nat]
  <2>1. ShapeStep(o) /\ TypeOK'
    BY EvaluationKeepsShape DEF Evaluation
  <2>2. /\ op[o].kind = "evaluate" /\ op[o].pc # "done" /\ Who(o) \in Contact
        /\ plan.type = "TRIGGER" /\ TypeOK
    BY EvaluationSteps DEF Evaluation, Shapes
  <2> QED
    BY <2>1, <2>2 DEF ShapeStep, TypeOK
<1>1. /\ Sum(count) \in Nat /\ Sum(queued) \in Nat /\ Sum(skipped) \in Nat
      /\ InFlight({"cool", "incr"}) \in Nat /\ InFlight({"sentCount"}) \in Nat
      /\ InFlight({"cool", "incr"})' \in Nat /\ InFlight({"sentCount"})' \in Nat
  BY <1>0, UnitsAreFinite, InFlightMoves
<1>2. CASE ReadConfig(o) \/ ReadCooldown(o) \/ ReadCount(o) \/ SetCooldown(o)
  <2>1. /\ UNCHANGED <<sentCount, count, skipped, queue, faults>> /\ deleted' = deleted
        /\ \/ op[o].pc \in {"config", "cooldown", "count"} /\ Finish(o)
           \/ op[o].pc = "config" /\ Goto(o, "cooldown")
           \/ op[o].pc = "cooldown" /\ Goto(o, "count")
           \/ op[o].pc = "count" /\ Goto(o, "fire")
           \/ op[o].pc = "cool" /\ Goto(o, "incr")
    BY <1>2 DEF ReadConfig, ReadCooldown, ReadCount, SetCooldown, At, row, trig, people
  <2>2. \/ op[o].pc \in {"config", "cooldown", "count"}
           /\ op'[o].pc \in {"done", "cooldown", "count", "fire"}
        \/ op[o].pc = "cool" /\ op'[o].pc = "incr"
    BY <1>0, <2>1, Finished, Gone DEF PC
  <2> QED
    BY <1>0, <2>1, <2>2, FiringsStay
<1>3. CASE /\ op[o].pc = "fire" /\ AddMessage(Who(o)) /\ Goto(o, "sentCount")
           /\ UNCHANGED <<sentCount, count, skipped, deleted, faults>>
  <2>1. /\ op[o].pc = "fire" /\ AddMessage(Who(o)) /\ Goto(o, "sentCount")
        /\ UNCHANGED <<sentCount, count, skipped, deleted, faults>>
    BY <1>3
  <2>2. op'[o].pc = "sentCount"
    BY <1>0, <2>1, Gone DEF PC
  <2>3. InFlight({"cool", "incr"})' = InFlight({"cool", "incr"})
    BY <1>0, <2>1, <2>2, InFlightMoves
  <2>4. InFlight({"sentCount"})' = InFlight({"sentCount"}) + 1
    BY <1>0, <2>1, <2>2, InFlightMoves
  <2>5. Sum(count)' = Sum(count) /\ Sum(skipped)' = Sum(skipped)
    BY <2>1 DEF Sum
  <2>6. merged' = {} => merged = {} /\ Sum(queued)' = Sum(queued) + 1
    <3> SUFFICES ASSUME merged' = {} PROVE merged = {} /\ Sum(queued') = Sum(queued) + 1
      BY DEF Sum
    <3>1. PICK who \in Contact : who = Who(o)
      BY <1>0
    <3>2. /\ queued'[who] = queued[who] + 1 /\ merged = {}
          /\ \A d \in Contact : d # who => queued'[d] = queued[d]
      BY <1>0, <2>1, <3>1, Added
    <3> QED
      BY <1>0, <3>2, SumGrows
  <2> QED
    BY <1>0, <1>1, <2>1, <2>3, <2>4, <2>5, <2>6 DEF FiringsAreCounted
<1>4. CASE IncrementSent(o)
  <2>1. /\ op[o].pc = "sentCount" /\ sentCount' = sentCount + 1 /\ Goto(o, "cool")
        /\ UNCHANGED <<count, skipped, deleted, queue, faults>>
    BY <1>4 DEF IncrementSent, At, trig, people
  <2>2. op'[o].pc = "cool"
    BY <1>0, <2>1, Gone DEF PC
  <2>3. InFlight({"cool", "incr"})' = InFlight({"cool", "incr"}) + 1
    BY <1>0, <2>1, <2>2, InFlightMoves
  <2>4. InFlight({"sentCount"})' = InFlight({"sentCount"}) - 1
    BY <1>0, <2>1, <2>2, InFlightMoves
  <2>5. /\ Sum(count)' = Sum(count) /\ Sum(queued)' = Sum(queued) /\ merged' = merged
        /\ Sum(skipped)' = Sum(skipped)
    BY <2>1 DEF Sum, queue
  <2> QED
    BY <1>0, <1>1, <2>1, <2>3, <2>4, <2>5 DEF FiringsAreCounted
<1>5. CASE IncrementCount(o)
  <2>1. /\ op[o].pc = "incr" /\ count' = [count EXCEPT ![Who(o)] = @ + 1] /\ Finish(o)
        /\ UNCHANGED <<sentCount, skipped, deleted, queue, faults>>
    BY <1>5 DEF IncrementCount, At, row, people
  <2>2. op'[o].pc = "done"
    BY <1>0, <2>1, Finished
  <2>3. InFlight({"cool", "incr"})' = InFlight({"cool", "incr"}) - 1
    BY <1>0, <2>1, <2>2, InFlightMoves
  <2>4. InFlight({"sentCount"})' = InFlight({"sentCount"})
    BY <1>0, <2>1, <2>2, InFlightMoves
  <2>5. Sum(queued)' = Sum(queued) /\ merged' = merged /\ Sum(skipped)' = Sum(skipped)
    BY <2>1 DEF Sum, queue
  <2>6. Sum(count)' = Sum(count) + 1
    <3>1. PICK who \in Contact : who = Who(o)
      BY <1>0
    <3>2. /\ count'[who] = count[who] + 1
          /\ \A d \in Contact : d # who => count'[d] = count[d]
      BY <1>0, <2>1, <3>1
    <3>3. Sum(count') = Sum(count) + 1
      BY <1>0, <3>2, SumGrows
    <3> QED
      BY <3>3 DEF Sum
  <2> QED
    BY <1>0, <1>1, <2>1, <2>3, <2>4, <2>5, <2>6 DEF FiringsAreCounted
<1>6. CASE /\ op[o].pc = "fire" /\ Who(o) \in deleted /\ Goto(o, "cool")
           /\ skipped' = [skipped EXCEPT ![Who(o)] = @ + 1]
           /\ UNCHANGED <<sentCount, count, deleted, queue, faults>>
  <2>1. op'[o].pc = "cool"
    BY <1>0, <1>6, Gone DEF PC
  <2>2. InFlight({"cool", "incr"})' = InFlight({"cool", "incr"}) + 1
    BY <1>0, <1>6, <2>1, InFlightMoves
  <2>3. InFlight({"sentCount"})' = InFlight({"sentCount"})
    BY <1>0, <1>6, <2>1, InFlightMoves
  <2>4. Sum(count)' = Sum(count) /\ Sum(queued)' = Sum(queued) /\ merged' = merged
    BY <1>6 DEF Sum, queue
  <2>5. PICK who \in Contact : who = Who(o)
    BY <1>0
  <2>6. /\ skipped'[who] = skipped[who] + 1
        /\ \A d \in Contact : d # who => skipped'[d] = skipped[d]
    BY <1>0, <1>6, <2>5
  <2>7. Sum(skipped)' = Sum(skipped) + 1
    <3>1. Sum(skipped') = Sum(skipped) + 1
      BY <1>0, <2>6, SumGrows
    <3> QED
      BY <3>1 DEF Sum
  <2>8. \A d \in Contact : skipped'[d] > 0 => d \in deleted'
    BY <1>0, <1>6, <2>5, <2>6 DEF FiringsAreCounted
  <2> QED
    BY <1>0, <1>1, <1>6, <2>2, <2>3, <2>4, <2>7, <2>8 DEF FiringsAreCounted
<1>7. TriggerForContact(o) =>
          /\ op[o].pc = "fire" /\ UNCHANGED <<sentCount, count, deleted, faults>>
          /\ \/ AddMessage(Who(o)) /\ Goto(o, "sentCount") /\ UNCHANGED skipped
             \/ /\ Who(o) \in deleted /\ Goto(o, "cool") /\ UNCHANGED queue
                /\ skipped' = [skipped EXCEPT ![Who(o)] = @ + 1]
  BY DEF TriggerForContact, At, row
<1> QED
  BY <1>2, <1>3, <1>4, <1>5, <1>6, <1>7 DEF Evaluation

LEMMA NextKeepsFirings ==
    ASSUME Shapes, FiringsAreCounted, Next
    PROVE  FiringsAreCounted'
<1> SUFFICES ASSUME plan.type = "TRIGGER" PROVE FiringsAreCounted'
  BY NextKeepsShapes DEF FiringsAreCounted
<1>0. TypeOK /\ plan' = plan
  BY NextKeepsShapes DEF Shapes
<1>1. ASSUME NEW o \in Op, AbStep(o) PROVE FiringsAreCounted'
  <2>1. ShapeStep(o)
    BY <1>1, AbStepsKeepShape DEF AbStep
  <2>2. MarkRunning(o)
    BY <1>1, Kinds DEF AbStep, LaunchAbTest, NextVariant, QueueVariant, At, Shapes, OpShape, Course
  <2>3. op[o].pc = "run" /\ Finish(o)
        /\ UNCHANGED <<sentCount, count, skipped, deleted, queue, faults>>
    BY <2>2 DEF MarkRunning, At, trig, people
  <2>4. op'[o].pc = "done"
    BY <1>0, <2>3, Finished
  <2> QED
    BY <1>0, <2>1, <2>3, <2>4, FiringsStay DEF ShapeStep
<1>2. ASSUME NEW o \in Op, Activation(o) PROVE FiringsAreCounted'
  <2>1. ShapeStep(o) /\ op[o].kind # "evaluate" /\ op'[o].kind # "evaluate" /\ Shapes'
    BY <1>2, ActivationsKeepShape, NextKeepsShapes DEF Activation
  <2>2. op[o].pc \notin Fired /\ op'[o].pc \notin Fired
    BY <2>1, Kinds, PrimedKinds DEF Fired
  <2>3. UNCHANGED <<sentCount, count, skipped, deleted, queue, faults>>
    BY <1>2 DEF Activation, Activate, Deactivate, WriteKey, WriteList, MarkPaused, row, trig,
                people
  <2> QED
    BY <1>0, <2>1, <2>2, <2>3, FiringsStay DEF ShapeStep, Fired
<1>3. ASSUME NEW o \in Op, NEW c \in Contact, EvaluateContactEvent(o, c)
      PROVE  FiringsAreCounted'
  <2>1. /\ ShapeStep(o) /\ op[o].kind = "none" /\ op'[o].pc = "config"
        /\ op[o].pc = "free"
    BY <1>3, EvaluateKeepsShape DEF EvaluateContactEvent, Begin, At
  <2>2. UNCHANGED <<sentCount, count, skipped, deleted, queue, faults>>
    BY <1>3 DEF EvaluateContactEvent, row, people
  <2> QED
    BY <1>0, <2>1, <2>2, FiringsStay DEF ShapeStep
<1>4. ASSUME NEW o \in Op, Fails(o) PROVE FiringsAreCounted'
  <2>1. /\ ShapeStep(o) /\ Finish(o) /\ faults' # 0
        /\ UNCHANGED <<sentCount, count, skipped, deleted, queued, merged>>
    BY <1>4, FailsKeepsShape DEF row, trig, queue, people
  <2>2. op'[o].pc = "done"
    BY <1>0, <2>1, Finished
  <2>3. /\ InFlight({"cool", "incr"})' <= InFlight({"cool", "incr"})
        /\ InFlight({"cool", "incr"}) \in Nat /\ InFlight({"cool", "incr"})' \in Nat
    BY <2>1, <2>2, InFlightMoves DEF ShapeStep
  <2>4. /\ Sum(count)' = Sum(count) /\ Sum(count) \in Nat /\ sentCount \in Nat
        /\ Sum(skipped)' = Sum(skipped) /\ Sum(skipped) \in Nat
    BY <1>0, <2>1, UnitsAreFinite DEF Sum, TypeOK
  <2> QED
    BY <1>0, <2>1, <2>3, <2>4 DEF FiringsAreCounted
<1>5. ASSUME NEW c \in Contact, CooldownExpires(c) PROVE FiringsAreCounted'
  BY <1>5 DEF CooldownExpires, FiringsAreCounted, InFlight, Sum, row, queue, people
<1>6. ASSUME \/ MetaExpires
             \/ \E c \in Contact : ContactDeleted(c)
      PROVE  FiringsAreCounted'
  <2>1. /\ UNCHANGED <<plan, sentCount, count, skipped, queued, merged, op, faults>>
        /\ deleted \subseteq deleted'
    BY <1>6 DEF ContactDeleted, MetaExpires, row, queue, trig, people
  <2> QED
    BY <2>1 DEF FiringsAreCounted, InFlight, Sum
<1> QED
  BY <1>1, <1>2, <1>3, <1>4, <1>5, <1>6, StepsByType, DripStepKeepsShape, EvaluationKeepsFirings

-----------------------------------------------------------------------------
(* Trigger campaigns: one evaluation at a time stays within the limit.     *)

LEMMA EvaluatingOthers ==
    ASSUME NEW o \in Op, OthersStay(o), NEW c \in Contact
    PROVE  \A p \in Op : p # o => (p \in Evaluating(c)' <=> p \in Evaluating(c)) /\ op'[p] = op[p]
BY DEF OthersStay, Evaluating

LEMMA ServedStays ==
    ASSUME NEW o \in Op, OthersStay(o), NEW c \in Contact, Served(c), plan' = plan,
           queued'[c] = queued[c], count'[c] = count[c],
           o \notin Evaluating(c), o \notin Evaluating(c)'
    PROVE  Served(c)'
<1>1. Evaluating(c)' = Evaluating(c) /\ \A p \in Evaluating(c) : op'[p] = op[p]
  BY EvaluatingOthers DEF Evaluating
<1> QED
  BY <1>1 DEF Served

\* An evaluation that goes on or ends, and what it has counted.
LEMMA EvaluationServes ==
    ASSUME Shapes, NEW o \in Op, Evaluation(o), Served(Who(o)), faults' = 0
    PROVE  \A c \in Contact : c = Who(o) => Served(c)'
<1> SUFFICES ASSUME NEW c \in Contact, c = Who(o) PROVE Served(c)'
  OBVIOUS
<1>0. /\ TypeOK /\ OthersStay(o) /\ plan' = plan
      /\ op[o].kind = "evaluate" /\ op[o].pc # "done" /\ op[o].todo = <<c>>
      /\ o \in Evaluating(c) /\ Served(c)
      /\ count \in [Contact -> Nat] /\ queued \in [Contact -> Nat] /\ plan.max \in Nat
  <2>1. ShapeStep(o) /\ TypeOK
    BY EvaluationKeepsShape DEF Evaluation, Shapes
  <2>2. op[o].kind = "evaluate" /\ op[o].pc # "done" /\ op[o].todo = <<c>>
    BY EvaluationSteps DEF Evaluation
  <2>3. plan.max \in Nat
    BY <2>1, PlansAreSound DEF TypeOK, PlanRecord
  <2> QED
    BY <2>1, <2>2, <2>3 DEF ShapeStep, TypeOK, Evaluating
<1>1. Evaluating(c) = {o}
  BY <1>0 DEF Served
<1>2. ASSUME Finish(o) PROVE Evaluating(c)' = {}
  <2>1. op'[o].todo = <<>>
    BY <1>0, <1>2, Finished
  <2>2. o \notin Evaluating(c)'
    BY <2>1 DEF Evaluating
  <2> QED
    BY <1>0, <1>1, <2>2, EvaluatingOthers DEF Evaluating
<1>3. ASSUME NEW pc \in {"cooldown", "count", "fire", "sentCount", "cool", "incr"}, Goto(o, pc)
      PROVE  Evaluating(c)' = {o} /\ op'[o].pc = pc
  <2>1. op'[o].pc = pc /\ op'[o].kind = "evaluate" /\ op'[o].todo = <<c>>
    BY <1>0, <1>3, EvaluationMoves
  <2>2. o \in Evaluating(c)'
    BY <2>1 DEF Evaluating
  <2> QED
    BY <1>0, <1>1, <2>1, <2>2, EvaluatingOthers DEF Evaluating
<1>4. CASE ReadConfig(o) \/ ReadCooldown(o) \/ ReadCount(o)
  <2>1. /\ queued' = queued /\ count' = count /\ op[o].pc \in {"config", "cooldown", "count"}
        /\ \/ Finish(o) \/ Goto(o, "cooldown") \/ Goto(o, "count")
           \/ Goto(o, "fire") /\ (plan.max = 0 \/ count[c] < plan.max)
    BY <1>4 DEF ReadConfig, ReadCooldown, ReadCount, At, queue, trig
  <2>2. queued[c] <= count[c] /\ (plan.max > 0 => count[c] <= plan.max)
    BY <1>0, <1>1, <2>1 DEF Served, Fired
  <2>3. CASE Finish(o)
    BY <1>0, <1>2, <2>1, <2>2, <2>3 DEF Served
  <2>4. CASE Goto(o, "cooldown") \/ Goto(o, "count")
    <3>1. Evaluating(c)' = {o} /\ op'[o].pc \in {"cooldown", "count"}
      BY <1>3, <2>4
    <3> QED
      BY <1>0, <2>1, <2>2, <3>1 DEF Served, Fired
  <2>5. CASE Goto(o, "fire") /\ (plan.max = 0 \/ count[c] < plan.max)
    <3>1. Evaluating(c)' = {o} /\ op'[o].pc = "fire"
      BY <1>3, <2>5
    <3> QED
      BY <1>0, <2>1, <2>2, <2>5, <3>1 DEF Served, Fired
  <2> QED
    BY <2>1, <2>3, <2>4, <2>5
<1>5. CASE TriggerForContact(o)
  <2>1. /\ op[o].pc = "fire" /\ count' = count
        /\ \/ AddMessage(c) /\ Goto(o, "sentCount")
           \/ queued' = queued /\ Goto(o, "cool")
    BY <1>5 DEF TriggerForContact, At, queue
  <2>2. /\ queued[c] <= count[c] /\ (plan.max > 0 => count[c] < plan.max)
    BY <1>0, <1>1, <2>1 DEF Served, Fired
  <2>3. queued'[c] <= queued[c] + 1 /\ queued'[c] \in Nat
    BY <1>0, <2>1, Added
  <2>4. Evaluating(c)' = {o} /\ op'[o].pc \in Fired
    BY <1>3, <2>1 DEF Fired
  <2>5. queued'[c] <= count'[c] + 1
    BY <1>0, <2>1, <2>2, <2>3
  <2> QED
    BY <1>0, <2>1, <2>2, <2>4, <2>5 DEF Served
<1>6. CASE IncrementSent(o) \/ SetCooldown(o)
  <2>1. /\ op[o].pc \in Fired /\ queued' = queued /\ count' = count
        /\ Goto(o, "cool") \/ Goto(o, "incr")
    BY <1>6 DEF IncrementSent, SetCooldown, At, trig, queue, Fired
  <2>2. Evaluating(c)' = {o} /\ op'[o].pc \in Fired
    BY <1>3, <2>1 DEF Fired
  <2> QED
    BY <1>0, <1>1, <2>1, <2>2 DEF Served
<1>7. CASE IncrementCount(o)
  <2>1. /\ op[o].pc = "incr" /\ count' = [count EXCEPT ![c] = @ + 1] /\ Finish(o)
        /\ queued' = queued
    BY <1>7 DEF IncrementCount, At, queue
  <2>2. Evaluating(c)' = {}
    BY <1>2, <2>1
  <2>3. queued[c] <= count[c] + 1 /\ (plan.max > 0 => count[c] < plan.max)
    BY <1>0, <1>1, <2>1 DEF Served, Fired
  <2>4. count'[c] = count[c] + 1
    BY <1>0, <2>1
  <2> QED
    BY <1>0, <2>1, <2>2, <2>3, <2>4 DEF Served
<1> QED
  BY <1>4, <1>5, <1>6, <1>7 DEF Evaluation

LEMMA NextKeepsTriggerCourse ==
    ASSUME Shapes, TriggerCourse, Next
    PROVE  TriggerCourse'
<1> SUFFICES ASSUME plan.type = "TRIGGER", faults' = 0, NEW c \in Contact, c \notin overlapped'
             PROVE  Served(c)'
  BY NextKeepsShapes DEF TriggerCourse, Served
<1>0. TypeOK /\ plan' = plan /\ faults \in Nat
  BY NextKeepsShapes DEF Shapes, TypeOK
<1>1. ASSUME faults = 0, c \notin overlapped PROVE Served(c)
  BY <1>1 DEF TriggerCourse, Served
<1>2. ASSUME NEW o \in Op, AbStep(o) PROVE Served(c)'
  <2>1. ShapeStep(o)
    BY <1>2, AbStepsKeepShape DEF AbStep
  <2>2. MarkRunning(o)
    BY <1>2, Kinds DEF AbStep, LaunchAbTest, NextVariant, QueueVariant, At, Shapes, OpShape, Course
  <2>3. /\ op[o].pc = "run" /\ Finish(o) /\ UNCHANGED <<count, queued, overlapped, faults>>
    BY <2>2 DEF MarkRunning, At, trig, queue
  <2>4. op'[o].todo = <<>>
    BY <1>0, <2>3, Finished
  <2>5. o \notin Evaluating(c) /\ o \notin Evaluating(c)'
    BY <2>3, <2>4, Kinds DEF Evaluating
  <2> QED
    BY <1>0, <1>1, <2>1, <2>3, <2>5, ServedStays DEF ShapeStep
<1>3. ASSUME NEW o \in Op, Activation(o) PROVE Served(c)'
  <2>1. ShapeStep(o) /\ op[o].kind # "evaluate" /\ op'[o].kind # "evaluate"
    BY <1>3, ActivationsKeepShape DEF Activation
  <2>2. UNCHANGED <<count, queued, overlapped, faults>>
    BY <1>3 DEF Activation, Activate, Deactivate, WriteKey, WriteList, MarkPaused, queue, trig
  <2>3. o \notin Evaluating(c) /\ o \notin Evaluating(c)'
    BY <2>1 DEF Evaluating
  <2> QED
    BY <1>0, <1>1, <2>1, <2>2, <2>3, ServedStays DEF ShapeStep
<1>4. ASSUME NEW o \in Op, Evaluation(o) PROVE Served(c)'
  <2>1. ShapeStep(o) /\ Who(o) \in Contact /\ op[o].todo = <<Who(o)>>
        /\ op[o].kind = "evaluate" /\ op[o].pc # "done"
    BY <1>4, EvaluationKeepsShape, EvaluationSteps DEF Evaluation
  <2>2. UNCHANGED <<overlapped, faults>>
    BY <1>4 DEF Evaluation, ReadConfig, ReadCooldown, ReadCount, TriggerForContact,
                IncrementSent, SetCooldown, IncrementCount, trig
  <2>3. Served(c)
    BY <1>1, <2>2
  <2>4. CASE c = Who(o)
    BY <1>4, <2>3, <2>4, EvaluationServes
  <2>5. CASE c # Who(o)
    <3>1. o \notin Evaluating(c)
      BY <2>1, <2>5 DEF Evaluating
    <3>2. op'[o].todo \in {<<>>, <<Who(o)>>}
      <4>1. \/ Finish(o)
            \/ \E pc \in {"cooldown", "count", "fire", "sentCount", "cool", "incr"} : Goto(o, pc)
        BY <1>4 DEF Evaluation, ReadConfig, ReadCooldown, ReadCount, TriggerForContact,
                    IncrementSent, SetCooldown, IncrementCount
      <4> QED
        BY <1>0, <2>1, <4>1, EvaluationMoves, EvaluationEnds
    <3>3. o \notin Evaluating(c)'
      BY <2>5, <3>2 DEF Evaluating
    <3>4. queued'[c] = queued[c] /\ count'[c] = count[c]
      <4>1. CASE TriggerForContact(o)
        <5>1. (AddMessage(Who(o)) \/ queued' = queued) /\ count' = count
          BY <4>1 DEF TriggerForContact, queue
        <5> QED
          BY <1>0, <2>1, <2>5, <5>1, Added
      <4>2. CASE IncrementCount(o)
        BY <1>0, <2>1, <2>5, <4>2 DEF IncrementCount, queue, TypeOK
      <4>3. CASE ReadConfig(o) \/ ReadCooldown(o) \/ ReadCount(o) \/ IncrementSent(o)
                 \/ SetCooldown(o)
        BY <4>3 DEF ReadConfig, ReadCooldown, ReadCount, IncrementSent, SetCooldown, trig, queue
      <4> QED
        BY <1>4, <4>1, <4>2, <4>3 DEF Evaluation
    <3> QED
      BY <1>0, <2>1, <2>3, <3>1, <3>3, <3>4, ServedStays DEF ShapeStep
  <2> QED
    BY <2>4, <2>5
<1>5. ASSUME NEW o \in Op, NEW d \in Contact, EvaluateContactEvent(o, d) PROVE Served(c)'
  <2>1. /\ ShapeStep(o) /\ op[o].kind = "none" /\ op'[o].kind = "evaluate"
        /\ op'[o].pc = "config" /\ op'[o].todo = <<d>>
    BY <1>5, EvaluateKeepsShape
  <2>2. /\ UNCHANGED <<count, queued, faults>>
        /\ overlapped' = IF Evaluating(d) = {} THEN overlapped ELSE overlapped \cup {d}
    BY <1>5 DEF EvaluateContactEvent, queue
  <2>3. Served(c) /\ o \notin Evaluating(c)
    BY <1>1, <2>1, <2>2 DEF Evaluating
  <2>4. CASE c # d
    <3>1. o \notin Evaluating(c)'
      BY <2>1, <2>4 DEF Evaluating
    <3> QED
      BY <1>0, <2>1, <2>2, <2>3, <3>1, ServedStays DEF ShapeStep
  <2>5. CASE c = d
    <3>1. Evaluating(c) = {}
      BY <2>2, <2>5
    <3>2. Evaluating(c)' \subseteq {o}
      BY <2>1, <3>1, EvaluatingOthers DEF ShapeStep, Evaluating
    <3>3. queued[c] <= count[c] /\ (plan.max > 0 => count[c] <= plan.max)
      BY <1>0, <2>3, <3>1 DEF Served, TypeOK
    <3> QED
      BY <1>0, <2>1, <2>2, <3>2, <3>3 DEF Served, Fired, TypeOK
  <2> QED
    BY <2>4, <2>5
<1>6. ASSUME NEW o \in Op, Fails(o) PROVE Served(c)'
  BY <1>6, FailsKeepsShape
<1>7. ASSUME NEW d \in Contact, CooldownExpires(d) PROVE Served(c)'
  <2>1. UNCHANGED <<plan, count, queued, op, overlapped, faults>>
    BY <1>7 DEF CooldownExpires, row, queue
  <2>2. Served(c)
    BY <1>1, <2>1
  <2> QED
    BY <2>1, <2>2 DEF Served, Evaluating
<1>8. ASSUME \/ MetaExpires
             \/ \E d \in Contact : ContactDeleted(d)
      PROVE  Served(c)'
  <2>1. UNCHANGED <<plan, count, queued, op, overlapped, faults>>
    BY <1>8 DEF MetaExpires, ContactDeleted, row, queue, trig
  <2>2. Served(c)
    BY <1>1, <2>1
  <2> QED
    BY <2>1, <2>2 DEF Served, Evaluating
<1> QED
  BY <1>2, <1>3, <1>4, <1>5, <1>6, <1>7, <1>8, StepsByType, DripStepKeepsShape

-----------------------------------------------------------------------------
(* Drip campaigns: what a step writes, and what it knows.                  *)

\* The write of a contact's progress: an enrolment; what was read, or the contact is
\* clobbered; a removal; a completion; or the next step of a contact that was active.
Write(o, c) ==
    /\ clobbered \subseteq clobbered'
    /\ \A d \in Contact : d # c => progress'[d] = progress[d]
    /\ \/ op[o].kind = "launchDrip" /\ op[o].pc # "done" /\ progress'[c].status = "active"
       \/ /\ progress'[c] = op[o].read
          /\ c \in clobbered' \/ progress[c] = op[o].read
       \/ progress'[c].status = "removed"
       \/ /\ progress'[c].status = "completed" /\ op[o].kind = "stepCompleted"
          /\ At(o, "complete")
       \/ /\ progress'[c].status = "active" /\ op[o].kind = "stepCompleted"
          /\ c \in clobbered' \/ progress[c].status = "active"
Writes(o) == (UNCHANGED <<progress, clobbered>>) \/ \E c \in Contact : Write(o, c)

\* Where an operation comes from, and what it has read.
Moves(o) ==
    /\ op'[o].kind = "stepCompleted" => op[o].kind = "stepCompleted" \/ status = "RUNNING"
    /\ op'[o].kind = "launchDrip" /\ op'[o].pc # "done" =>
           op[o].kind = "launchDrip" /\ op[o].pc # "done"
    /\ op'[o].read \in {op[o].read, NoProgress} \cup {progress[c] : c \in Contact}
    /\ op'[o].pc = "advance" => op'[o].read.status = "active"
    /\ op'[o].pc # "scan" => op'[o].idle

\* A step that neither launches nor ends the campaign, nor looks at the others.
Plain(o) ==
    /\ OthersStay(o) /\ Moves(o) /\ Writes(o)
    /\ op[o].pc \notin {"scan", "complete"} /\ op'[o].pc # "scan"
    /\ UNCHANGED <<status, launches, faults>>
    /\ IF op'[o].pc = "run" THEN meta' = "there" /\ status = "DRAFT" ELSE meta' = meta

LEMMA FinishMoves ==
    ASSUME TypeOK, NEW o \in Op, Finish(o)
    PROVE  (Moves(o) /\ op'[o].pc # "scan" /\ op'[o].pc # "run") \/ op[o].kind = "none"
<1>1. /\ op'[o].kind = op[o].kind /\ op'[o].pc = "done" /\ op'[o].read = NoProgress
      /\ op'[o].idle
  BY Finished
<1> QED
  BY <1>1 DEF Moves

LEMMA PlainFirst ==
    ASSUME Shapes, NEW o \in Op, Looking(o), Enroll(o) \/ QueueStep(o) \/ ReadNext(o)
    PROVE  Plain(o)
<1>0. /\ TypeOK /\ OthersStay(o) /\ op[o] \in OpRecord
  <2>1. ShapeStep(o)
    BY EnrollKeepsShape, QueueStepKeepsShape, ReadNextKeepsShape
  <2> QED
    BY <2>1 DEF ShapeStep, Shapes, TypeOK
<1>1. CASE Enroll(o)
  <2>1. op[o].pc = "enroll" /\ op[o].kind = "launchDrip" /\ op[o].idle
    BY <1>0, <1>1, Kinds DEF Enroll, At, Looking
  <2>2. \/ /\ Goto(o, "meta") /\ UNCHANGED <<progress, clobbered>>
        \/ /\ op[o].todo # <<>> /\ Goto(o, "queueStep") /\ UNCHANGED clobbered
           /\ progress' = [progress EXCEPT ![Who(o)] = [status |-> "active", step |-> 0]]
    BY <1>1 DEF Enroll
  <2>3. Moves(o) /\ op'[o].pc # "scan" /\ op'[o].pc # "run"
    <3>1. /\ op'[o].pc \in {"meta", "queueStep"} /\ op'[o].kind = "launchDrip"
          /\ op'[o].read = op[o].read /\ op'[o].idle
      BY <1>0, <2>1, <2>2, Gone DEF PC
    <3> QED
      BY <2>1, <3>1 DEF Moves
  <2>4. Writes(o)
    <3>1. CASE UNCHANGED <<progress, clobbered>>
      BY <3>1 DEF Writes
    <3>2. CASE /\ op[o].todo # <<>> /\ UNCHANGED clobbered
               /\ progress' = [progress EXCEPT ![Who(o)] = [status |-> "active", step |-> 0]]
      <4>1. PICK c \in Contact : c = Who(o)
        BY <1>0, <3>2, FirstAndOthers DEF OpRecord, Who
      <4>2. progress'[c].status = "active" /\ \A d \in Contact : d # c => progress'[d] = progress[d]
        BY <1>0, <3>2, <4>1 DEF TypeOK
      <4> QED
        BY <2>1, <3>2, <4>2 DEF Writes, Write
    <3> QED
      BY <2>2, <3>1, <3>2
  <2> QED
    BY <1>0, <1>1, <2>1, <2>3, <2>4 DEF Plain, Enroll, row
<1>2. CASE QueueStep(o)
  <2>1. /\ op[o].pc = "queueStep" /\ op[o].idle /\ Goto(o, "readNext")
        /\ UNCHANGED <<row, progress, meta, clobbered, launches, faults>>
    BY <1>2 DEF QueueStep, At, Looking
  <2>2. /\ op'[o].pc = "readNext" /\ op'[o].kind = op[o].kind
        /\ op'[o].read = op[o].read /\ op'[o].idle
    BY <1>0, <2>1, Gone DEF PC
  <2> QED
    BY <1>0, <2>1, <2>2 DEF Plain, Moves, Writes, row
<1>3. CASE ReadNext(o)
  <2>1. /\ op[o].pc = "readNext" /\ op[o].idle
        /\ UNCHANGED <<row, drip, launches, faults>>
        /\ Who(o) \in Contact
        /\ op'[o] = [op[o] EXCEPT !.pc = "writeNext", !.read = progress[Who(o)]]
    BY <1>3, ReadNextKeepsShape DEF ReadNext, At, Looking
  <2>2. /\ op'[o].pc = "writeNext" /\ op'[o].kind = op[o].kind
        /\ op'[o].read = progress[Who(o)] /\ op'[o].idle
    BY <1>0, <2>1 DEF OpRecord
  <2> QED
    BY <1>0, <2>1, <2>2 DEF Plain, Moves, Writes, row, drip
<1> QED
  BY <1>1, <1>2, <1>3

LEMMA WriteNextIsPlain ==
    ASSUME Shapes, NEW o \in Op, Looking(o), WriteNext(o)
    PROVE  Plain(o)
<1>0. /\ TypeOK /\ OthersStay(o) /\ op[o] \in OpRecord /\ Who(o) \in Contact
      /\ op[o].pc = "writeNext" /\ op[o].idle /\ op[o].read \in Progress
      /\ op[o].kind \in {"launchDrip", "stepCompleted"}
      /\ WriteProgress(o, op[o].read) /\ UNCHANGED <<row, meta, launches, faults>>
  <2>1. ShapeStep(o) /\ Who(o) \in Contact
    BY WriteNextKeepsShape
  <2>2. op[o].pc = "writeNext" /\ op[o] \in OpRecord /\ TypeOK
    BY DEF WriteNext, At, Shapes, TypeOK
  <2>3. op[o].idle /\ op[o].kind \in {"launchDrip", "stepCompleted"}
    BY <2>2, Kinds DEF Looking, At
  <2> QED
    BY <2>1, <2>2, <2>3 DEF ShapeStep, WriteNext, OpRecord
<1>1. Moves(o) /\ op'[o].pc # "scan" /\ op'[o].pc # "run"
  <2>1. CASE Finish(o)
    BY <1>0, <2>1, FinishMoves
  <2>2. CASE /\ op[o].kind = "launchDrip"
             /\ op' = [op EXCEPT ![o].pc = "enroll", ![o].todo = Tail(@)]
    <3>1. /\ op'[o].pc = "enroll" /\ op'[o].kind = "launchDrip" /\ op'[o].read = op[o].read
          /\ op'[o].idle
      BY <1>0, <2>2 DEF TypeOK, OpRecord
    <3> QED
      BY <1>0, <2>2, <3>1 DEF Moves
  <2> QED
    BY <2>1, <2>2 DEF WriteNext
<1>2. Writes(o)
  <2>1. PICK c \in Contact : c = Who(o)
    BY <1>0
  <2>2. /\ clobbered \subseteq clobbered' /\ progress'[c] = op[o].read
        /\ \A d \in Contact : d # c => progress'[d] = progress[d]
        /\ c \in clobbered' \/ progress[c] = op[o].read
    BY <1>0, <2>1, ProgressWritten
  <2> QED
    BY <2>2 DEF Writes, Write
<1> QED
  BY <1>0, <1>1, <1>2 DEF Plain, row

LEMMA WriteMetaIsPlain ==
    ASSUME Shapes, Launching, NEW o \in Op, Looking(o), WriteMeta(o)
    PROVE  Plain(o)
<1>1. /\ OthersStay(o) /\ op[o].kind = "launchDrip" /\ op'[o] = [op[o] EXCEPT !.pc = "run"]
      /\ op[o] \in OpRecord
  BY WriteMetaKeepsShape DEF ShapeStep, Shapes, TypeOK
<1>2. /\ op[o].pc = "meta" /\ op[o].idle /\ meta' = "there"
      /\ UNCHANGED <<status, progress, clobbered, launches, faults>>
  BY DEF WriteMeta, At, Looking, row
<1>3. status = "DRAFT"
  BY <1>1, <1>2 DEF Launching, Enrolling
<1>4. /\ op'[o].pc = "run" /\ op'[o].kind = "launchDrip" /\ op'[o].read = op[o].read
      /\ op'[o].idle
  BY <1>1, <1>2 DEF OpRecord
<1> QED
  BY <1>1, <1>2, <1>3, <1>4 DEF Plain, Moves, Writes

LEMMA AdvanceIsPlain ==
    ASSUME Shapes, NEW o \in Op, Looking(o), Advance(o)
    PROVE  Plain(o)
<1>0. /\ TypeOK /\ OthersStay(o) /\ Who(o) \in Contact /\ op[o].step + 1 \in Nat
      /\ op[o].pc = "advance" /\ op[o].idle /\ op[o].read.status = "active"
      /\ op[o].kind = "stepCompleted" /\ op'[o].kind = "stepCompleted"
      /\ UNCHANGED <<row, meta, launches, faults>>
  <2>1. /\ ShapeStep(o) /\ Who(o) \in Contact
        /\ op[o].kind = "stepCompleted" /\ op'[o].kind = "stepCompleted"
    BY AdvanceKeepsShape
  <2>2. /\ op[o].pc = "advance" /\ op[o] \in OpRecord /\ TypeOK
        /\ UNCHANGED <<row, meta, launches, faults>>
    BY DEF Advance, At, Shapes, TypeOK
  <2>3. op[o].idle /\ op[o].read.status = "active" /\ op[o].step + 1 \in Nat
    BY <2>2 DEF Looking, At, OpRecord
  <2> QED
    BY <2>1, <2>2, <2>3 DEF ShapeStep
<1>1. CASE Finish(o) /\ UNCHANGED <<progress, clobbered>>
  <2>1. Moves(o) /\ op'[o].pc # "scan" /\ op'[o].pc # "run"
    BY <1>0, <1>1, FinishMoves
  <2> QED
    BY <1>0, <1>1, <2>1 DEF Plain, Writes, row
<1>2. CASE /\ WriteProgress(o, [status |-> "active", step |-> op[o].step + 1])
           /\ op'[o].pc \in {"queueStep", "again"}
           /\ op'[o].idle = op[o].idle /\ op'[o].read = op[o].read
  <2>1. Moves(o)
    BY <1>0, <1>2 DEF Moves
  <2>2. PICK c \in Contact : c = Who(o)
    BY <1>0
  <2>3. [status |-> "active", step |-> op[o].step + 1] \in Progress
    BY <1>0 DEF Progress
  <2>4. /\ clobbered \subseteq clobbered' /\ progress'[c].status = "active"
        /\ \A d \in Contact : d # c => progress'[d] = progress[d]
        /\ c \in clobbered' \/ progress[c] = op[o].read
    BY <1>0, <1>2, <2>2, <2>3, ProgressWritten
  <2>5. Writes(o)
    BY <1>0, <2>4 DEF Writes, Write
  <2> QED
    BY <1>0, <1>2, <2>1, <2>5 DEF Plain, row
<1> QED
  BY <1>1, <1>2, AdvanceKeepsShape

LEMMA PlainRest ==
    ASSUME Shapes, NEW o \in Op, Looking(o), ReadProgress(o) \/ Again(o) \/ WriteRemoved(o)
    PROVE  Plain(o)
<1>0. /\ TypeOK /\ OthersStay(o) /\ op[o] \in OpRecord
  <2>1. ShapeStep(o)
    BY ReadProgressKeepsShape, AgainKeepsShape, WriteRemovedKeepsShape
  <2> QED
    BY <2>1 DEF ShapeStep, Shapes, TypeOK
<1>1. CASE ReadProgress(o)
  <2>1. /\ op[o].pc = "progress" /\ op[o].kind = "stepCompleted" /\ op[o].idle
        /\ UNCHANGED <<row, drip, launches, faults>>
    BY <1>0, <1>1, Kinds DEF ReadProgress, At, Looking
  <2>2. Moves(o) /\ op'[o].pc # "scan" /\ op'[o].pc # "run"
    <3>1. CASE Finish(o)
      BY <1>0, <2>1, <3>1, FinishMoves
    <3>2. CASE /\ progress[Who(o)].status = "active" /\ op'[o].read = progress[Who(o)]
               /\ op'[o].pc \in {"complete", "advance"} /\ op'[o].idle = op[o].idle
               /\ op'[o].kind = "stepCompleted" /\ Who(o) \in Contact
      BY <2>1, <3>2 DEF Moves
    <3> QED
      BY <1>1, <3>1, <3>2, ReadProgressKeepsShape
  <2> QED
    BY <1>0, <2>1, <2>2 DEF Plain, Writes, row, drip
<1>2. CASE Again(o)
  <2>1. /\ op[o].pc = "again" /\ op[o].kind = "stepCompleted" /\ op[o].idle
        /\ UNCHANGED <<row, drip, launches, faults>> /\ (Finish(o) \/ Goto(o, "progress"))
    BY <1>0, <1>2, Kinds DEF Again, At, Looking
  <2>2. Moves(o) /\ op'[o].pc # "scan" /\ op'[o].pc # "run"
    <3>1. CASE Finish(o)
      BY <1>0, <2>1, <3>1, FinishMoves
    <3>2. CASE Goto(o, "progress")
      <4>1. /\ op'[o].pc = "progress" /\ op'[o].kind = "stepCompleted"
            /\ op'[o].read = op[o].read /\ op'[o].idle
        BY <1>0, <2>1, <3>2, Gone DEF PC
      <4> QED
        BY <2>1, <4>1 DEF Moves
    <3> QED
      BY <2>1, <3>1, <3>2
  <2> QED
    BY <1>0, <2>1, <2>2 DEF Plain, Writes, row, drip
<1>3. CASE WriteRemoved(o)
  <2>1. /\ op[o].pc = "remove" /\ op[o].kind = "remove" /\ Who(o) \in Contact
        /\ [op[o].read EXCEPT !.status = "removed"] \in Progress
        /\ WriteProgress(o, [op[o].read EXCEPT !.status = "removed"])
        /\ Finish(o) /\ UNCHANGED <<row, meta, launches, faults>>
    BY <1>3, WriteRemovedKeepsShape DEF WriteRemoved, At
  <2>2. Moves(o) /\ op'[o].pc # "scan" /\ op'[o].pc # "run"
    BY <1>0, <2>1, FinishMoves
  <2>3. Writes(o)
    <3>1. PICK c \in Contact : c = Who(o)
      BY <2>1
    <3>2. /\ clobbered \subseteq clobbered'
          /\ progress'[c] = [op[o].read EXCEPT !.status = "removed"]
          /\ \A d \in Contact : d # c => progress'[d] = progress[d]
      BY <1>0, <2>1, <3>1, ProgressWritten
    <3>3. progress'[c].status = "removed"
      BY <1>0, <3>2 DEF OpRecord, Progress
    <3> QED
      BY <3>2, <3>3 DEF Writes, Write
  <2> QED
    BY <1>0, <2>1, <2>2, <2>3 DEF Plain, row
<1> QED
  BY <1>1, <1>2, <1>3

\* A report begins an operation that has read nothing yet, or is lost; a removal begins
\* with what it read.
LEMMA BeginningsArePlain ==
    ASSUME Shapes, NEW o \in Op,
           \/ \E a \in awaiting : OnStepCompleted(o, a[1], a[2])
           \/ \E c \in Contact : RemoveContact(o, c)
    PROVE  Plain(o) \/ UNCHANGED <<op, progress, meta, clobbered, status, launches, faults>>
<1>1. CASE \E a \in awaiting : OnStepCompleted(o, a[1], a[2])
  <2>1. PICK a \in awaiting : OnStepCompleted(o, a[1], a[2])
    BY <1>1
  <2>2. /\ ShapeStep(o) /\ UNCHANGED <<row, progress, meta, clobbered, launches, faults>>
        /\ \/ op' = op
           \/ /\ status = "RUNNING" /\ op[o].pc = "free"
              /\ op'[o].kind = "stepCompleted" /\ op'[o].pc = "progress"
              /\ op'[o].read = NoProgress /\ op'[o].idle
    BY <2>1, OnStepCompletedKeepsShape DEF OnStepCompleted
  <2>3. CASE op' = op
    BY <2>2, <2>3 DEF row
  <2>4. CASE op' # op
    BY <2>2, <2>4 DEF Plain, Moves, Writes, ShapeStep, row
  <2> QED
    BY <2>3, <2>4
<1>2. CASE \E c \in Contact : RemoveContact(o, c)
  <2>1. PICK c \in Contact : RemoveContact(o, c)
    BY <1>2
  <2>2. /\ ShapeStep(o) /\ UNCHANGED <<row, drip, launches, faults>> /\ op[o].pc = "free"
        /\ op'[o].kind = "remove" /\ op'[o].pc = "remove" /\ op'[o].read = progress[c]
        /\ op'[o].idle
    BY <2>1, RemoveContactKeepsShape DEF RemoveContact, At
  <2> QED
    BY <2>2 DEF Plain, Moves, Writes, ShapeStep, row, drip
<1> QED
  BY <1>1, <1>2

\* What DripCourse says of a campaign that was launched once at most.
Story ==
    /\ Launching
    /\ MetaKept
    /\ Drafted
    /\ \A o \in Op : Looking(o)
    /\ status = "COMPLETED" => NotActive(Contact)
    /\ Noticed

\* Once the launch is over no write makes an inactive contact active, unless it is stale.
LEMMA InactiveStays ==
    ASSUME NEW o \in Op, Writes(o), Launching, status # "DRAFT", NEW c \in Contact,
           c \notin clobbered', progress'[c].status = "active"
    PROVE  c \notin clobbered /\ progress[c].status = "active"
<1>1. ~(op[o].kind = "launchDrip" /\ op[o].pc # "done")
  BY DEF Launching, Enrolling
<1>2. clobbered \subseteq clobbered'
  BY DEF Writes, Write
<1>3. progress[c].status = "active"
  <2>1. CASE progress' = progress
    BY <2>1
  <2>2. ASSUME NEW d \in Contact, Write(o, d) PROVE progress[c].status = "active"
    <3>1. CASE c # d
      BY <2>2, <3>1 DEF Write
    <3>2. CASE c = d
      BY <1>1, <2>2, <3>2 DEF Write
    <3> QED
      BY <3>1, <3>2
  <2> QED
    BY <2>1, <2>2 DEF Writes
<1> QED
  BY <1>2, <1>3

\* A look at the others stays true, and so does the end of the campaign.
LEMMA LooksStay ==
    ASSUME Shapes, Story, NEW o \in Op, OthersStay(o), Writes(o)
    PROVE  /\ \A p \in Op : p # o => Looking(p)'
           /\ status = "COMPLETED" => NotActive(Contact)'
<1>1. ASSUME NEW p \in Op, p # o PROVE Looking(p)'
  <2>1. op'[p] = op[p] /\ Looking(p)
    BY <1>1 DEF OthersStay, Story
  <2>2. ASSUME op[p].pc = "scan", op[p].idle
        PROVE  \A c \in Contact \ ToSet(op[p].todo) :
                   c \notin clobbered' => progress'[c].status # "active"
    <3>1. status # "DRAFT" /\ Launching
      BY <2>2, Kinds DEF Story, Drafted
    <3>2. \A c \in Contact \ ToSet(op[p].todo) :
              c \notin clobbered => progress[c].status # "active"
      BY <2>1, <2>2 DEF Looking, At, NotActive
    <3> QED
      BY <3>1, <3>2, InactiveStays
  <2> QED
    BY <2>1, <2>2 DEF Looking, At, NotActive
<1>2. ASSUME status = "COMPLETED" PROVE NotActive(Contact)'
  <2>1. Launching /\ \A c \in Contact : c \notin clobbered => progress[c].status # "active"
    BY <1>2 DEF Story, NotActive
  <2> QED
    BY <1>2, <2>1, InactiveStays DEF NotActive
<1> QED
  BY <1>1, <1>2

\* A draft stays without completions.
LEMMA DraftStays ==
    ASSUME Drafted, status = "DRAFT", NEW o \in Op, OthersStay(o), Writes(o),
           op'[o].kind # "stepCompleted",
           op'[o].read \in {op[o].read, NoProgress} \cup {progress[c] : c \in Contact}
    PROVE  /\ \A p \in Op : op'[p].kind # "stepCompleted" /\ op'[p].read.status # "completed"
           /\ \A c \in Contact : progress'[c].status # "completed"
<1>1. /\ \A p \in Op : op[p].kind # "stepCompleted" /\ op[p].read.status # "completed"
      /\ \A c \in Contact : progress[c].status # "completed"
  BY DEF Drafted
<1>2. op'[o].read.status # "completed"
  BY <1>1 DEF NoProgress
<1>3. \A c \in Contact : progress'[c].status # "completed"
  BY <1>1 DEF Writes, Write
<1> QED
  BY <1>1, <1>2, <1>3 DEF OthersStay

\* The meta key does not go away but by its expiry.
LEMMA MetaStays ==
    ASSUME Story, NEW o \in Op, OthersStay(o), meta # "absent" => meta' # "absent",
           status # "DRAFT" \/ status' = "DRAFT" \/ meta # "absent",
           op'[o].pc = "run" => meta' # "absent"
    PROVE  MetaKept'
<1>1. ASSUME NEW p \in Op, op'[p].kind = "launchDrip", op'[p].pc = "run"
      PROVE  meta' # "absent"
  <2>1. CASE p = o
    BY <1>1, <2>1
  <2>2. CASE p # o
    BY <1>1, <2>2 DEF OthersStay, Story, MetaKept, At
  <2> QED
    BY <2>1, <2>2
<1>2. status' # "DRAFT" => meta' # "absent"
  BY DEF Story, MetaKept
<1> QED
  BY <1>1, <1>2 DEF MetaKept, At

LEMMA PlainKeepsStory ==
    ASSUME Shapes, Story, NEW o \in Op, Plain(o)
    PROVE  Story'
<1>0. /\ OthersStay(o) /\ Moves(o) /\ Writes(o) /\ UNCHANGED <<status, launches, faults>>
      /\ op[o].pc # "scan" /\ op[o].pc # "complete" /\ op'[o].pc # "scan"
      /\ IF op'[o].pc = "run" THEN meta' = "there" /\ status = "DRAFT" ELSE meta' = meta
  BY DEF Plain
<1>1. Launching'
  <2>1. Enrolling' \subseteq Enrolling
    BY <1>0 DEF Moves, OthersStay, Enrolling
  <2> QED
    BY <1>0, <2>1 DEF Story, Launching
<1>2. Drafted'
  <2> SUFFICES ASSUME status = "DRAFT" PROVE Drafted'
    BY <1>0 DEF Drafted
  <2>1. op'[o].kind # "stepCompleted"
    BY <1>0 DEF Moves, Story, Drafted
  <2> QED
    BY <1>0, <2>1, DraftStays DEF Story, Moves, Drafted
<1>3. \A p \in Op : Looking(p)'
  <2>1. Looking(o)'
    BY <1>0 DEF Moves, Looking, At
  <2> QED
    BY <1>0, <2>1, LooksStay
<1>4. status' = "COMPLETED" => NotActive(Contact)'
  BY <1>0, LooksStay
<1>5. Noticed'
  <2> SUFFICES ASSUME faults = 0, clobbered' = {}, meta' # "expired",
                      \A c \in Contact : progress'[c].status = "completed"
               PROVE  status = "COMPLETED" \/ \E p \in Op : op'[p].pc = "scan" /\ op'[p].idle
    BY <1>0 DEF Noticed, At
  <2>0. meta # "expired"
    BY <1>0, <1>2, SomeContact DEF Drafted
  <2>1. clobbered = {} /\ \A c \in Contact : progress[c].status = "completed"
    <3>1. clobbered = {}
      BY <1>0 DEF Writes, Write
    <3>2. \A c \in Contact : progress[c].status = "completed"
      BY <1>0 DEF Writes, Write, At
    <3> QED
      BY <3>1, <3>2
  <2>2. status = "COMPLETED" \/ \E p \in Op : op[p].pc = "scan" /\ op[p].idle
    BY <2>0, <2>1 DEF Story, Noticed, At
  <2> QED
    BY <1>0, <2>2 DEF OthersStay
<1>6. MetaKept'
  BY <1>0, MetaStays
<1> QED
  BY <1>1, <1>2, <1>3, <1>4, <1>5, <1>6 DEF Story

LEMMA LaunchDripKeepsStory ==
    ASSUME Shapes, Story, NEW o \in Op, LaunchDrip(o), launches' <= 1
    PROVE  Story'
<1>0. /\ OthersStay(o) /\ op[o].pc = "free" /\ op'[o].kind = "launchDrip"
      /\ op'[o].pc = "enroll" /\ op'[o].read = NoProgress /\ op'[o].idle
      /\ UNCHANGED <<status, progress, meta, clobbered, faults>> /\ launches' = launches + 1
      /\ launches = 0 /\ TypeOK
  <2>1. PICK contacts \in SetToSeqs(Contact) : Begin(o, "launchDrip", "enroll", contacts)
    BY DEF LaunchDrip
  <2>2. contacts \in Seq(Contact) /\ "launchDrip" \in Kind /\ "enroll" \in PC /\ TypeOK
    BY Audience DEF Kind, PC, Shapes
  <2>3. /\ OthersStay(o) /\ op'[o].kind = "launchDrip"
        /\ op'[o].pc = "enroll" /\ op'[o].read = NoProgress /\ op'[o].idle
    BY <2>1, <2>2, Begun
  <2>4. /\ op[o].pc = "free" /\ UNCHANGED <<status, progress, meta, clobbered, faults>>
        /\ launches' = launches + 1
    BY <2>1 DEF LaunchDrip, Begin, At, row, drip
  <2>5. launches = 0
    BY <2>2, <2>4, LaunchBoundIsNat DEF TypeOK
  <2> QED
    BY <2>2, <2>3, <2>4, <2>5
<1>1. status = "DRAFT" /\ Enrolling = {} /\ Drafted /\ Noticed
  BY <1>0 DEF Story, Launching
<1>2. Launching'
  <2>1. Enrolling' \subseteq {o}
    BY <1>0, <1>1 DEF OthersStay, Enrolling
  <2> QED
    BY <1>0, <1>1, <2>1 DEF Launching
<1>3. Drafted'
  BY <1>0, <1>1, DraftStays DEF Writes, Drafted
<1>4. \A p \in Op : Looking(p)'
  <2>1. Looking(o)'
    BY <1>0 DEF Looking, At
  <2> QED
    BY <1>0, <2>1, LooksStay DEF Writes
<1>5. Noticed'
  BY <1>0, <1>1, SomeContact DEF Noticed, Drafted
<1>6. MetaKept'
  BY <1>0, MetaStays
<1> QED
  BY <1>0, <1>1, <1>2, <1>3, <1>4, <1>5, <1>6 DEF Story

LEMMA CompleteContactKeepsStory ==
    ASSUME Shapes, Story, NEW o \in Op, CompleteContact(o)
    PROVE  Story'
<1>0. /\ OthersStay(o) /\ TypeOK /\ Who(o) \in Contact
      /\ op[o].kind = "stepCompleted" /\ op[o].pc = "complete" /\ op'[o].kind = "stepCompleted"
      /\ op'[o].pc # "run" /\ op'[o].idle /\ op[o].step \in Nat
      /\ UNCHANGED <<status, meta, launches, faults>>
      /\ WriteProgress(o, [status |-> "completed", step |-> op[o].step])
      /\ \/ meta # "there" /\ op'[o].pc = "done"
         \/ op'[o].pc = "scan" /\ ToSet(op'[o].todo) = Contact
  <2>1. /\ ShapeStep(o) /\ Who(o) \in Contact
        /\ op[o].kind = "stepCompleted" /\ op'[o].kind = "stepCompleted"
        /\ \/ meta # "there" /\ Finish(o)
           \/ /\ op'[o].pc = "scan" /\ ToSet(op'[o].todo) = Contact
              /\ op'[o].idle = op[o].idle /\ op'[o].read = op[o].read
    BY CompleteContactKeepsShape
  <2>2. /\ op[o].pc = "complete" /\ UNCHANGED <<status, meta, launches, faults>>
        /\ WriteProgress(o, [status |-> "completed", step |-> op[o].step])
        /\ TypeOK /\ op[o].step \in Nat
    BY DEF CompleteContact, At, row, Shapes, TypeOK, OpRecord
  <2>3. op[o].idle
    BY <2>2 DEF Story, Looking, At
  <2>4. Finish(o) => op'[o].pc = "done" /\ op'[o].idle
    BY <2>2, Finished
  <2> QED
    BY <2>1, <2>2, <2>3, <2>4 DEF ShapeStep
<1>1. Writes(o)
  <2>1. PICK c \in Contact : c = Who(o)
    BY <1>0
  <2>2. [status |-> "completed", step |-> op[o].step] \in Progress
    BY <1>0 DEF Progress
  <2>3. /\ clobbered \subseteq clobbered' /\ progress'[c].status = "completed"
        /\ \A d \in Contact : d # c => progress'[d] = progress[d]
    BY <1>0, <2>1, <2>2, ProgressWritten
  <2> QED
    BY <1>0, <2>3 DEF Writes, Write, At
<1>2. status # "DRAFT" /\ meta # "absent"
  BY <1>0 DEF Story, Drafted, MetaKept
<1>3. Launching'
  <2>1. Enrolling' = Enrolling
    BY <1>0 DEF OthersStay, Enrolling
  <2> QED
    BY <1>0, <2>1 DEF Story, Launching
<1>4. \A p \in Op : Looking(p)'
  <2>1. Looking(o)'
    BY <1>0 DEF Looking, At, NotActive
  <2> QED
    BY <1>0, <1>1, <2>1, LooksStay
<1>5. Noticed'
  <2>1. CASE op'[o].pc = "scan"
    BY <1>0, <2>1 DEF Noticed, At
  <2>2. CASE meta # "there"
    <3>1. meta' = "expired"
      BY <1>0, <1>2, <2>2 DEF TypeOK
    <3> QED
      BY <3>1 DEF Noticed
  <2> QED
    BY <1>0, <2>1, <2>2
<1>6. status' = "COMPLETED" => NotActive(Contact)'
  BY <1>0, <1>1, LooksStay
<1>7. MetaKept'
  BY <1>0, MetaStays
<1> QED
  BY <1>0, <1>2, <1>3, <1>4, <1>5, <1>6, <1>7 DEF Story, Drafted

LEMMA CheckCompletionKeepsStory ==
    ASSUME Shapes, Story, NEW o \in Op, CheckCompletion(o)
    PROVE  Story'
<1>0. /\ OthersStay(o) /\ TypeOK /\ op[o] \in OpRecord
      /\ op[o].kind = "stepCompleted" /\ op[o].pc = "scan"
      /\ UNCHANGED <<progress, meta, clobbered, launches, faults>>
      /\ Writes(o) /\ status # "DRAFT" /\ Enrolling = {}
  <2>1. ShapeStep(o) /\ op[o].kind = "stepCompleted"
    BY CheckCompletionKeepsShape
  <2>2. op[o].pc = "scan" /\ UNCHANGED <<progress, meta, clobbered, launches, faults>>
    BY DEF CheckCompletion, At, drip
  <2>3. status # "DRAFT"
    BY <2>1 DEF Story, Drafted
  <2> QED
    BY <2>1, <2>2, <2>3 DEF ShapeStep, Writes, Story, Launching, Shapes, TypeOK
<1>1. CASE /\ op[o].todo = <<>> /\ Finish(o)
           /\ status' = IF op[o].idle THEN "COMPLETED" ELSE status
  <2>1. /\ op'[o].kind = "stepCompleted" /\ op'[o].pc = "done" /\ op'[o].idle
        /\ status' # "DRAFT"
    BY <1>0, <1>1, Finished
  <2>2. Launching'
    <3>1. Enrolling' = {}
      BY <1>0, <2>1 DEF OthersStay, Enrolling
    <3> QED
      BY <1>0, <3>1 DEF Story, Launching
  <2>3. \A p \in Op : Looking(p)'
    <3>1. Looking(o)'
      BY <2>1 DEF Looking, At
    <3> QED
      BY <1>0, <3>1, LooksStay
  <2>4. status' = "COMPLETED" => NotActive(Contact)'
    <3>1. CASE op[o].idle
      <4>1. NotActive(Contact)
        BY <1>0, <1>1, <3>1, Emptied DEF Story, Looking, At, NotActive
      <4> QED
        BY <1>0, <4>1 DEF NotActive
    <3>2. CASE ~op[o].idle
      BY <1>0, <1>1, <3>2, LooksStay
    <3> QED
      BY <3>1, <3>2
  <2>5. Noticed'
    <3> SUFFICES ASSUME faults = 0, clobbered = {}, meta # "expired",
                        \A c \in Contact : progress[c].status = "completed",
                        status' # "COMPLETED"
                 PROVE  \E p \in Op : op'[p].pc = "scan" /\ op'[p].idle
      BY <1>0 DEF Noticed, At
    <3>1. ~op[o].idle /\ status # "COMPLETED"
      BY <1>1
    <3>2. PICK p \in Op : op[p].pc = "scan" /\ op[p].idle
      BY <3>1 DEF Story, Noticed, At
    <3> QED
      BY <1>0, <3>1, <3>2 DEF OthersStay
  <2>6. MetaKept'
    BY <1>0, <2>1, MetaStays
  <2> QED
    BY <2>1, <2>2, <2>3, <2>4, <2>5, <2>6 DEF Story, Drafted
<1>2. CASE /\ op[o].todo # <<>> /\ status' = status
           /\ op'[o].kind = "stepCompleted" /\ op'[o].pc = "scan"
           /\ op'[o].todo = Tail(op[o].todo) /\ op'[o].read = op[o].read
           /\ op'[o].idle <=> op[o].idle /\ progress[Who(o)].status # "active"
  <2>1. Launching'
    <3>1. Enrolling' = {}
      BY <1>0, <1>2 DEF OthersStay, Enrolling
    <3> QED
      BY <1>0, <1>2, <3>1 DEF Story, Launching
  <2>2. Looking(o)'
    <3>1. ToSet(op[o].todo) = {Who(o)} \cup ToSet(Tail(op[o].todo))
      BY <1>0, <1>2, FirstAndOthers DEF OpRecord, Who
    <3>2. ASSUME op'[o].idle
          PROVE  \A c \in Contact \ ToSet(Tail(op[o].todo)) :
                     c \notin clobbered => progress[c].status # "active"
      <4>1. \A c \in Contact \ ToSet(op[o].todo) :
                c \notin clobbered => progress[c].status # "active"
        BY <1>0, <1>2, <3>2 DEF Story, Looking, At, NotActive
      <4> QED
        BY <1>2, <3>1, <3>2, <4>1
    <3> QED
      BY <1>0, <1>2, <3>2 DEF Looking, At, NotActive
  <2>3. \A p \in Op : Looking(p)'
    BY <1>0, <2>2, LooksStay
  <2>4. status' = "COMPLETED" => NotActive(Contact)'
    BY <1>0, <1>2, LooksStay
  <2>5. Noticed'
    <3> SUFFICES ASSUME faults = 0, clobbered = {}, meta # "expired",
                        \A c \in Contact : progress[c].status = "completed",
                        status # "COMPLETED"
                 PROVE  \E p \in Op : op'[p].pc = "scan" /\ op'[p].idle
      BY <1>0, <1>2 DEF Noticed, At
    <3>1. PICK p \in Op : op[p].pc = "scan" /\ op[p].idle
      BY DEF Story, Noticed, At
    <3>2. CASE p = o
      <4>1. Who(o) \in Contact
        BY <1>0, <1>2, FirstAndOthers DEF OpRecord, Who
      <4>2. progress[Who(o)].status = "completed"
        BY <4>1
      <4> QED
        BY <1>2, <3>1, <3>2, <4>2
    <3>3. CASE p # o
      BY <1>0, <3>1, <3>3 DEF OthersStay
    <3> QED
      BY <3>2, <3>3
  <2>6. MetaKept'
    BY <1>0, <1>2, MetaStays
  <2> QED
    BY <1>0, <1>2, <2>1, <2>3, <2>4, <2>5, <2>6 DEF Story, Drafted
<1> QED
  BY <1>1, <1>2, CheckCompletionKeepsShape

LEMMA MarkRunningKeepsStory ==
    ASSUME Shapes, Story, plan.type = "DRIP", NEW o \in Op, MarkRunning(o)
    PROVE  Story'
<1>0. /\ OthersStay(o) /\ TypeOK /\ Finish(o) /\ status' = "RUNNING"
      /\ op[o].kind = "launchDrip" /\ op[o].pc = "run"
      /\ UNCHANGED <<progress, meta, clobbered, launches, faults>> /\ Writes(o)
  <2>1. ShapeStep(o)
    BY AbStepsKeepShape
  <2>2. /\ op[o].pc = "run" /\ Finish(o) /\ status' = "RUNNING"
        /\ UNCHANGED <<progress, meta, clobbered, launches, faults>>
    BY DEF MarkRunning, At, drip
  <2>3. op[o].kind = "launchDrip"
    BY <2>2, Kinds DEF Shapes, OpShape, Course
  <2> QED
    BY <2>1, <2>2, <2>3 DEF ShapeStep, Shapes, Writes
<1>1. op'[o].kind = "launchDrip" /\ op'[o].pc = "done" /\ op'[o].idle
  BY <1>0, Finished
<1>2. o \in Enrolling /\ status = "DRAFT" /\ \A p \in Enrolling : p = o
  BY <1>0 DEF Enrolling, Story, Launching
<1>3. Launching'
  <2>1. Enrolling' = {}
    BY <1>0, <1>1, <1>2 DEF OthersStay, Enrolling
  <2>2. launches # 0
    BY <1>2 DEF Story, Launching
  <2> QED
    BY <1>0, <2>1, <2>2 DEF Launching
<1>4. \A p \in Op : Looking(p)'
  <2>1. Looking(o)'
    BY <1>1 DEF Looking, At
  <2> QED
    BY <1>0, <2>1, LooksStay
<1>5. Noticed'
  BY <1>0, <1>2, SomeContact DEF Noticed, Story, Drafted
<1>6. MetaKept'
  <2>1. meta # "absent"
    BY <1>0 DEF Story, MetaKept, At
  <2> QED
    BY <1>0, <1>1, <2>1, MetaStays
<1> QED
  BY <1>0, <1>3, <1>4, <1>5, <1>6 DEF Story, Drafted

LEMMA FailsKeepsStory ==
    ASSUME Shapes, Story, NEW o \in Op, Fails(o)
    PROVE  Story'
<1>0. /\ OthersStay(o) /\ TypeOK /\ Finish(o) /\ faults' # 0
      /\ UNCHANGED <<status, progress, meta, clobbered, launches>> /\ Writes(o)
      /\ op'[o].kind = op[o].kind /\ op'[o].pc = "done" /\ op'[o].idle
      /\ op'[o].read = NoProgress
  <2>1. /\ ShapeStep(o) /\ Finish(o) /\ faults' # 0
        /\ UNCHANGED <<status, progress, meta, clobbered, launches>>
    BY FailsKeepsShape DEF row, drip
  <2>2. TypeOK
    BY DEF Shapes
  <2> QED
    BY <2>1, <2>2, Finished DEF ShapeStep, Writes
<1>1. Launching'
  <2>1. Enrolling' \subseteq Enrolling
    BY <1>0 DEF OthersStay, Enrolling
  <2> QED
    BY <1>0, <2>1 DEF Story, Launching
<1>2. Drafted'
  <2> SUFFICES ASSUME status = "DRAFT" PROVE Drafted'
    BY <1>0 DEF Drafted
  <2>1. op'[o].kind # "stepCompleted"
    BY <1>0 DEF Story, Drafted
  <2> QED
    BY <1>0, <2>1, DraftStays DEF Story, Drafted
<1>3. \A p \in Op : Looking(p)'
  <2>1. Looking(o)'
    BY <1>0 DEF Looking, At
  <2> QED
    BY <1>0, <2>1, LooksStay
<1>4. status' = "COMPLETED" => NotActive(Contact)'
  BY <1>0, LooksStay
<1>5. MetaKept'
  BY <1>0, MetaStays
<1> QED
  BY <1>0, <1>1, <1>2, <1>3, <1>4, <1>5 DEF Story, Noticed

LEMMA SameStory ==
    ASSUME Story, UNCHANGED <<op, progress, clobbered, status, launches, faults>>,
           meta' = meta \/ meta' = "expired"
    PROVE  Story'
BY DEF Story, Launching, MetaKept, Enrolling, Drafted, Looking, At, NotActive, Noticed

LEMMA NextKeepsDripCourse ==
    ASSUME Shapes, DripCourse, Next
    PROVE  DripCourse'
<1> SUFFICES ASSUME plan.type = "DRIP", launches' <= 1 PROVE Story'
  BY NextKeepsShapes DEF DripCourse, Story
<1>1. launches \in Nat /\ (launches' = launches \/ launches' = launches + 1)
  <2>1. launches \in Nat
    BY LaunchBoundIsNat DEF Shapes, TypeOK
  <2>2. launches' = launches \/ launches' = launches + 1
    BY DEF Next, OpStep, LaunchAbTest, NextVariant, QueueVariant, MarkRunning, LaunchDrip,
           Enroll, WriteMeta, QueueStep, ReadNext, WriteNext, ReadProgress, CompleteContact,
           Advance, Again, CheckCompletion, WriteRemoved, OnStepCompleted, RemoveContact, Activate,
            Deactivate,
           WriteKey, WriteList, MarkPaused, ReadConfig, ReadCooldown, ReadCount,
           TriggerForContact, IncrementSent, SetCooldown, IncrementCount, Fails,
           EvaluateContactEvent, CooldownExpires, ContactDeleted, MetaExpires
  <2> QED
    BY <2>1, <2>2
<1>2. Story
  BY <1>1 DEF DripCourse, Story
<1>3. \A o \in Op : Looking(o)
  BY <1>2 DEF Story
<1>4. ASSUME NEW o \in Op, AbStep(o) PROVE Story'
  <2>1. MarkRunning(o)
    BY <1>4, Kinds DEF AbStep, LaunchAbTest, NextVariant, QueueVariant, At, Shapes, OpShape, Course
  <2> QED
    BY <1>2, <2>1, MarkRunningKeepsStory
<1>5. ASSUME NEW o \in Op, DripStep(o) PROVE Story'
  <2>1. CASE LaunchDrip(o)
    BY <1>2, <2>1, LaunchDripKeepsStory
  <2>2. CASE CompleteContact(o) \/ CheckCompletion(o)
    BY <1>2, <2>2, CompleteContactKeepsStory, CheckCompletionKeepsStory
  <2>3. CASE \/ Enroll(o) \/ WriteMeta(o) \/ QueueStep(o) \/ ReadNext(o) \/ WriteNext(o)
             \/ Advance(o) \/ ReadProgress(o) \/ Again(o) \/ WriteRemoved(o)
    <3>1. Plain(o)
      BY <1>2, <1>3, <2>3, PlainFirst, WriteMetaIsPlain, WriteNextIsPlain, AdvanceIsPlain,
         PlainRest
      DEF Story
    <3> QED
      BY <1>2, <3>1, PlainKeepsStory
  <2>4. CASE \/ \E a \in awaiting : OnStepCompleted(o, a[1], a[2])
             \/ \E c \in Contact : RemoveContact(o, c)
    BY <1>2, <2>4, BeginningsArePlain, PlainKeepsStory, SameStory
  <2> QED
    BY <1>5, <2>1, <2>2, <2>3, <2>4 DEF DripStep
<1>6. ASSUME NEW o \in Op, Fails(o) PROVE Story'
  BY <1>2, <1>6, FailsKeepsStory
<1>7. ASSUME \/ MetaExpires
             \/ \E c \in Contact : CooldownExpires(c) \/ ContactDeleted(c)
      PROVE  Story'
  <2>1. UNCHANGED <<op, progress, clobbered, status, launches, faults>>
        /\ (meta' = meta \/ meta' = "expired")
    BY <1>7 DEF CooldownExpires, ContactDeleted, MetaExpires, row, drip
  <2> QED
    BY <1>2, <2>1, SameStory
<1>8. ASSUME NEW o \in Op, Activation(o) PROVE FALSE
  BY <1>8, ActivationsKeepShape DEF Activation
<1>9. ASSUME NEW o \in Op, Evaluation(o) PROVE FALSE
  BY <1>9, EvaluationSteps DEF Evaluation
<1>10. ASSUME NEW o \in Op, NEW c \in Contact, EvaluateContactEvent(o, c) PROVE FALSE
  BY <1>10, EvaluateKeepsShape
<1> QED
  BY <1>4, <1>5, <1>6, <1>7, <1>8, <1>9, <1>10, StepsByType

-----------------------------------------------------------------------------
(* The theorems.                                                           *)

LEMMA InitInv ==
    ASSUME Init
    PROVE  IInv
<1>1. Shapes
  BY InitShapes
<1>2. /\ \A o \in Op : op[o].kind = "none" /\ op[o].pc = "free" /\ op[o].read = NoProgress
                       /\ op[o].idle
      /\ launches = 0 /\ faults = 0 /\ status = "DRAFT" /\ sentCount = 0
      /\ \A c \in Contact : progress[c] = NoProgress /\ queued[c] = 0 /\ count[c] = 0
      /\ queued \in [Contact -> Nat] /\ count \in [Contact -> Nat]
      /\ skipped \in [Contact -> Nat] /\ \A c \in Contact : skipped[c] = 0
  BY DEF Init, FreeOp
<1>3. Deals
  <2>1. \A o \in Op : Dealing(o)
    BY <1>2 DEF Dealing
  <2>2. \A c \in Contact : Owing(c) = {}
    BY <1>2 DEF Owing
  <2>3. Promise
    BY <1>2, <2>2, FS_EmptySet DEF Promise
  <2> QED
    BY <2>1, <2>3 DEF Deals
<1>4. DripCourse
  <2>1. Launching
    BY <1>2 DEF Launching, Enrolling
  <2>2. Drafted /\ \A o \in Op : Looking(o)
    BY <1>2 DEF Drafted, Looking, At, NoProgress
  <2>3. Noticed
    BY <1>2, SomeContact DEF Noticed, NoProgress
  <2>4. MetaKept
    BY <1>2 DEF MetaKept, At
  <2> QED
    BY <1>2, <2>1, <2>2, <2>3, <2>4 DEF DripCourse
<1>5. TriggerCourse
  <2>1. plan.max \in Nat
    BY <1>1, PlansAreSound DEF Shapes, TypeOK, PlanRecord
  <2>2. \A c \in Contact : Evaluating(c) = {}
    BY <1>2 DEF Evaluating
  <2> QED
    BY <1>2, <2>1, <2>2 DEF TriggerCourse, Served
<1>6. FiringsAreCounted
  <2>1. Sum(count) = 0 /\ Sum(queued) = 0 /\ Sum(skipped) = 0
    BY <1>2, SumOfZeros
  <2>2. /\ {o \in Op : op[o].pc \in {"cool", "incr"}} = {}
        /\ {o \in Op : op[o].pc \in {"sentCount"}} = {}
    BY <1>2
  <2>3. InFlight({"cool", "incr"}) = 0 /\ InFlight({"sentCount"}) = 0
    BY <2>2, FS_EmptySet DEF InFlight
  <2> QED
    BY <1>2, <2>1, <2>3 DEF FiringsAreCounted
<1> QED
  BY <1>1, <1>3, <1>4, <1>5, <1>6 DEF IInv

LEMMA StutterKeepsInv ==
    ASSUME IInv, UNCHANGED vars
    PROVE  IInv'
<1>1. /\ UNCHANGED <<plan, status, sentCount, progress, awaiting, meta, clobbered, trigger,
                     cooling, count, overlapped, deleted, skipped, queued, merged, op, launches,
                     faults>>
  BY DEF vars, row, drip, trig, people, queue
<1>2. Shapes'
  BY StutterKeepsShapes DEF IInv
<1>3. Deals'
  BY <1>1 DEF IInv, Deals, Dealing, Promise, Owing, Undealt
<1>4. DripCourse'
  BY <1>1 DEF IInv, DripCourse, Launching, MetaKept, Enrolling, Drafted, Looking,
           At, NotActive, Noticed
<1>5. TriggerCourse'
  BY <1>1 DEF IInv, TriggerCourse, Served, Evaluating
<1>6. FiringsAreCounted'
  BY <1>1 DEF IInv, FiringsAreCounted, Sum, InFlight
<1> QED
  BY <1>2, <1>3, <1>4, <1>5, <1>6 DEF IInv

\* The strengthening is inductive: what each kind of operation stops at, whom an A/B launch
\* still owes a message, what a drip campaign's scans have seen, and what an evaluation has
\* fired and counted (launchAbTest, onStepCompleted, checkCampaignCompletion,
\* evaluateContactEvent).
THEOREM JourneysInvariance == Spec => []IInv
<1>1. Init => IInv
  BY InitInv
<1>2. IInv /\ [Next]_vars => IInv'
  <2> SUFFICES ASSUME IInv, [Next]_vars PROVE IInv'
    OBVIOUS
  <2>1. CASE Next
    BY <2>1, NextKeepsShapes, NextKeepsDeals, NextKeepsDripCourse, NextKeepsTriggerCourse,
       NextKeepsFirings DEF IInv
  <2>2. CASE UNCHANGED vars
    BY <2>2, StutterKeepsInv
  <2> QED
    BY <2>1, <2>2
<1> QED
  BY <1>1, <1>2, PTL DEF Spec

\* Every reachable state of the campaign, its drip progress, its trigger keys and its
\* operations has the types of the model.
THEOREM TypeCorrect == Spec => []TypeOK
<1>1. IInv => TypeOK
  BY DEF IInv, Shapes
<1> QED
  BY <1>1, JourneysInvariance, PTL

\* Every A/B launch that ran to its end handed each contact over exactly once, for any
\* percentages, any number of variants and launches at the same time (launchAbTest).
THEOREM EveryLaunchReachesAll == Spec => []EachLaunchReachesAll
<1>1. IInv => EachLaunchReachesAll
  <2> SUFFICES ASSUME IInv, plan.type = "AB", Quiet, faults = 0, NEW c \in Contact \ merged
               PROVE  queued[c] = launches
    BY DEF EachLaunchReachesAll
  <2>1. \A o \in Op : o \notin Owing(c)
    <3> SUFFICES ASSUME NEW o \in Op, o \in Owing(c) PROVE FALSE
      OBVIOUS
    <3>1. op[o].kind = "launchAb" /\ op[o].pc \in {"free", "done"} /\ OpShape(o) /\ Dealing(o)
      BY DEF IInv, Shapes, Deals, Quiet, Owing
    <3>2. op[o].todo = <<>> /\ op[o].rest = <<>>
      BY <3>1 DEF OpShape, Dealing
    <3> QED
      BY <3>2, Emptied DEF Owing, Undealt
  <2>2. Owing(c) = {}
    BY <2>1 DEF Owing
  <2>3. queued[c] + Cardinality(Owing(c)) = launches /\ queued[c] \in Nat
    BY DEF IInv, Deals, Promise, Shapes, TypeOK
  <2> QED
    BY <2>2, <2>3, FS_EmptySet
<1> QED
  BY <1>1, JourneysInvariance, PTL

\* A drip campaign that is COMPLETED has no active contact but those a stale copy of
\* their progress was written for (checkCampaignCompletion).
THEOREM CompletedDripsAreOver == Spec => []CompletedDripIsOver
<1>1. IInv => CompletedDripIsOver
  BY DEF IInv, DripCourse, CompletedDripIsOver, NotActive
<1> QED
  BY <1>1, JourneysInvariance, PTL

\* When the last contacts complete their sequences, however their scans interleave, one
\* of them completes the campaign, unless its meta key expired (onStepCompleted).
THEOREM LastContactClosesDrip == Spec => []LastContactCompletes
<1>1. IInv => LastContactCompletes
  <2> SUFFICES ASSUME IInv, plan.type = "DRIP", launches = 1, Quiet, faults = 0, clobbered = {},
                      meta # "expired", \A c \in Contact : progress[c].status = "completed"
               PROVE  status = "COMPLETED"
    BY DEF LastContactCompletes
  <2>1. Noticed
    BY DEF IInv, DripCourse
  <2> QED
    BY <2>1 DEF Noticed, Quiet, At
<1> QED
  BY <1>1, JourneysInvariance, PTL

\* A firing is queued, then in sentCount, then in the contact's count, and nothing is lost
\* in between unless something fails; what is counted and not sent is for a contact that
\* was deleted (triggerForContact, evaluateContactEvent, ContactsService.delete).
THEOREM FiringsCounted == Spec => []FiringsAreCounted
<1>1. IInv => FiringsAreCounted
  BY DEF IInv
<1> QED
  BY <1>1, JourneysInvariance, PTL

\* Nobody gets more than maxTriggersPerContact messages of a trigger campaign, as long as
\* the contact's events do not overlap and nothing fails (evaluateContactEvent).
THEOREM TriggersStayWithinMax == Spec => []MaxTriggersKept
<1>1. IInv => MaxTriggersKept
  <2> SUFFICES ASSUME IInv, plan.type = "TRIGGER", plan.max > 0, faults = 0,
                      NEW c \in Contact \ overlapped
               PROVE  queued[c] <= plan.max
    BY DEF MaxTriggersKept
  <2>1. /\ Served(c) /\ queued[c] \in Nat /\ count[c] \in Nat
    BY DEF IInv, TriggerCourse, Shapes, TypeOK
  <2>2. plan.max \in Nat
    BY PlansAreSound DEF IInv, Shapes, TypeOK, PlanRecord
  <2> QED
    BY <2>1, <2>2 DEF Served
<1> QED
  BY <1>1, JourneysInvariance, PTL
=============================================================================
