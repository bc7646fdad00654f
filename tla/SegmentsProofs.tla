--------------------------- MODULE SegmentsProofs ---------------------------
(***************************************************************************)
(* Theorems about Segments, for any sets of segments, contacts, filters    *)
(* and operations and any number of changes and errors.                    *)
(***************************************************************************)
EXTENDS Segments, FiniteSetTheorems, TLAPS

-----------------------------------------------------------------------------
(* Type correctness.                                                       *)

LEMMA CountsAreNumbers ==
    ASSUME TypeOK
    PROVE  /\ \A s \in Segment : Cardinality(members[s]) \in Nat
           /\ \A filter : Cardinality(Matching(filter)) \in Nat
<1>1. ASSUME NEW S, S \subseteq Contact
      PROVE  Cardinality(S) \in Nat
  BY <1>1, ContactsAreFinite, FS_Subset, FS_CardinalityType
<1>2. \A s \in Segment : members[s] \subseteq Contact
  BY DEF TypeOK
<1> QED
  BY <1>1, <1>2 DEF Matching

LEMMA FreshRecords ==
    /\ NoSegment \in SegmentRow
    /\ FreeOp \in OpRecord
    /\ NoSegment.filter \in Trait
BY SomeTrait DEF NoSegment, FreeOp, SegmentRow, OpRecord, SegmentKind, OpKind, OpPC

\* An operation that begins, goes on or ends keeps its type.
LEMMA BegunOps ==
    ASSUME TypeOK, NEW o \in Op, NEW kind \in OpKind, NEW pc \in OpPC,
           NEW s \in Segment \cup {None}, pc = "done" \/ s \in Segment,
           NEW ids \in SUBSET Contact, Begin(o, kind, pc, s, ids)
    PROVE  /\ op' \in [Op -> OpRecord]
           /\ \A p \in Op : op'[p].pc \notin {"free", "next", "done", "changeAudience"}
                     => op'[p].seg \in Segment
BY FreshRecords DEF TypeOK, Begin, FreeOp, OpRecord

LEMMA MovedOps ==
    ASSUME TypeOK, NEW o \in Op
    PROVE  /\ Finish(o) =>
                /\ op' \in [Op -> OpRecord]
                /\ \A p \in Op : op'[p].pc \notin {"free", "next", "done", "changeAudience"}
                                   => op'[p].seg \in Segment
           /\ \A pc \in OpPC :
                Goto(o, pc) /\ op[o].pc \notin {"free", "next", "done", "changeAudience"} =>
                /\ op' \in [Op -> OpRecord]
                /\ \A p \in Op : op'[p].pc \notin {"free", "next", "done", "changeAudience"}
                                   => op'[p].seg \in Segment
<1>1. ASSUME Finish(o)
      PROVE  /\ op' \in [Op -> OpRecord]
             /\ \A p \in Op : op'[p].pc \notin {"free", "next", "done", "changeAudience"}
                       => op'[p].seg \in Segment
  BY <1>1, FreshRecords DEF TypeOK, Finish, FreeOp, OpRecord, OpPC
<1>2. ASSUME NEW pc \in OpPC, Goto(o, pc),
             op[o].pc \notin {"free", "next", "done", "changeAudience"}
      PROVE  /\ op' \in [Op -> OpRecord]
             /\ \A p \in Op : op'[p].pc \notin {"free", "next", "done", "changeAudience"}
                       => op'[p].seg \in Segment
  BY <1>2 DEF TypeOK, Goto, OpRecord
<1> QED
  BY <1>1, <1>2

LEMMA NumberedOps ==
    ASSUME TypeOK, NEW o \in Op, op[o].pc \notin {"free", "next", "done", "changeAudience"},
           NEW pc \in OpPC, NEW n \in Nat, op' = [op EXCEPT ![o].pc = pc, ![o].n = n]
    PROVE  /\ op' \in [Op -> OpRecord]
           /\ \A p \in Op : op'[p].pc \notin {"free", "next", "done", "changeAudience"}
                     => op'[p].seg \in Segment
<1>1. op \in [Op -> OpRecord]
  BY DEF TypeOK
<1>2. op' \in [Op -> OpRecord]
  BY <1>1 DEF OpRecord
<1>3. op'[o].seg = op[o].seg /\ \A p \in Op \ {o} : op'[p] = op[p]
  BY <1>1 DEF OpRecord
<1> QED
  BY <1>2, <1>3 DEF TypeOK

LEMMA TypeInit ==
    ASSUME Init
    PROVE  TypeOK
<1> USE DEF Init
<1>1. segment \in [Segment -> SegmentRow] /\ members \in [Segment -> SUBSET Contact]
  BY FreshRecords
<1>2. contact \in [Contact -> Trait \cup {"absent", "gone"}]
  OBVIOUS
<1>3. campaign \in CampaignRow
  BY DEF NoCampaign, CampaignRow
<1>4. op \in [Op -> OpRecord] /\ \A o \in Op : op[o].pc = "free"
  BY FreshRecords DEF FreeOp
<1>5. changes \in 0..MaxChanges /\ faults \in 0..MaxFaults
  BY BoundsAreNat
<1> QED
  BY <1>1, <1>2, <1>3, <1>4, <1>5 DEF TypeOK

LEMMA BeginsType ==
    ASSUME TypeOK, NEW o \in Op, Begins(o)
    PROVE  TypeOK'
<1> USE DEF TypeOK, history, budget
<1>1. CASE RecalculateAll(o)
  BY <1>1, FreshRecords DEF RecalculateAll, FreeOp, OpRecord, OpKind, OpPC
<1>2. ASSUME NEW s \in Segment, Recalculate(o, s) \/ Delete(o, s) \/ TakeAudience(o, s)
      PROVE  TypeOK'
  BY <1>2, BegunOps DEF Recalculate, Delete, TakeAudience, OpKind, OpPC
<1>3. ASSUME NEW s \in Segment, NEW filter \in Trait, UpdateFilters(o, s, filter)
      PROVE  TypeOK'
  BY <1>3, FreshRecords DEF UpdateFilters, FreeOp, OpRecord, OpKind, OpPC
<1>4. ASSUME NEW s \in Segment, NEW kind \in {"STATIC", "DYNAMIC"}, NEW filter \in Trait,
             NEW ids \in SUBSET Contact, CreateSegment(o, s, kind, filter, ids)
      PROVE  TypeOK'
  <2>1. segment' \in [Segment -> SegmentRow]
    BY <1>4 DEF CreateSegment, SegmentRow, SegmentKind
  <2>2. /\ op' \in [Op -> OpRecord]
        /\ \A p \in Op : op'[p].pc \notin {"free", "next", "done", "changeAudience"}
                  => op'[p].seg \in Segment
    <3>1. PICK pc \in OpPC, z \in Segment \cup {None}, new \in SUBSET Contact :
              (pc = "done" \/ z \in Segment) /\ Begin(o, "create", pc, z, new)
      <4>1. CASE kind = "DYNAMIC"
        BY <1>4, <4>1 DEF CreateSegment, OpPC
      <4>2. CASE kind = "STATIC" /\ ids # {}
        BY <1>4, <4>2 DEF CreateSegment, OpPC
      <4>3. CASE kind = "STATIC" /\ ids = {}
        BY <1>4, <4>3 DEF CreateSegment, OpPC
      <4> QED
        BY <4>1, <4>2, <4>3
    <3>2. "create" \in OpKind
      BY DEF OpKind
    <3> QED
      BY <3>1, <3>2, BegunOps
  <2> QED
    BY <1>4, <2>1, <2>2 DEF CreateSegment
<1>5. ASSUME NEW s \in Segment, NEW ids \in SUBSET Contact,
             AddContacts(o, s, ids) \/ RemoveContacts(o, s, ids)
      PROVE  TypeOK'
  BY <1>5, BegunOps DEF AddContacts, RemoveContacts, OpKind, OpPC
<1>6. CASE TakeOther(o)
  <2>1. campaign.total \in Nat
    BY DEF CampaignRow
  <2> QED
    BY <1>6, <2>1, FreshRecords DEF TakeOther, FreeOp, OpRecord, OpKind, OpPC
<1> QED
  BY <1>1, <1>2, <1>3, <1>4, <1>5, <1>6, FreshRecords DEF Begins

LEMMA OpStepType ==
    ASSUME TypeOK, NEW o \in Op, OpStep(o)
    PROVE  TypeOK'
<1> USE DEF TypeOK, history, budget
<1> DEFINE OpsKept ==
        /\ op' \in [Op -> OpRecord]
        /\ \A p \in Op : op'[p].pc \notin {"free", "next", "done", "changeAudience"}
                  => op'[p].seg \in Segment
<1>1. /\ op[o].ids \subseteq Contact /\ op[o].n \in Nat /\ op[o].filter \in Trait
      /\ op[o].rest \subseteq Segment
  BY DEF OpRecord
<1>2. CASE FindExisting(o)
  <2>1. OpsKept
    BY <1>2, MovedOps DEF FindExisting, At, OpRecord, OpPC
  <2> QED
    BY <1>2, <2>1 DEF FindExisting
<1>3. CASE Insert(o)
  <2>1. OpsKept
    BY <1>3, MovedOps DEF Insert, At, OpPC
  <2> QED
    BY <1>1, <1>3, <2>1 DEF Insert, Holding
<1>4. CASE DeleteMembers(o)
  <2>1. OpsKept
    BY <1>4, MovedOps DEF DeleteMembers, At, OpPC
  <2> QED
    BY <1>1, <1>4, <2>1 DEF DeleteMembers, Holding
<1>5. CASE Count(o)
  <2>1. PICK n \in Nat : op' = [op EXCEPT ![o].pc = "writeCount", ![o].n = n]
    BY <1>5, CountsAreNumbers DEF Count, At
  <2>2. OpsKept
    BY <1>5, <2>1, NumberedOps DEF Count, At, OpPC
  <2> QED
    BY <1>5, <2>2 DEF Count
<1>6. CASE WriteCount(o)
  <2>1. OpsKept
    BY <1>6, MovedOps DEF WriteCount, At, OpPC
  <2>2. segment' \in [Segment -> SegmentRow]
    BY <1>1, <1>6 DEF WriteCount, SegmentRow
  <2>3. dirty' \subseteq Segment
    BY <1>6 DEF WriteCount, At
  <2> QED
    BY <1>6, <2>1, <2>2, <2>3 DEF WriteCount
<1>7. CASE WriteFilter(o)
  <2>1. OpsKept
    BY <1>7, MovedOps DEF WriteFilter, At, OpPC
  <2>2. segment' \in [Segment -> SegmentRow]
    BY <1>1, <1>7 DEF WriteFilter, SegmentRow
  <2> QED
    BY <1>7, <2>1, <2>2 DEF WriteFilter, Holding
<1>8. CASE CheckUse(o)
  BY <1>8, MovedOps DEF CheckUse, At, OpPC
<1>9. CASE DeleteRow(o)
  <2>1. OpsKept
    BY <1>9, MovedOps DEF DeleteRow
  <2>2. segment' \in [Segment -> SegmentRow]
    BY <1>9 DEF DeleteRow, SegmentRow, SegmentKind
  <2>3. campaign' \in CampaignRow
    BY <1>9 DEF DeleteRow, CampaignRow
  <2> QED
    BY <1>9, <2>1, <2>2, <2>3 DEF DeleteRow
<1>10. CASE CountAudience(o)
  <2>1. PICK n \in Nat : op' = [op EXCEPT ![o].pc = "writeCampaign", ![o].n = n]
    BY <1>10, CountsAreNumbers DEF CountAudience, At
  <2>2. OpsKept
    BY <1>10, <2>1, NumberedOps DEF CountAudience, At, OpPC
  <2> QED
    BY <1>10, <2>2 DEF CountAudience
<1>11. CASE WriteCampaign(o)
  <2>1. OpsKept
    BY <1>11, MovedOps DEF WriteCampaign
  <2>2. campaign' \in CampaignRow
    <3>1. op[o].seg \in Segment
      BY <1>11 DEF WriteCampaign, At
    <3>2. [row |-> TRUE, segment |-> op[o].seg, total |-> op[o].n, named |-> TRUE]
             \in CampaignRow
      BY <1>1, <3>1 DEF CampaignRow
    <3> QED
      BY <1>11, <3>2 DEF WriteCampaign
  <2>3. crossed' \in BOOLEAN
    BY <1>11 DEF WriteCampaign
  <2> QED
    BY <1>11, <2>1, <2>2, <2>3 DEF WriteCampaign
<1>12. ASSUME NEW s \in Segment, ReadSegment(o, s)
       PROVE  TypeOK'
  <2>1. segment[s].filter \in Trait
    BY DEF SegmentRow
  <2>2. OpsKept
    BY <1>12, <2>1, MovedOps DEF ReadSegment, OpRecord, OpPC
  <2> QED
    BY <1>12, <2>2 DEF ReadSegment
<1>13. ASSUME NEW to \in Segment \cup {None}, ChangeAudience(o, to)
       PROVE  TypeOK'
  <2>1. OpsKept
    BY <1>13, MovedOps DEF ChangeAudience
  <2>2. campaign' \in CampaignRow
    <3>1. \A n \in 0..Cardinality(Contact) \cup {op[o].n} : n \in Nat
      BY <1>1, ContactsAreFinite, FS_CardinalityType
    <3>2. CASE to = None \/ Live(to)
      <4>1. PICK n \in Nat :
               campaign' = [row |-> TRUE, segment |-> to, total |-> n, named |-> to # None]
        BY <1>13, <3>1, <3>2 DEF ChangeAudience
      <4> QED
        BY <4>1 DEF CampaignRow
    <3>3. CASE ~(to = None \/ Live(to))
      BY <1>13, <3>3 DEF ChangeAudience
    <3> QED
      BY <3>2, <3>3
  <2>3. crossed' \in BOOLEAN
    BY <1>13 DEF ChangeAudience
  <2> QED
    BY <1>13, <2>1, <2>2, <2>3 DEF ChangeAudience
<1> QED
  BY <1>2, <1>3, <1>4, <1>5, <1>6, <1>7, <1>8, <1>9, <1>10, <1>11, <1>12, <1>13 DEF OpStep

LEMMA TypeStep ==
    ASSUME TypeOK, [Next]_vars
    PROVE  TypeOK'
<1> USE DEF TypeOK
<1>1. ASSUME NEW o \in Op, OpFails(o)
      PROVE  TypeOK'
  <2>1. faults' \in 0..MaxFaults
    BY <1>1, BoundsAreNat DEF OpFails
  <2> QED
    BY <1>1, <2>1, MovedOps DEF OpFails
<1>2. ASSUME NEW c \in Contact, NEW to \in Trait \cup {"gone"}, ContactChanges(c, to)
      PROVE  TypeOK'
  <2>1. changes' \in 0..MaxChanges
    BY <1>2, BoundsAreNat DEF ContactChanges
  <2>2. members' \in [Segment -> SUBSET Contact]
    BY <1>2 DEF ContactChanges
  <2>3. dirty' \subseteq Segment /\ stale' \subseteq Op
    BY <1>2 DEF ContactChanges, Holding
  <2> QED
    BY <1>2, <2>1, <2>2, <2>3 DEF ContactChanges
<1>3. CASE UNCHANGED vars
  BY <1>3 DEF vars
<1> QED
  BY <1>1, <1>2, <1>3, BeginsType, OpStepType DEF Next

\* Every variable keeps its type in every behaviour.
THEOREM TypeCorrect == Spec => []TypeOK
BY TypeInit, TypeStep, PTL DEF Spec

-----------------------------------------------------------------------------
(* The inductive invariant.                                                *)

\* A step that changes where one operation is, and no row: it may forget that the operation
\* is stale, and it keeps what the operation owes.
LEMMA QuietStep ==
    ASSUME IInv, TypeOK', NEW o \in Op,
           UNCHANGED <<segment, members, contact, campaign, dirty, crossed>>,
           \A p \in Op \ {o} : op'[p] = op[p],
           stale \ {o} \subseteq stale',
           KnownOp(o)', FreshOp(o)', AskedOp(o)',
           \A s \in Segment : o \in Owing(s) => o \in Owing(s)'
    PROVE  IInv'
<1>1. ASSUME NEW p \in Op
      PROVE  KnownOp(p)' /\ FreshOp(p)' /\ AskedOp(p)'
  <2>1. CASE p = o
    BY <2>1
  <2>2. CASE p # o
    <3>1. op'[p] = op[p] /\ (p \in stale => p \in stale')
      BY <2>2
    <3>2. KnownOp(p) /\ FreshOp(p) /\ AskedOp(p)
      BY DEF IInv
    <3>3. KnownOp(p)' /\ AskedOp(p)'
      BY <3>1, <3>2 DEF KnownOp, AskedOp, At
    <3>4. FreshOp(p)'
      BY <3>1, <3>2 DEF FreshOp, At, Live, Size, Matching
    <3> QED
      BY <3>3, <3>4
  <2> QED
    BY <2>1, <2>2
<1>2. CountIsExact'
  <2> SUFFICES ASSUME NEW s \in Segment, Live(s)', s \notin dirty', Owing(s)' = {}
               PROVE  segment'[s].count = Size(s)'
    BY DEF CountIsExact
  <2>1. Live(s) /\ s \notin dirty /\ Size(s)' = Size(s)
    BY DEF Live, Size, Matching
  <2>2. ASSUME NEW p \in Owing(s)
        PROVE  p \in Owing(s)'
    BY <2>2 DEF Owing, Holding
  <2>3. Owing(s) = {}
    BY <2>2
  <2> QED
    BY <2>1, <2>3 DEF IInv, CountIsExact
<1> QED
  BY <1>1, <1>2 DEF IInv, CampaignKeepsSegment, Live

\* An operation that begins on a segment that was created, and writes nothing yet.
LEMMA BegunStep ==
    ASSUME IInv, TypeOK', NEW o \in Op, NEW s \in Segment, segment[s].kind # "none",
           At(o, "free"), op'[o].seg = s,
           op'[o].pc \in {"findExisting", "deleteMembers", "writeFilter", "reread", "checkUse",
                          "countAudience"},
           op'[o].pc \in {"findExisting", "deleteMembers"} => segment[s].kind # "DYNAMIC",
           op'[o].pc # "reread" => op'[o].kind # "recalculate",
           \A p \in Op \ {o} : op'[p] = op[p],
           UNCHANGED <<segment, members, contact, campaign, history>>
    PROVE  IInv'
<1>1. KnownOp(o)' /\ FreshOp(o)' /\ AskedOp(o)'
  BY DEF KnownOp, FreshOp, AskedOp, At
<1>2. \A z \in Segment : o \notin Owing(z)
  BY DEF Owing, Holding, At
<1> QED
  BY <1>1, <1>2, QuietStep DEF history

\* An operation that ends and owes no count.
LEMMA EndedStep ==
    ASSUME IInv, TypeOK', NEW o \in Op, Finish(o),
           \A s \in Segment : o \in Owing(s) => ~Live(s),
           UNCHANGED <<segment, members, contact, campaign, history>>
    PROVE  IInv'
<1>0. op \in [Op -> OpRecord]
  BY DEF IInv, TypeOK
<1>1. op'[o].pc = "done" /\ \A p \in Op \ {o} : op'[p] = op[p]
  BY <1>0 DEF Finish, FreeOp
<1>2. ASSUME NEW p \in Op
      PROVE  KnownOp(p)' /\ FreshOp(p)' /\ AskedOp(p)'
  <2>1. CASE p = o
    BY <1>1, <2>1 DEF KnownOp, FreshOp, AskedOp, At
  <2>2. CASE p # o
    <3>1. KnownOp(p) /\ FreshOp(p) /\ AskedOp(p) /\ op'[p] = op[p]
      BY <1>1, <2>2 DEF IInv
    <3>2. KnownOp(p)' /\ AskedOp(p)'
      BY <3>1 DEF KnownOp, AskedOp, At, history
    <3>3. FreshOp(p)'
      BY <3>1 DEF FreshOp, At, Live, Size, Matching, history
    <3> QED
      BY <3>2, <3>3
  <2> QED
    BY <2>1, <2>2
<1>3. CountIsExact'
  <2> SUFFICES ASSUME NEW s \in Segment, Live(s)', s \notin dirty', Owing(s)' = {}
               PROVE  segment'[s].count = Size(s)'
    BY DEF CountIsExact
  <2>1. Live(s) /\ s \notin dirty /\ Size(s)' = Size(s)
    BY DEF Live, Size, Matching, history
  <2>2. Owing(s) = {}
    BY <1>1, <2>1 DEF Owing, Holding
  <2> QED
    BY <2>1, <2>2 DEF IInv, CountIsExact
<1> QED
  BY <1>2, <1>3 DEF IInv, CampaignKeepsSegment, Live, history

\* A segment that is new has the count its contacts make, or its creation owes it.
LEMMA CreateSegmentStep ==
    ASSUME IInv, TypeOK', NEW o \in Op, NEW s \in Segment, NEW kind \in {"STATIC", "DYNAMIC"},
           NEW filter \in Trait, NEW ids \in SUBSET Contact, CreateSegment(o, s, kind, filter, ids)
    PROVE  IInv'
<1> USE DEF history, budget
<1>0. op \in [Op -> OpRecord] /\ segment \in [Segment -> SegmentRow]
  BY DEF IInv, TypeOK
<1>1. /\ segment[s].kind = "none" /\ members[s] = {}
      /\ segment'[s] = [kind |-> kind, filter |-> filter, count |-> 0]
      /\ \A z \in Segment \ {s} : segment'[z] = segment[z]
  BY <1>0 DEF CreateSegment, IInv
<1>2. /\ \A p \in Op \ {o} : op'[p] = op[p]
      /\ At(o, "free")
      /\ op'[o].kind = "create" /\ op'[o].pc \in {"reread", "findExisting", "done"}
      /\ op'[o].pc # "done" => op'[o].seg = s
      /\ op'[o].pc = "findExisting" => kind = "STATIC"
      /\ kind = "DYNAMIC" => op'[o].pc = "reread"
  <2>1. CASE kind = "DYNAMIC"
    BY <1>0, <2>1 DEF CreateSegment, Begin, FreeOp
  <2>2. CASE kind = "STATIC" /\ ids # {}
    BY <1>0, <2>2 DEF CreateSegment, Begin, FreeOp
  <2>3. CASE kind = "STATIC" /\ ids = {}
    BY <1>0, <2>3 DEF CreateSegment, Begin, FreeOp
  <2> QED
    BY <2>1, <2>2, <2>3
<1>3. \A p \in Op : op[p].pc \notin {"free", "next", "done", "changeAudience"}
          => op[p].seg \in Segment \ {s}
  BY <1>1 DEF IInv, KnownOp, TypeOK
<1>4. UNCHANGED <<members, contact, campaign, stale, dirty, crossed>>
  BY DEF CreateSegment
<1>5. ASSUME NEW p \in Op
      PROVE  KnownOp(p)' /\ FreshOp(p)' /\ AskedOp(p)'
  <2>1. CASE p = o
    BY <1>1, <1>2, <2>1 DEF KnownOp, FreshOp, AskedOp, At
  <2>2. CASE p # o
    <3>1. KnownOp(p) /\ FreshOp(p) /\ AskedOp(p) /\ op'[p] = op[p]
      BY <1>2, <2>2 DEF IInv
    <3>2. CASE op[p].pc \in {"free", "next", "done", "changeAudience"}
      BY <3>1, <3>2 DEF KnownOp, FreshOp, AskedOp, At
    <3>3. CASE op[p].pc \notin {"free", "next", "done", "changeAudience"}
      <4>1. segment'[op[p].seg] = segment[op[p].seg]
        BY <1>1, <1>3, <3>3
      <4>2. KnownOp(p)' /\ AskedOp(p)'
        BY <1>4, <3>1, <4>1 DEF KnownOp, AskedOp, At
      <4>3. FreshOp(p)'
        BY <1>4, <3>1, <4>1 DEF FreshOp, At, Live, Size, Matching
      <4> QED
        BY <4>2, <4>3
    <3> QED
      BY <3>2, <3>3
  <2> QED
    BY <2>1, <2>2
<1>6. CountIsExact'
  <2> SUFFICES ASSUME NEW z \in Segment, Live(z)', z \notin dirty', Owing(z)' = {}
               PROVE  segment'[z].count = Size(z)'
    BY DEF CountIsExact
  <2>1. CASE z = s
    <3>1. kind = "STATIC"
      <4>1. ASSUME kind = "DYNAMIC" PROVE FALSE
        <5>1. o \in Owing(s)'
          BY <1>2, <4>1 DEF Owing, Holding
        <5> QED
          BY <2>1, <5>1
      <4> QED
        BY <4>1
    <3> QED
      BY <1>1, <1>4, <2>1, <3>1, FS_EmptySet DEF Size
  <2>2. CASE z # s
    <3>1. Live(z) /\ Size(z)' = Size(z) /\ segment'[z] = segment[z]
      BY <1>1, <1>4, <2>2 DEF Live, Size, Matching
    <3>2. Owing(z) = {}
      BY <1>2 DEF Owing, Holding, At
    <3> QED
      BY <1>4, <3>1, <3>2 DEF IInv, CountIsExact
  <2> QED
    BY <2>1, <2>2
<1>7. CampaignKeepsSegment'
  <2> SUFFICES ASSUME campaign.named, ~crossed
               PROVE  Live(campaign.segment)'
    BY <1>4 DEF CampaignKeepsSegment
  <2>1. PICK z \in Segment \cup {None} : z = campaign.segment
    BY DEF IInv, TypeOK, CampaignRow
  <2>2. Live(z)
    BY <2>1 DEF IInv, CampaignKeepsSegment
  <2>3. Live(z)'
    BY <1>1, <2>2 DEF Live
  <2> QED
    BY <1>4, <2>1, <2>3 DEF Live
<1>8. \A z \in Segment : segment'[z].kind = "none" => members'[z] = {}
  BY <1>1, <1>4 DEF IInv
<1> QED
  BY <1>5, <1>6, <1>7, <1>8 DEF IInv

LEMMA BeginsStep ==
    ASSUME IInv, TypeOK', NEW o \in Op, Begins(o)
    PROVE  IInv'
<1> USE DEF history, budget
<1>0. op \in [Op -> OpRecord]
  BY DEF IInv, TypeOK
<1>1. CASE RecalculateAll(o)
  <2>1. /\ \A p \in Op \ {o} : op'[p] = op[p]
        /\ op[o].pc = "free" /\ op'[o].pc = "next"
    BY <1>0, <1>1 DEF RecalculateAll, FreeOp, At
  <2>2. KnownOp(o)' /\ FreshOp(o)' /\ AskedOp(o)'
    BY <2>1 DEF KnownOp, FreshOp, AskedOp, At
  <2>3. \A s \in Segment : o \notin Owing(s)
    BY <2>1 DEF Owing, Holding
  <2> QED
    BY <1>1, <2>1, <2>2, <2>3, QuietStep DEF RecalculateAll
<1>2. ASSUME NEW s \in Segment, Recalculate(o, s)
      PROVE  IInv'
  BY <1>0, <1>2, BegunStep DEF Recalculate, Begin, FreeOp
<1>3. ASSUME NEW s \in Segment, Delete(o, s)
      PROVE  IInv'
  BY <1>0, <1>3, BegunStep DEF Delete, Begin, FreeOp, Live
<1>4. ASSUME NEW s \in Segment, TakeAudience(o, s)
      PROVE  IInv'
  <2>1. PICK kind \in {"editCampaign", "createCampaign"} : Begin(o, kind, "countAudience", s, {})
    BY <1>4 DEF TakeAudience
  <2> QED
    BY <1>0, <1>4, <2>1, BegunStep DEF TakeAudience, Begin, FreeOp, Live
<1>5. ASSUME NEW s \in Segment, NEW filter \in Trait, UpdateFilters(o, s, filter)
      PROVE  IInv'
  BY <1>0, <1>5, BegunStep DEF UpdateFilters, FreeOp
<1>6. ASSUME NEW s \in Segment, NEW ids \in SUBSET Contact, AddContacts(o, s, ids)
      PROVE  IInv'
  BY <1>0, <1>6, BegunStep DEF AddContacts, Begin, FreeOp
<1>7. ASSUME NEW s \in Segment, NEW ids \in SUBSET Contact, RemoveContacts(o, s, ids)
      PROVE  IInv'
  BY <1>0, <1>7, BegunStep DEF RemoveContacts, Begin, FreeOp
<1>8. CASE TakeOther(o)
  <2>1. /\ \A p \in Op \ {o} : op'[p] = op[p]
        /\ op[o].pc = "free" /\ op'[o].pc = "changeAudience"
    BY <1>0, <1>8 DEF TakeOther, FreeOp, At
  <2>2. KnownOp(o)' /\ FreshOp(o)' /\ AskedOp(o)'
    BY <2>1 DEF KnownOp, FreshOp, AskedOp, At
  <2>3. \A s \in Segment : o \notin Owing(s)
    BY <2>1 DEF Owing, Holding
  <2> QED
    BY <1>8, <2>1, <2>2, <2>3, QuietStep DEF TakeOther
<1> QED
  BY <1>1, <1>2, <1>3, <1>4, <1>5, <1>6, <1>7, <1>8, CreateSegmentStep, FreshRecords DEF Begins

LEMMA FindExistingStep ==
    ASSUME IInv, TypeOK', NEW o \in Op, FindExisting(o)
    PROVE  IInv'
<1>0. op \in [Op -> OpRecord] /\ op[o].pc = "findExisting"
  BY DEF IInv, TypeOK, FindExisting, At
<1>1. \A s \in Segment : o \notin Owing(s)
  BY <1>0 DEF Owing, Holding
<1>2. CASE Finish(o)
  BY <1>1, <1>2, EndedStep DEF FindExisting, budget
<1>3. CASE ~Finish(o)
  <2>1. PICK new : op' = [op EXCEPT ![o].pc = "insert", ![o].ids = new]
    BY <1>3 DEF FindExisting
  <2>2. /\ op'[o].pc = "insert" /\ op'[o].seg = op[o].seg /\ op'[o].kind = op[o].kind
        /\ \A p \in Op \ {o} : op'[p] = op[p]
    BY <1>0, <2>1 DEF OpRecord
  <2>3. KnownOp(o)
    BY DEF IInv
  <2>4. KnownOp(o)' /\ FreshOp(o)' /\ AskedOp(o)'
    BY <1>0, <2>2, <2>3 DEF KnownOp, FreshOp, AskedOp, At, FindExisting
  <2> QED
    BY <1>1, <2>2, <2>4, QuietStep DEF FindExisting, history
<1> QED
  BY <1>2, <1>3

LEMMA CountStep ==
    ASSUME IInv, TypeOK', NEW o \in Op, Count(o)
    PROVE  IInv'
<1>0. op \in [Op -> OpRecord] /\ op[o].pc = "count"
  BY DEF IInv, TypeOK, Count, At
<1>1. PICK s \in Segment : s = op[o].seg
  BY <1>0 DEF IInv, TypeOK
<1>2. PICK n : /\ n = Cardinality(IF segment[s].kind = "DYNAMIC" THEN Matching(op[o].filter)
                                                                   ELSE members[s])
               /\ op' = [op EXCEPT ![o].pc = "writeCount", ![o].n = n]
  BY <1>1 DEF Count
<1>3. /\ op'[o].pc = "writeCount" /\ op'[o].seg = s /\ op'[o].kind = op[o].kind
      /\ op'[o].n = n
      /\ \A p \in Op \ {o} : op'[p] = op[p]
  BY <1>0, <1>1, <1>2 DEF OpRecord
<1>4. UNCHANGED <<segment, members, contact, campaign, stale, dirty, crossed>>
  BY DEF Count, history
<1>5. KnownOp(o) /\ FreshOp(o)
  BY DEF IInv
<1>6. KnownOp(o)' /\ AskedOp(o)'
  BY <1>0, <1>1, <1>3, <1>4, <1>5 DEF KnownOp, AskedOp, At
<1>7. FreshOp(o)'
  <2> SUFFICES ASSUME o \notin stale, Live(s)
               PROVE  n = Size(s)'
    BY <1>3, <1>4 DEF FreshOp, At, Live
  <2>1. CASE segment[s].kind = "DYNAMIC"
    <3>1. op[o].filter = segment[s].filter
      BY <1>0, <1>1, <1>5, <2>1 DEF FreshOp, At
    <3> QED
      BY <1>2, <1>4, <2>1, <3>1 DEF Size, Matching
  <2>2. CASE segment[s].kind = "STATIC"
    BY <1>2, <1>4, <2>2 DEF Size
  <2> QED
    BY <2>1, <2>2 DEF Live
<1>8. \A z \in Segment : o \in Owing(z) => o \in Owing(z)'
  BY <1>1, <1>3 DEF Owing, Holding
<1> QED
  BY <1>3, <1>4, <1>6, <1>7, <1>8, QuietStep

LEMMA CheckUseStep ==
    ASSUME IInv, TypeOK', NEW o \in Op, CheckUse(o)
    PROVE  IInv'
<1>0. op \in [Op -> OpRecord] /\ op[o].pc = "checkUse"
  BY DEF IInv, TypeOK, CheckUse, At
<1>1. \A s \in Segment : o \notin Owing(s)
  BY <1>0 DEF Owing, Holding
<1>2. CASE campaign.segment = op[o].seg
  BY <1>1, <1>2, EndedStep DEF CheckUse
<1>3. CASE campaign.segment # op[o].seg
  <2>1. /\ op'[o].pc = "deleteRow" /\ op'[o].seg = op[o].seg /\ op'[o].kind = op[o].kind
        /\ \A p \in Op \ {o} : op'[p] = op[p]
    BY <1>0, <1>3 DEF OpRecord, CheckUse, Goto
  <2>2. KnownOp(o)
    BY DEF IInv
  <2>3. KnownOp(o)' /\ FreshOp(o)' /\ AskedOp(o)'
    BY <1>0, <1>3, <2>1, <2>2 DEF KnownOp, FreshOp, AskedOp, At, CheckUse
  <2> QED
    BY <1>1, <2>1, <2>3, QuietStep DEF CheckUse, history
<1> QED
  BY <1>2, <1>3

LEMMA CountAudienceStep ==
    ASSUME IInv, TypeOK', NEW o \in Op, CountAudience(o)
    PROVE  IInv'
<1>0. op \in [Op -> OpRecord] /\ op[o].pc = "countAudience"
  BY DEF IInv, TypeOK, CountAudience, At
<1>1. \A s \in Segment : o \notin Owing(s)
  BY <1>0 DEF Owing, Holding
<1>2. PICK n : op' = [op EXCEPT ![o].pc = "writeCampaign", ![o].n = n]
  BY DEF CountAudience
<1>3. /\ op'[o].pc = "writeCampaign" /\ op'[o].seg = op[o].seg /\ op'[o].kind = op[o].kind
      /\ \A p \in Op \ {o} : op'[p] = op[p]
  BY <1>0, <1>2 DEF OpRecord
<1>4. KnownOp(o)
  BY DEF IInv
<1>5. KnownOp(o)' /\ FreshOp(o)' /\ AskedOp(o)'
  BY <1>0, <1>3, <1>4 DEF KnownOp, FreshOp, AskedOp, At, CountAudience
<1> QED
  BY <1>1, <1>3, <1>5, QuietStep DEF CountAudience, history

LEMMA ReadSegmentStep ==
    ASSUME IInv, TypeOK', NEW o \in Op, NEW s \in Segment, ReadSegment(o, s)
    PROVE  IInv'
<1>0. op \in [Op -> OpRecord] /\ op[o].pc \in {"reread", "next"}
  BY DEF IInv, TypeOK, ReadSegment, At
<1>1. \A z \in Segment : o \in Owing(z) => z = s /\ op[o].kind # "recalculate"
  BY <1>0 DEF Owing, Holding, ReadSegment, At
<1>2. CASE Live(s)
  <2>1. PICK filter, rest :
          /\ filter = segment[s].filter
          /\ op' = [op EXCEPT ![o].pc = "count", ![o].seg = s, ![o].rest = rest,
                              ![o].filter = filter]
    BY <1>2 DEF ReadSegment
  <2>2. /\ op'[o].pc = "count" /\ op'[o].seg = s /\ op'[o].kind = op[o].kind
        /\ op'[o].filter = filter
        /\ \A p \in Op \ {o} : op'[p] = op[p]
    BY <1>0, <2>1 DEF OpRecord
  <2>3. /\ UNCHANGED <<segment, members, contact, campaign, dirty, crossed>>
        /\ stale' = stale \ {o}
    BY <1>2 DEF ReadSegment
  <2>4. KnownOp(o)' /\ FreshOp(o)' /\ AskedOp(o)'
    BY <1>2, <2>1, <2>2, <2>3 DEF KnownOp, FreshOp, AskedOp, At, Live
  <2>5. \A z \in Segment : o \in Owing(z) => o \in Owing(z)'
    BY <1>1, <2>2 DEF Owing, Holding
  <2> QED
    BY <2>2, <2>3, <2>4, <2>5, QuietStep
<1>3. CASE ~Live(s)
  BY <1>1, <1>3, EndedStep DEF ReadSegment, history
<1> QED
  BY <1>2, <1>3

\* A step of o on the contacts of a static segment: whoever counted before is stale, and o
\* owes the count.
LEMMA MembersStep ==
    ASSUME IInv, TypeOK', NEW o \in Op, NEW s \in Segment, NEW new \in SUBSET Contact,
           op[o].seg = s, op[o].pc \in {"insert", "deleteMembers"},
           members' = [members EXCEPT ![s] = new],
           stale' = stale \cup Holding(s, {"writeCount"}),
           Goto(o, "count"),
           UNCHANGED <<segment, contact, campaign, dirty, crossed>>
    PROVE  IInv'
<1>0. op \in [Op -> OpRecord] /\ members \in [Segment -> SUBSET Contact]
  BY DEF IInv, TypeOK
<1>1. /\ op'[o].pc = "count" /\ op'[o].seg = s /\ op'[o].kind = op[o].kind
      /\ \A p \in Op \ {o} : op'[p] = op[p]
  BY <1>0 DEF OpRecord, Goto
<1>2. segment[s].kind \notin {"none", "DYNAMIC"} /\ op[o].kind # "recalculate"
  BY DEF IInv, KnownOp
<1>3. \A z \in Segment \ {s} : members'[z] = members[z]
  BY <1>0
<1>4. ASSUME NEW p \in Op
      PROVE  KnownOp(p)' /\ FreshOp(p)' /\ AskedOp(p)'
  <2>1. CASE p = o
    BY <1>1, <1>2, <2>1 DEF KnownOp, FreshOp, AskedOp, At
  <2>2. CASE p # o
    <3>1. KnownOp(p) /\ FreshOp(p) /\ AskedOp(p) /\ op'[p] = op[p]
      BY <1>1, <2>2 DEF IInv
    <3>2. KnownOp(p)' /\ AskedOp(p)'
      BY <3>1 DEF KnownOp, AskedOp, At
    <3>3. FreshOp(p)'
      <4> SUFFICES ASSUME p \notin stale', Live(op[p].seg)
                   PROVE  /\ At(p, "count") /\ segment[op[p].seg].kind = "DYNAMIC" =>
                                 op[p].filter = segment[op[p].seg].filter
                          /\ At(p, "writeCount") => op[p].n = Size(op[p].seg)'
        BY <3>1 DEF FreshOp, At, Live, Size, Matching
      <4>1. p \notin stale /\ ~(op[p].seg = s /\ op[p].pc = "writeCount")
        BY DEF Holding
      <4>2. ASSUME At(p, "writeCount")
            PROVE  op[p].n = Size(op[p].seg)'
        <5>1. op[p].seg \in Segment \ {s}
          BY <4>1, <4>2 DEF At, IInv, TypeOK
        <5> QED
          BY <1>3, <3>1, <4>1, <4>2, <5>1 DEF FreshOp, Size, Matching
      <4> QED
        BY <3>1, <4>1, <4>2 DEF FreshOp
    <3> QED
      BY <3>2, <3>3
  <2> QED
    BY <2>1, <2>2
<1>5. CountIsExact'
  <2> SUFFICES ASSUME NEW z \in Segment, Live(z)', z \notin dirty', Owing(z)' = {}
               PROVE  segment'[z].count = Size(z)'
    BY DEF CountIsExact
  <2>1. CASE z = s
    <3>1. o \in Owing(s)'
      BY <1>1, <1>2 DEF Owing, Holding
    <3> QED
      BY <2>1, <3>1
  <2>2. CASE z # s
    <3>1. Live(z) /\ Size(z)' = Size(z)
      BY <1>3, <2>2 DEF Live, Size, Matching
    <3>2. Owing(z) = {}
      BY <1>1, <2>2 DEF Owing, Holding
    <3> QED
      BY <3>1, <3>2 DEF IInv, CountIsExact
  <2> QED
    BY <2>1, <2>2
<1>6. \A z \in Segment : segment'[z].kind = "none" => members'[z] = {}
  BY <1>2, <1>3 DEF IInv
<1>7. CampaignKeepsSegment'
  BY DEF IInv, CampaignKeepsSegment, Live
<1> QED
  BY <1>4, <1>5, <1>6, <1>7 DEF IInv

LEMMA InsertStep ==
    ASSUME IInv, TypeOK', NEW o \in Op, Insert(o)
    PROVE  IInv'
<1>0. op[o].pc = "insert" /\ op[o].ids \subseteq Contact /\ members \in [Segment -> SUBSET Contact]
  BY DEF IInv, TypeOK, Insert, At, OpRecord
<1>1. PICK s \in Segment : s = op[o].seg
  BY <1>0 DEF IInv, TypeOK
<1>2. CASE Finish(o) /\ UNCHANGED <<members, stale>>
  <2>1. \A z \in Segment : o \notin Owing(z)
    BY <1>0 DEF Owing, Holding
  <2> QED
    BY <1>2, <2>1, EndedStep DEF Insert, history
<1>3. CASE ~(Finish(o) /\ UNCHANGED <<members, stale>>)
  <2>1. PICK new \in SUBSET Contact : members' = [members EXCEPT ![s] = new]
    BY <1>0, <1>1, <1>3 DEF Insert
  <2> QED
    BY <1>0, <1>1, <1>3, <2>1, MembersStep DEF Insert
<1> QED
  BY <1>2, <1>3

LEMMA DeleteMembersStep ==
    ASSUME IInv, TypeOK', NEW o \in Op, DeleteMembers(o)
    PROVE  IInv'
<1>0. op[o].pc = "deleteMembers" /\ members \in [Segment -> SUBSET Contact]
  BY DEF IInv, TypeOK, DeleteMembers, At
<1>1. PICK s \in Segment : s = op[o].seg
  BY <1>0 DEF IInv, TypeOK
<1>2. PICK new \in SUBSET Contact : members' = [members EXCEPT ![s] = new]
  BY <1>0, <1>1 DEF DeleteMembers
<1> QED
  BY <1>0, <1>1, <1>2, MembersStep DEF DeleteMembers

\* A count that nothing overtook is the segment's size when it is written.
LEMMA WriteCountStep ==
    ASSUME IInv, TypeOK', NEW o \in Op, WriteCount(o)
    PROVE  IInv'
<1>0. /\ op \in [Op -> OpRecord] /\ segment \in [Segment -> SegmentRow]
      /\ op[o].pc = "writeCount"
  BY DEF IInv, TypeOK, WriteCount, At
<1>1. PICK s \in Segment : s = op[o].seg
  BY <1>0 DEF IInv, TypeOK
<1>2. \A z \in Segment : o \in Owing(z) => z = s
  BY <1>1 DEF Owing, Holding
<1>3. CASE ~Live(s)
  <2>1. \A z \in Segment : o \in Owing(z) => ~Live(z)
    BY <1>2, <1>3
  <2> QED
    BY <1>1, <1>3, <2>1, EndedStep DEF WriteCount, history
<1>4. CASE Live(s)
  <2>1. UNCHANGED <<members, contact, campaign, stale, crossed>>
    BY DEF WriteCount
  <2>2. /\ segment' = [segment EXCEPT ![s].count = op[o].n]
        /\ dirty' = IF o \in stale THEN dirty \cup {s} ELSE dirty \ {s}
    BY <1>1, <1>4 DEF WriteCount
  <2>3. /\ op'[o].pc \in {"next", "done"}
        /\ \A p \in Op \ {o} : op'[p] = op[p]
    <3>1. Finish(o) \/ Goto(o, "next")
      BY <1>1, <1>4 DEF WriteCount
    <3>2. CASE Finish(o)
      BY <1>0, <3>2 DEF Finish, FreeOp
    <3>3. CASE Goto(o, "next")
      BY <1>0, <3>3 DEF Goto, OpRecord
    <3> QED
      BY <3>1, <3>2, <3>3
  <2>4. /\ segment'[s].kind = segment[s].kind /\ segment'[s].filter = segment[s].filter
        /\ segment'[s].count = op[o].n
        /\ \A z \in Segment \ {s} : segment'[z] = segment[z]
    BY <1>0, <2>2 DEF SegmentRow
  <2>5. \A z \in Segment : /\ segment'[z].kind = segment[z].kind
                           /\ segment'[z].filter = segment[z].filter
    BY <2>4
  <2>6. \A z \in Segment : Live(z)' = Live(z) /\ Size(z)' = Size(z)
    BY <2>1, <2>5 DEF Live, Size, Matching
  <2>7. ASSUME NEW p \in Op
        PROVE  KnownOp(p)' /\ FreshOp(p)' /\ AskedOp(p)'
    <3>1. CASE op'[p].pc \in {"free", "next", "done", "changeAudience"}
      BY <3>1 DEF KnownOp, FreshOp, AskedOp, At
    <3>2. CASE op'[p].pc \notin {"free", "next", "done", "changeAudience"}
      <4>1. /\ KnownOp(p) /\ FreshOp(p) /\ AskedOp(p) /\ op'[p] = op[p]
        BY <2>3, <3>2 DEF IInv
      <4>2. PICK z \in Segment : z = op[p].seg
        BY <3>2, <4>1 DEF IInv, TypeOK
      <4>3. KnownOp(p)' /\ AskedOp(p)'
        BY <2>1, <2>5, <4>1, <4>2 DEF KnownOp, AskedOp, At
      <4>4. FreshOp(p)'
        BY <2>1, <2>5, <4>1, <4>2 DEF FreshOp, At, Live, Size, Matching
      <4> QED
        BY <4>3, <4>4
    <3> QED
      BY <3>1, <3>2
  <2>8. CountIsExact'
    <3> SUFFICES ASSUME NEW z \in Segment, Live(z)', z \notin dirty', Owing(z)' = {}
                 PROVE  segment'[z].count = Size(z)'
      BY DEF CountIsExact
    <3>1. CASE z = s
      <4>1. o \notin stale
        BY <2>2, <3>1
      <4>2. FreshOp(o)
        BY DEF IInv
      <4>3. op[o].n = Size(s)
        BY <1>0, <1>1, <1>4, <4>1, <4>2 DEF FreshOp, At
      <4> QED
        BY <2>4, <2>6, <3>1, <4>3
    <3>2. CASE z # s
      <4>1. Owing(z) = {}
        BY <1>2, <2>3, <3>2 DEF Owing, Holding
      <4>2. Live(z) /\ z \notin dirty
        BY <2>2, <2>6, <3>2
      <4> QED
        BY <2>4, <2>6, <3>2, <4>1, <4>2 DEF IInv, CountIsExact
    <3> QED
      BY <3>1, <3>2
  <2>9. CampaignKeepsSegment'
    <3>1. campaign.segment \in Segment \cup {None}
      BY DEF IInv, TypeOK, CampaignRow
    <3> QED
      BY <2>1, <2>5, <3>1 DEF IInv, CampaignKeepsSegment, Live
  <2>10. \A z \in Segment : segment'[z].kind = "none" => members'[z] = {}
    BY <2>1, <2>5 DEF IInv
  <2> QED
    BY <2>7, <2>8, <2>9, <2>10 DEF IInv
<1> QED
  BY <1>3, <1>4

\* Whoever read the filter that goes is stale, and o owes the count.
LEMMA WriteFilterStep ==
    ASSUME IInv, TypeOK', NEW o \in Op, WriteFilter(o)
    PROVE  IInv'
<1>0. /\ op \in [Op -> OpRecord] /\ segment \in [Segment -> SegmentRow]
      /\ op[o].pc = "writeFilter"
  BY DEF IInv, TypeOK, WriteFilter, At
<1>1. PICK s \in Segment : s = op[o].seg
  BY <1>0 DEF IInv, TypeOK
<1>2. \A z \in Segment : o \notin Owing(z)
  BY <1>0 DEF Owing, Holding
<1>3. CASE ~Live(s)
  BY <1>1, <1>2, <1>3, EndedStep DEF WriteFilter, history
<1>4. CASE Live(s)
  <2>1. UNCHANGED <<members, contact, campaign, dirty, crossed>>
    BY DEF WriteFilter
  <2>2. /\ segment' = [segment EXCEPT ![s].filter = op[o].filter]
        /\ stale' = stale \cup Holding(s, {"count", "writeCount"})
        /\ Goto(o, "reread")
    BY <1>1, <1>4 DEF WriteFilter
  <2>3. /\ op'[o].pc = "reread" /\ op'[o].seg = s /\ op'[o].kind = op[o].kind
        /\ \A p \in Op \ {o} : op'[p] = op[p]
    BY <1>0, <1>1, <2>2 DEF Goto, OpRecord
  <2>4. /\ \A z \in Segment : segment'[z].kind = segment[z].kind
        /\ \A z \in Segment \ {s} : segment'[z] = segment[z]
    BY <1>0, <2>2 DEF SegmentRow
  <2>5. op[o].kind # "recalculate" /\ segment[s].kind # "none"
    BY <1>0, <1>1 DEF IInv, KnownOp
  <2>6. ASSUME NEW p \in Op
        PROVE  KnownOp(p)' /\ FreshOp(p)' /\ AskedOp(p)'
    <3>1. CASE p = o
      BY <2>3, <2>4, <2>5, <3>1 DEF KnownOp, FreshOp, AskedOp, At
    <3>2. CASE op'[p].pc \in {"free", "next", "done", "changeAudience"}
      BY <3>2 DEF KnownOp, FreshOp, AskedOp, At
    <3>3. CASE p # o /\ op'[p].pc \notin {"free", "next", "done", "changeAudience"}
      <4>1. KnownOp(p) /\ FreshOp(p) /\ AskedOp(p) /\ op'[p] = op[p]
        BY <2>3, <3>3 DEF IInv
      <4>2. PICK z \in Segment : z = op[p].seg
        BY <3>3, <4>1 DEF IInv, TypeOK
      <4>3. KnownOp(p)' /\ AskedOp(p)'
        BY <2>1, <2>4, <4>1, <4>2 DEF KnownOp, AskedOp, At
      <4>4. CASE z = s
        BY <2>2, <4>1, <4>2, <4>3, <4>4 DEF FreshOp, At, Holding
      <4>5. CASE z # s
        <5>1. segment'[z] = segment[z] /\ (p \notin stale' => p \notin stale)
          BY <2>2, <2>4, <4>5
        <5>2. FreshOp(p)'
          BY <2>1, <4>1, <4>2, <5>1 DEF FreshOp, At, Live, Size, Matching
        <5> QED
          BY <4>3, <5>2
      <4> QED
        BY <4>4, <4>5
    <3> QED
      BY <3>1, <3>2, <3>3
  <2>7. CountIsExact'
    <3> SUFFICES ASSUME NEW z \in Segment, Live(z)', z \notin dirty', Owing(z)' = {}
                 PROVE  segment'[z].count = Size(z)'
      BY DEF CountIsExact
    <3>1. CASE z = s
      <4>1. o \in Owing(s)'
        BY <2>3, <2>5 DEF Owing, Holding
      <4> QED
        BY <3>1, <4>1
    <3>2. CASE z # s
      <4>1. Owing(z) = {}
        BY <1>2, <2>3 DEF Owing, Holding
      <4>2. segment'[z] = segment[z] /\ Live(z) /\ Size(z)' = Size(z)
        BY <2>1, <2>4, <3>2 DEF Live, Size, Matching
      <4> QED
        BY <2>1, <4>1, <4>2 DEF IInv, CountIsExact
    <3> QED
      BY <3>1, <3>2
  <2>8. CampaignKeepsSegment'
    <3>1. campaign.segment \in Segment \cup {None}
      BY DEF IInv, TypeOK, CampaignRow
    <3> QED
      BY <2>1, <2>4, <3>1 DEF IInv, CampaignKeepsSegment, Live
  <2>9. \A z \in Segment : segment'[z].kind = "none" => members'[z] = {}
    BY <2>1, <2>4 DEF IInv
  <2> QED
    BY <2>6, <2>7, <2>8, <2>9 DEF IInv
<1> QED
  BY <1>3, <1>4

\* A deletion that asked first finds no campaign on the segment, unless one crossed it.
LEMMA DeleteRowStep ==
    ASSUME IInv, TypeOK', NEW o \in Op, DeleteRow(o)
    PROVE  IInv'
<1>0. /\ op \in [Op -> OpRecord] /\ segment \in [Segment -> SegmentRow]
      /\ members \in [Segment -> SUBSET Contact]
      /\ op[o].pc = "deleteRow"
  BY DEF IInv, TypeOK, DeleteRow, At
<1>1. PICK s \in Segment : s = op[o].seg
  BY <1>0 DEF IInv, TypeOK
<1>2. \A z \in Segment : o \notin Owing(z)
  BY <1>0 DEF Owing, Holding
<1>3. CASE ~Live(s)
  BY <1>1, <1>2, <1>3, EndedStep DEF DeleteRow, history
<1>4. CASE Live(s)
  <2>1. UNCHANGED <<contact, stale, dirty, crossed>>
    BY DEF DeleteRow, history
  <2>2. /\ segment' = [segment EXCEPT ![s].kind = "gone"]
        /\ members' = [members EXCEPT ![s] = {}]
        /\ campaign' = IF campaign.segment = s THEN [campaign EXCEPT !.segment = None]
                                               ELSE campaign
    BY <1>1, <1>4 DEF DeleteRow
  <2>3. op'[o].pc = "done" /\ \A p \in Op \ {o} : op'[p] = op[p]
    BY <1>0 DEF DeleteRow, Finish, FreeOp
  <2>4. /\ segment'[s].kind = "gone"
        /\ \A z \in Segment \ {s} : segment'[z] = segment[z] /\ members'[z] = members[z]
        /\ members'[s] = {}
    BY <1>0, <2>2 DEF SegmentRow
  <2>5. /\ campaign'.named = campaign.named
        /\ ~crossed => campaign.segment # s /\ campaign' = campaign
    <3>1. campaign \in [row: BOOLEAN, segment: Segment \cup {None}, total: Nat, named: BOOLEAN]
      BY DEF IInv, TypeOK, CampaignRow
    <3>2. AskedOp(o)
      BY DEF IInv
    <3> QED
      BY <1>0, <1>1, <2>2, <3>1, <3>2 DEF AskedOp, At
  <2>6. ASSUME NEW p \in Op
        PROVE  KnownOp(p)' /\ FreshOp(p)' /\ AskedOp(p)'
    <3>1. CASE op'[p].pc \in {"free", "next", "done", "changeAudience"}
      BY <3>1 DEF KnownOp, FreshOp, AskedOp, At
    <3>2. CASE op'[p].pc \notin {"free", "next", "done", "changeAudience"}
      <4>1. KnownOp(p) /\ FreshOp(p) /\ AskedOp(p) /\ op'[p] = op[p]
        BY <2>3, <3>2 DEF IInv
      <4>2. PICK z \in Segment : z = op[p].seg
        BY <3>2, <4>1 DEF IInv, TypeOK
      <4>3. AskedOp(p)'
        BY <2>1, <2>5, <4>1 DEF AskedOp, At
      <4>4. CASE z = s
        BY <2>4, <4>1, <4>2, <4>3, <4>4 DEF KnownOp, FreshOp, Live
      <4>5. CASE z # s
        <5>1. segment'[z] = segment[z] /\ members'[z] = members[z]
          BY <2>4, <4>5
        <5>2. KnownOp(p)'
          BY <4>1, <4>2, <5>1 DEF KnownOp
        <5>3. FreshOp(p)'
          BY <2>1, <4>1, <4>2, <5>1 DEF FreshOp, At, Live, Size, Matching
        <5> QED
          BY <4>3, <5>2, <5>3
      <4> QED
        BY <4>4, <4>5
    <3> QED
      BY <3>1, <3>2
  <2>7. CountIsExact'
    <3> SUFFICES ASSUME NEW z \in Segment, Live(z)', z \notin dirty', Owing(z)' = {}
                 PROVE  segment'[z].count = Size(z)'
      BY DEF CountIsExact
    <3>1. z # s
      BY <2>4 DEF Live
    <3>2. Owing(z) = {}
      BY <1>2, <2>3 DEF Owing, Holding
    <3>3. segment'[z] = segment[z] /\ Live(z) /\ Size(z)' = Size(z)
      BY <2>1, <2>4, <3>1 DEF Live, Size, Matching
    <3> QED
      BY <2>1, <3>2, <3>3 DEF IInv, CountIsExact
  <2>8. CampaignKeepsSegment'
    <3> SUFFICES ASSUME campaign.named, ~crossed
                 PROVE  Live(campaign.segment)'
      BY <2>1, <2>5 DEF CampaignKeepsSegment, Live
    <3>1. PICK z \in Segment : z = campaign.segment /\ z # s
      BY <2>5 DEF IInv, CampaignKeepsSegment, TypeOK, CampaignRow, Live
    <3>2. Live(z)
      BY <3>1 DEF IInv, CampaignKeepsSegment
    <3> QED
      BY <2>4, <2>5, <3>1, <3>2 DEF Live
  <2>9. \A z \in Segment : segment'[z].kind = "none" => members'[z] = {}
    BY <2>4 DEF IInv
  <2> QED
    BY <2>6, <2>7, <2>8, <2>9 DEF IInv
<1> QED
  BY <1>3, <1>4

\* A draft that is written past the check of a deletion crosses it.
LEMMA WriteCampaignStep ==
    ASSUME IInv, TypeOK', NEW o \in Op, WriteCampaign(o)
    PROVE  IInv'
<1>0. op \in [Op -> OpRecord] /\ op[o].pc = "writeCampaign"
  BY DEF IInv, TypeOK, WriteCampaign, At
<1>1. PICK s \in Segment : s = op[o].seg
  BY <1>0 DEF IInv, TypeOK
<1>2. \A z \in Segment : o \notin Owing(z)
  BY <1>0 DEF Owing, Holding
<1>3. CASE ~Live(s)
  BY <1>1, <1>2, <1>3, EndedStep DEF WriteCampaign, history
<1>4. CASE Live(s)
  <2>1. UNCHANGED <<segment, members, contact, stale, dirty>>
    BY DEF WriteCampaign
  <2>2. /\ campaign'.segment = s
        /\ crossed' = (crossed \/ Holding(s, {"deleteRow"}) # {})
    BY <1>1, <1>4 DEF WriteCampaign
  <2>3. op'[o].pc = "done" /\ \A p \in Op \ {o} : op'[p] = op[p]
    BY <1>0 DEF WriteCampaign, Finish, FreeOp
  <2>4. ASSUME NEW p \in Op
        PROVE  KnownOp(p)' /\ FreshOp(p)' /\ AskedOp(p)'
    <3>1. CASE p = o
      BY <2>3, <3>1 DEF KnownOp, FreshOp, AskedOp, At
    <3>2. CASE p # o
      <4>1. KnownOp(p) /\ FreshOp(p) /\ op'[p] = op[p]
        BY <2>3, <3>2 DEF IInv
      <4>2. KnownOp(p)'
        BY <2>1, <4>1 DEF KnownOp
      <4>3. FreshOp(p)'
        BY <2>1, <4>1 DEF FreshOp, At, Live, Size, Matching
      <4>4. AskedOp(p)'
        BY <2>2, <4>1 DEF AskedOp, At, Holding
      <4> QED
        BY <4>2, <4>3, <4>4
    <3> QED
      BY <3>1, <3>2
  <2>5. CountIsExact'
    <3> SUFFICES ASSUME NEW z \in Segment, Live(z)', z \notin dirty', Owing(z)' = {}
                 PROVE  segment'[z].count = Size(z)'
      BY DEF CountIsExact
    <3>1. Owing(z) = {}
      BY <1>2, <2>3 DEF Owing, Holding
    <3>2. Live(z) /\ Size(z)' = Size(z)
      BY <2>1 DEF Live, Size, Matching
    <3> QED
      BY <2>1, <3>1, <3>2 DEF IInv, CountIsExact
  <2>6. CampaignKeepsSegment'
    BY <1>4, <2>1, <2>2 DEF CampaignKeepsSegment, Live
  <2> QED
    BY <2>1, <2>4, <2>5, <2>6 DEF IInv
<1> QED
  BY <1>3, <1>4

\* Another audience of the draft, in the same way.
LEMMA ChangeAudienceStep ==
    ASSUME IInv, TypeOK', NEW o \in Op, NEW to \in Segment \cup {None}, ChangeAudience(o, to)
    PROVE  IInv'
<1>0. op \in [Op -> OpRecord] /\ op[o].pc = "changeAudience"
  BY DEF IInv, TypeOK, ChangeAudience, At
<1>1. \A z \in Segment : o \notin Owing(z)
  BY <1>0 DEF Owing, Holding
<1>2. CASE ~(to = None \/ Live(to))
  BY <1>1, <1>2, EndedStep DEF ChangeAudience, history
<1>3. CASE to = None \/ Live(to)
  <2>1. UNCHANGED <<segment, members, contact, stale, dirty>>
    BY DEF ChangeAudience
  <2>2. /\ campaign'.segment = to /\ campaign'.named = (to # None)
        /\ crossed' = (crossed \/ (to # campaign.segment /\ Holding(to, {"deleteRow"}) # {}))
    BY <1>3 DEF ChangeAudience
  <2>3. op'[o].pc = "done" /\ \A p \in Op \ {o} : op'[p] = op[p]
    BY <1>0 DEF ChangeAudience, Finish, FreeOp
  <2>4. ASSUME NEW p \in Op
        PROVE  KnownOp(p)' /\ FreshOp(p)' /\ AskedOp(p)'
    <3>1. CASE p = o
      BY <2>3, <3>1 DEF KnownOp, FreshOp, AskedOp, At
    <3>2. CASE p # o
      <4>1. KnownOp(p) /\ FreshOp(p) /\ AskedOp(p) /\ op'[p] = op[p]
        BY <2>3, <3>2 DEF IInv
      <4>2. KnownOp(p)'
        BY <2>1, <4>1 DEF KnownOp
      <4>3. FreshOp(p)'
        BY <2>1, <4>1 DEF FreshOp, At, Live, Size, Matching
      <4>4. AskedOp(p)'
        <5> SUFFICES ASSUME op[p].pc = "deleteRow", ~crossed', op[p].seg = to
                     PROVE  FALSE
          BY <2>2, <4>1 DEF AskedOp, At
        <5>1. p \in Holding(to, {"deleteRow"})
          BY DEF Holding
        <5>2. ~crossed /\ to = campaign.segment
          BY <2>2, <5>1
        <5> QED
          BY <4>1, <5>2 DEF AskedOp, At
      <4> QED
        BY <4>2, <4>3, <4>4
    <3> QED
      BY <3>1, <3>2
  <2>5. CountIsExact'
    <3> SUFFICES ASSUME NEW z \in Segment, Live(z)', z \notin dirty', Owing(z)' = {}
                 PROVE  segment'[z].count = Size(z)'
      BY DEF CountIsExact
    <3>1. Owing(z) = {}
      BY <1>1, <2>3 DEF Owing, Holding
    <3>2. Live(z) /\ Size(z)' = Size(z)
      BY <2>1 DEF Live, Size, Matching
    <3> QED
      BY <2>1, <3>1, <3>2 DEF IInv, CountIsExact
  <2>6. CampaignKeepsSegment'
    BY <1>3, <2>1, <2>2 DEF CampaignKeepsSegment, Live
  <2> QED
    BY <2>1, <2>4, <2>5, <2>6 DEF IInv
<1> QED
  BY <1>2, <1>3

\* A contact that changes marks every count it is part of as off, and as stale.
LEMMA ContactChangesStep ==
    ASSUME IInv, TypeOK', NEW c \in Contact, NEW to \in Trait \cup {"gone"},
           ContactChanges(c, to)
    PROVE  IInv'
<1> DEFINE Counted == {s \in Segment : segment[s].kind = "DYNAMIC"
                                       \/ (to = "gone" /\ c \in members[s])}
<1>0. members \in [Segment -> SUBSET Contact] /\ op \in [Op -> OpRecord]
  BY DEF IInv, TypeOK
<1>1. /\ UNCHANGED <<segment, campaign, op, crossed>>
      /\ members' = IF to = "gone" THEN [s \in Segment |-> members[s] \ {c}] ELSE members
      /\ dirty' = dirty \cup Counted
      /\ stale' = stale \cup UNION {Holding(s, {"writeCount"}) : s \in Counted}
  BY DEF ContactChanges
<1>2. \A s \in Segment : \/ members'[s] = members[s]
                         \/ s \in Counted /\ members'[s] \subseteq members[s]
  BY <1>0, <1>1
<1>3. \A s \in Segment \ Counted : Live(s) => Live(s)' /\ Size(s)' = Size(s)
  BY <1>1, <1>2 DEF Live, Size
<1>4. ASSUME NEW p \in Op
      PROVE  KnownOp(p)' /\ FreshOp(p)' /\ AskedOp(p)'
  <2>1. KnownOp(p) /\ FreshOp(p) /\ AskedOp(p)
    BY DEF IInv
  <2>2. KnownOp(p)' /\ AskedOp(p)'
    BY <1>1, <2>1 DEF KnownOp, AskedOp, At
  <2>3. CASE op[p].pc = "writeCount"
    <3>1. PICK z \in Segment : z = op[p].seg
      BY <2>3 DEF IInv, TypeOK
    <3>2. CASE z \in Counted
      <4>1. p \in stale'
        BY <1>1, <2>3, <3>1, <3>2 DEF Holding
      <4> QED
        BY <2>2, <4>1 DEF FreshOp
    <3>3. CASE z \notin Counted
      <4>1. p \notin stale' /\ Live(z)' => op[p].n = Size(z)'
        BY <1>1, <1>3, <2>1, <2>3, <3>1, <3>3 DEF FreshOp, At, Live
      <4> QED
        BY <1>1, <2>2, <2>3, <3>1, <4>1 DEF FreshOp, At
    <3> QED
      BY <3>2, <3>3
  <2>4. CASE op[p].pc # "writeCount"
    BY <1>1, <2>1, <2>2, <2>4 DEF FreshOp, At, Live
  <2> QED
    BY <2>3, <2>4
<1>5. CountIsExact'
  <2> SUFFICES ASSUME NEW z \in Segment, Live(z)', z \notin dirty', Owing(z)' = {}
               PROVE  segment'[z].count = Size(z)'
    BY DEF CountIsExact
  <2>1. z \notin Counted /\ z \notin dirty /\ Live(z) /\ Owing(z) = {}
    BY <1>1 DEF Live, Owing, Holding
  <2> QED
    BY <1>1, <1>3, <2>1 DEF IInv, CountIsExact
<1>6. \A z \in Segment : segment'[z].kind = "none" => members'[z] = {}
  BY <1>1, <1>2 DEF IInv
<1>7. CampaignKeepsSegment'
  BY <1>1 DEF IInv, CampaignKeepsSegment, Live
<1> QED
  BY <1>4, <1>5, <1>6, <1>7 DEF IInv

\* An operation that fails leaves the counts it owed off.
LEMMA OpFailsStep ==
    ASSUME IInv, TypeOK', NEW o \in Op, OpFails(o)
    PROVE  IInv'
<1>0. op \in [Op -> OpRecord]
  BY DEF IInv, TypeOK
<1>1. /\ UNCHANGED <<segment, members, contact, campaign, stale, crossed>>
      /\ dirty' = dirty \cup {s \in Segment : o \in Owing(s)}
  BY DEF OpFails
<1>2. op'[o].pc = "done" /\ \A p \in Op \ {o} : op'[p] = op[p]
  BY <1>0 DEF OpFails, Finish, FreeOp
<1>3. ASSUME NEW p \in Op
      PROVE  KnownOp(p)' /\ FreshOp(p)' /\ AskedOp(p)'
  <2>1. CASE p = o
    BY <1>2, <2>1 DEF KnownOp, FreshOp, AskedOp, At
  <2>2. CASE p # o
    <3>1. KnownOp(p) /\ FreshOp(p) /\ AskedOp(p) /\ op'[p] = op[p]
      BY <1>2, <2>2 DEF IInv
    <3>2. KnownOp(p)' /\ AskedOp(p)'
      BY <1>1, <3>1 DEF KnownOp, AskedOp, At
    <3>3. FreshOp(p)'
      BY <1>1, <3>1 DEF FreshOp, At, Live, Size, Matching
    <3> QED
      BY <3>2, <3>3
  <2> QED
    BY <2>1, <2>2
<1>4. CountIsExact'
  <2> SUFFICES ASSUME NEW z \in Segment, Live(z)', z \notin dirty', Owing(z)' = {}
               PROVE  segment'[z].count = Size(z)'
    BY DEF CountIsExact
  <2>1. o \notin Owing(z) /\ z \notin dirty
    BY <1>1
  <2>2. Owing(z) = {}
    BY <1>2, <2>1 DEF Owing, Holding
  <2>3. Live(z) /\ Size(z)' = Size(z)
    BY <1>1 DEF Live, Size, Matching
  <2> QED
    BY <1>1, <2>1, <2>2, <2>3 DEF IInv, CountIsExact
<1> QED
  BY <1>1, <1>3, <1>4 DEF IInv, CampaignKeepsSegment, Live

-----------------------------------------------------------------------------
(* The theorems.                                                           *)

LEMMA InvInit ==
    ASSUME Init
    PROVE  IInv
<1>1. TypeOK
  BY TypeInit
<1>2. /\ \A s \in Segment : segment[s].kind = "none" /\ members[s] = {}
      /\ \A o \in Op : op[o].pc = "free"
      /\ campaign.named = FALSE
  BY DEF Init, NoSegment, FreeOp, NoCampaign
<1> QED
  BY <1>1, <1>2 DEF IInv, KnownOp, FreshOp, AskedOp, At, CountIsExact, CampaignKeepsSegment, Live

LEMMA InvStep ==
    ASSUME IInv, [Next]_vars
    PROVE  IInv'
<1>0. TypeOK'
  BY TypeStep DEF IInv
<1>1. ASSUME NEW o \in Op, OpStep(o)
      PROVE  IInv'
  BY <1>0, <1>1, FindExistingStep, InsertStep, DeleteMembersStep, CountStep, WriteCountStep,
     WriteFilterStep, CheckUseStep, DeleteRowStep, CountAudienceStep, WriteCampaignStep,
     ReadSegmentStep, ChangeAudienceStep DEF OpStep
<1>2. CASE UNCHANGED vars
  <2>1. UNCHANGED <<segment, members, contact, campaign, op, stale, dirty, crossed>>
    BY <1>2 DEF vars
  <2>2. \A o \in Op : KnownOp(o)' /\ FreshOp(o)' /\ AskedOp(o)'
    BY <2>1 DEF IInv, KnownOp, FreshOp, AskedOp, At, Live, Size, Matching
  <2>3. CountIsExact' /\ CampaignKeepsSegment'
    BY <2>1 DEF IInv, CountIsExact, CampaignKeepsSegment, Live, Size, Matching, Owing, Holding
  <2> QED
    BY <1>0, <2>1, <2>2, <2>3 DEF IInv
<1> QED
  BY <1>0, <1>1, <1>2, BeginsStep, OpFailsStep, ContactChangesStep DEF Next

THEOREM SegmentInvariance == Spec => []IInv
BY InvInit, InvStep, PTL DEF Spec

\* The number on a segment is the number of its contacts, or somebody is about to count, or
\* the loss is one of those that are named.
THEOREM SegmentCountIsExact == Spec => []CountIsExact
<1>1. IInv => CountIsExact
  BY DEF IInv
<1> QED
  BY <1>1, SegmentInvariance, PTL

\* No deletion takes the segment of a draft, unless the draft was written past its check.
THEOREM CampaignsKeepTheirSegment == Spec => []CampaignKeepsSegment
<1>1. IInv => CampaignKeepsSegment
  BY DEF IInv
<1> QED
  BY <1>1, SegmentInvariance, PTL

\* Each operation is moved by its own steps only.
LEMMA OneOpMoves ==
    ASSUME TypeOK, NEW p \in Op, Begins(p) \/ OpStep(p) \/ OpFails(p), NEW o \in Op, o # p
    PROVE  op'[o] = op[o]
<1> USE DEF TypeOK, Finish, Goto, Begin
<1>1. CASE Begins(p)
  <2>1. ASSUME NEW s \in Segment, NEW kind \in {"STATIC", "DYNAMIC"}, NEW filter,
               NEW ids \in SUBSET Contact, CreateSegment(p, s, kind, filter, ids)
        PROVE  op'[o] = op[o]
    <3>1. CASE kind = "DYNAMIC"
      BY <2>1, <3>1 DEF CreateSegment
    <3>2. CASE kind = "STATIC" /\ ids # {}
      BY <2>1, <3>2 DEF CreateSegment
    <3>3. CASE kind = "STATIC" /\ ids = {}
      BY <2>1, <3>3 DEF CreateSegment
    <3> QED
      BY <3>1, <3>2, <3>3
  <2>2. CASE RecalculateAll(p) \/ TakeOther(p)
    BY <2>2 DEF RecalculateAll, TakeOther
  <2>3. ASSUME NEW s \in Segment, Recalculate(p, s) \/ Delete(p, s) \/ TakeAudience(p, s)
        PROVE  op'[o] = op[o]
    BY <2>3 DEF Recalculate, Delete, TakeAudience
  <2>4. ASSUME NEW s \in Segment, NEW filter \in Trait, UpdateFilters(p, s, filter)
        PROVE  op'[o] = op[o]
    BY <2>4 DEF UpdateFilters
  <2>5. ASSUME NEW s \in Segment, NEW ids \in SUBSET Contact,
               AddContacts(p, s, ids) \/ RemoveContacts(p, s, ids)
        PROVE  op'[o] = op[o]
    BY <2>5 DEF AddContacts, RemoveContacts
  <2> QED
    BY <1>1, <2>1, <2>2, <2>3, <2>4, <2>5 DEF Begins
<1>2. CASE OpStep(p)
  <2>1. CASE FindExisting(p) \/ Insert(p) \/ DeleteMembers(p) \/ Count(p) \/ WriteCount(p)
    BY <2>1 DEF FindExisting, Insert, DeleteMembers, Count, WriteCount
  <2>2. CASE WriteFilter(p) \/ CheckUse(p) \/ DeleteRow(p) \/ CountAudience(p) \/ WriteCampaign(p)
    BY <2>2 DEF WriteFilter, CheckUse, DeleteRow, CountAudience, WriteCampaign
  <2>3. ASSUME NEW s \in Segment, ReadSegment(p, s)
        PROVE  op'[o] = op[o]
    BY <2>3 DEF ReadSegment
  <2>4. ASSUME NEW to \in Segment \cup {None}, ChangeAudience(p, to)
        PROVE  op'[o] = op[o]
    BY <2>4 DEF ChangeAudience
  <2> QED
    BY <1>2, <2>1, <2>2, <2>3, <2>4 DEF OpStep
<1>3. CASE OpFails(p)
  BY <1>3 DEF OpFails
<1> QED
  BY <1>1, <1>2, <1>3

\* Only the count of the audience brings an operation to the write of the campaign.
LEMMA OnlyCountAudience ==
    ASSUME TypeOK, [Next]_vars, NEW o \in Op,
           op[o].pc = "countAudience", op'[o].pc = "writeCampaign"
    PROVE  CountAudience(o)
<1>1. op \in [Op -> OpRecord]
  BY DEF TypeOK
<1>2. PICK p \in Op : Begins(p) \/ OpStep(p) \/ OpFails(p)
  BY DEF Next, vars, ContactChanges
<1>3. p = o
  BY <1>1, <1>2, OneOpMoves
<1>4. ~Begins(o)
  <2>1. ASSUME NEW s \in Segment, NEW kind \in {"STATIC", "DYNAMIC"}, NEW filter,
               NEW ids \in SUBSET Contact, CreateSegment(o, s, kind, filter, ids)
        PROVE  At(o, "free")
    BY <2>1 DEF CreateSegment, Begin
  <2> QED
    BY <2>1 DEF Begins, RecalculateAll, TakeOther, Recalculate, Delete, TakeAudience, UpdateFilters,
                AddContacts, RemoveContacts, Begin, At
<1>5. ~OpFails(o)
  BY <1>1 DEF OpFails, Finish, FreeOp
<1> QED
  BY <1>2, <1>3, <1>4, <1>5 DEF OpStep, FindExisting, Insert, DeleteMembers, Count, WriteCount,
                                WriteFilter, CheckUse, DeleteRow, WriteCampaign, ChangeAudience,
                                ReadSegment, At

\* A campaign that takes a static segment counts as many recipients as the segment shows.
THEOREM AudienceCounted == Spec => AudienceIsCounted
<1>1. ASSUME IInv, [Next]_vars, NEW o \in Op,
             op[o].pc = "countAudience", op'[o].pc = "writeCampaign",
             segment[op[o].seg].kind = "STATIC",
             op[o].seg \notin dirty, Owing(op[o].seg) = {}
      PROVE  op'[o].n = segment[op[o].seg].count
  <2>1. PICK s \in Segment : s = op[o].seg
    BY <1>1 DEF IInv, TypeOK
  <2>2. op \in [Op -> OpRecord] /\ CountAudience(o)
    BY <1>1, OnlyCountAudience DEF IInv, TypeOK
  <2>3. PICK n : n = Cardinality(members[s]) /\ op' = [op EXCEPT ![o].pc = "writeCampaign",
                                                               ![o].n = n]
    BY <2>1, <2>2 DEF CountAudience
  <2>4. op'[o].n = n
    BY <2>2, <2>3 DEF OpRecord
  <2>5. segment[s].count = Size(s)
    BY <1>1, <2>1, NoneIsNoSegment DEF IInv, CountIsExact, Live
  <2> QED
    BY <1>1, <2>1, <2>3, <2>4, <2>5 DEF Size
<1>2. IInv /\ [Next]_vars =>
        [\A o \in Op :
           (/\ op[o].pc = "countAudience" /\ op'[o].pc = "writeCampaign"
            /\ segment[op[o].seg].kind = "STATIC"
            /\ op[o].seg \notin dirty /\ Owing(op[o].seg) = {})
               => op'[o].n = segment[op[o].seg].count]_vars
  BY <1>1
<1> QED
  BY <1>2, SegmentInvariance, PTL DEF Spec, AudienceIsCounted
=============================================================================
