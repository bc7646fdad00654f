------------------------------- MODULE Segments -------------------------------
(***************************************************************************)
(* Segments of contacts and the campaigns that use them as audience: the   *)
(* rows of segments and segment_contacts, the stored contact count, and    *)
(* one draft campaign (SegmentsService, ContactsService.delete, and        *)
(* validateAudience and calculateRecipientCount of CampaignsService).      *)
(*                                                                         *)
(* An operation runs one await at a time.  An operation that its first     *)
(* read rejects is not a step.  A filter is the trait it asks for: what    *)
(* the query builder makes of nested groups is left to the database.       *)
(***************************************************************************)
EXTENDS Integers, FiniteSets

CONSTANTS
    Segment,       \* ids of segments; creating one takes a fresh id
    Contact,
    Trait,         \* what filters tell apart
    Op,            \* the operations ever started
    None,          \* no segment
    MaxChanges,    \* bound: contacts changed, added or deleted
    MaxFaults      \* bound: awaits that reject

ASSUME ContactsAreFinite == IsFiniteSet(Contact)
ASSUME SomeTrait == Trait # {}
ASSUME NoneIsNoSegment == None \notin Segment
ASSUME BoundsAreNat == MaxChanges \in Nat /\ MaxFaults \in Nat

VARIABLES
    segment,       \* rows: kind, filter, contactCount
    members,       \* rows of segment_contacts, per segment
    contact,       \* each contact's trait, or that there is no row
    campaign,      \* a draft: its segment, totalRecipients, and whether the last write of its
                   \* audience named a segment (history)
    op,            \* where each operation is
    stale,         \* operations that hold a count or a filter that is no longer right (history)
    dirty,         \* segments whose count is off for a reason named below (history)
    crossed,       \* a campaign took a segment that was past the check of its deletion (history)
    changes, faults

vars == <<segment, members, contact, campaign, op, stale, dirty, crossed, changes, faults>>

NoSegment == [kind |-> "none", filter |-> CHOOSE t \in Trait : TRUE, count |-> 0]
NoCampaign == [row |-> FALSE, segment |-> None, total |-> 0, named |-> FALSE]
FreeOp == [kind |-> "none", pc |-> "free", seg |-> None, ids |-> {}, filter |-> NoSegment.filter,
           n |-> 0, rest |-> {}]

SegmentKind == {"none", "STATIC", "DYNAMIC", "gone"}
OpKind == {"none", "create", "add", "remove", "update", "recalculate", "delete",
           "createCampaign", "editCampaign"}
OpPC == {"free", "findExisting", "insert", "deleteMembers", "reread", "count", "writeCount",
         "next", "writeFilter", "checkUse", "deleteRow", "countAudience", "writeCampaign",
         "changeAudience", "done"}

SegmentRow == [kind: SegmentKind, filter: Trait, count: Nat]
OpRecord == [kind: OpKind, pc: OpPC, seg: Segment \cup {None}, ids: SUBSET Contact,
             filter: Trait, n: Nat, rest: SUBSET Segment]

CampaignRow == [row: BOOLEAN, segment: Segment \cup {None}, total: Nat, named: BOOLEAN]

TypeOK ==
    /\ segment \in [Segment -> SegmentRow]
    /\ members \in [Segment -> SUBSET Contact]
    /\ contact \in [Contact -> Trait \cup {"absent", "gone"}]
    /\ campaign \in CampaignRow
    /\ op \in [Op -> OpRecord]
    /\ \A o \in Op : op[o].pc \notin {"free", "next", "done", "changeAudience"}
              => op[o].seg \in Segment
    /\ stale \subseteq Op
    /\ dirty \subseteq Segment
    /\ crossed \in BOOLEAN
    /\ changes \in 0..MaxChanges
    /\ faults \in 0..MaxFaults

Init ==
    /\ segment = [s \in Segment |-> NoSegment]
    /\ members = [s \in Segment |-> {}]
    /\ contact \in [Contact -> Trait \cup {"absent"}]
    /\ campaign = NoCampaign
    /\ op = [o \in Op |-> FreeOp]
    /\ stale = {}
    /\ dirty = {}
    /\ crossed = FALSE
    /\ changes = 0
    /\ faults = 0

IsRow(c) == contact[c] # "absent" /\ contact[c] # "gone"
Matching(filter) == {c \in Contact : contact[c] = filter}
Live(s) == s # None /\ segment[s].kind \in {"STATIC", "DYNAMIC"}
Size(s) == IF segment[s].kind = "STATIC" THEN Cardinality(members[s])
                                         ELSE Cardinality(Matching(segment[s].filter))

At(o, pc) == op[o].pc = pc
Goto(o, pc) == op' = [op EXCEPT ![o].pc = pc]
Finish(o) == op' = [op EXCEPT ![o] = [FreeOp EXCEPT !.kind = op[o].kind, !.pc = "done"]]
Begin(o, kind, pc, s, ids) ==
    /\ At(o, "free")
    /\ op' = [op EXCEPT ![o] = [FreeOp EXCEPT !.kind = kind, !.pc = pc, !.seg = s, !.ids = ids]]

\* The operations that counted s already, or read a filter that is replaced.
Holding(s, pcs) == {o \in Op : op[o].seg = s /\ op[o].pc \in pcs}

history == <<stale, dirty, crossed>>
budget == <<changes, faults>>

-----------------------------------------------------------------------------
(* Segments and their contacts.                                            *)

CreateSegment(o, s, kind, filter, ids) ==
    /\ segment[s].kind = "none"
    /\ segment' = [segment EXCEPT ![s] = [kind |-> kind, filter |-> filter, count |-> 0]]
    /\ CASE kind = "DYNAMIC" -> Begin(o, "create", "reread", s, {})
         [] kind = "STATIC" /\ ids # {} -> Begin(o, "create", "findExisting", s, ids)
         [] OTHER -> Begin(o, "create", "done", None, {})
    /\ UNCHANGED <<members, contact, campaign, history, budget>>

AddContacts(o, s, ids) ==
    /\ segment[s].kind = "STATIC"
    /\ Begin(o, "add", "findExisting", s, ids)
    /\ UNCHANGED <<segment, members, contact, campaign, history, budget>>

FindExisting(o) ==
    LET new == op[o].ids \ members[op[o].seg] IN
    /\ At(o, "findExisting")
    /\ IF new = {} THEN Finish(o)
                   ELSE op' = [op EXCEPT ![o].pc = "insert", ![o].ids = new]
    /\ UNCHANGED <<segment, members, contact, campaign, history, budget>>

\* createMany is one statement: a contact or a segment that is gone fails all of it, and
\* rows that are there by now are skipped.
Insert(o) ==
    LET s == op[o].seg IN
    /\ At(o, "insert")
    /\ IF Live(s) /\ \A c \in op[o].ids : IsRow(c)
         THEN /\ members' = [members EXCEPT ![s] = @ \cup op[o].ids]
              /\ stale' = stale \cup Holding(s, {"writeCount"})
              /\ Goto(o, "count")
         ELSE UNCHANGED <<members, stale>> /\ Finish(o)
    /\ UNCHANGED <<segment, contact, campaign, dirty, crossed, budget>>

RemoveContacts(o, s, ids) ==
    /\ segment[s].kind = "STATIC"
    /\ Begin(o, "remove", "deleteMembers", s, ids)
    /\ UNCHANGED <<segment, members, contact, campaign, history, budget>>

\* Mutant: the count is left alone.
DeleteMembersOnly(o) ==
    /\ At(o, "deleteMembers")
    /\ members' = [members EXCEPT ![op[o].seg] = @ \ op[o].ids]
    /\ Finish(o)
    /\ UNCHANGED <<segment, contact, campaign, history, budget>>

DeleteMembers(o) ==
    LET s == op[o].seg IN
    /\ At(o, "deleteMembers")
    /\ members' = [members EXCEPT ![s] = @ \ op[o].ids]
    /\ stale' = stale \cup Holding(s, {"writeCount"})
    /\ Goto(o, "count")
    /\ UNCHANGED <<segment, contact, campaign, dirty, crossed, budget>>

\* updateContactCount, and the end of recalculateSegment: count, then write.
Count(o) ==
    LET s == op[o].seg IN
    /\ At(o, "count")
    /\ op' = [op EXCEPT ![o].pc = "writeCount",
                        ![o].n = Cardinality(IF segment[s].kind = "DYNAMIC"
                                               THEN Matching(op[o].filter) ELSE members[s])]
    /\ UNCHANGED <<segment, members, contact, campaign, history, budget>>

WriteCount(o) ==
    LET s == op[o].seg IN
    /\ At(o, "writeCount")
    /\ IF Live(s)
         THEN /\ segment' = [segment EXCEPT ![s].count = op[o].n]
              /\ dirty' = IF o \in stale THEN dirty \cup {s} ELSE dirty \ {s}
              /\ IF op[o].rest = {} THEN Finish(o) ELSE Goto(o, "next")
         ELSE UNCHANGED <<segment, dirty>> /\ Finish(o)
    /\ UNCHANGED <<members, contact, campaign, stale, crossed, budget>>

-----------------------------------------------------------------------------
(* Dynamic segments.                                                       *)

UpdateFilters(o, s, filter) ==
    /\ segment[s].kind = "DYNAMIC"
    /\ At(o, "free")
    /\ op' = [op EXCEPT ![o] = [FreeOp EXCEPT !.kind = "update", !.pc = "writeFilter", !.seg = s,
                                              !.filter = filter]]
    /\ UNCHANGED <<segment, members, contact, campaign, history, budget>>

WriteFilter(o) ==
    LET s == op[o].seg IN
    /\ At(o, "writeFilter")
    /\ IF Live(s)
         THEN /\ segment' = [segment EXCEPT ![s].filter = op[o].filter]
              /\ stale' = stale \cup Holding(s, {"count", "writeCount"})
              /\ Goto(o, "reread")
         ELSE UNCHANGED <<segment, stale>> /\ Finish(o)
    /\ UNCHANGED <<members, contact, campaign, dirty, crossed, budget>>

Recalculate(o, s) ==
    /\ segment[s].kind = "DYNAMIC"
    /\ Begin(o, "recalculate", "reread", s, {})
    /\ UNCHANGED <<segment, members, contact, campaign, history, budget>>

RecalculateAll(o) ==
    LET all == {s \in Segment : segment[s].kind = "DYNAMIC"} IN
    /\ At(o, "free")
    /\ all # {}
    /\ op' = [op EXCEPT ![o] = [FreeOp EXCEPT !.kind = "recalculate", !.pc = "next", !.rest = all]]
    /\ UNCHANGED <<segment, members, contact, campaign, history, budget>>

\* recalculateSegment reads the row again; one that is gone throws, which ends the loop
\* of recalculateAllSegments, too.
ReadSegment(o, s) ==
    /\ \/ At(o, "reread") /\ s = op[o].seg
       \/ At(o, "next") /\ s \in op[o].rest
    /\ IF Live(s)
         THEN /\ op' = [op EXCEPT ![o].pc = "count", ![o].seg = s, ![o].rest = @ \ {s},
                                  ![o].filter = segment[s].filter]
              /\ stale' = stale \ {o}
         ELSE Finish(o) /\ UNCHANGED stale
    /\ UNCHANGED <<segment, members, contact, campaign, dirty, crossed, budget>>

-----------------------------------------------------------------------------
(* The end of a segment, and campaigns.                                    *)

Delete(o, s) ==
    /\ Live(s)
    /\ Begin(o, "delete", "checkUse", s, {})
    /\ UNCHANGED <<segment, members, contact, campaign, history, budget>>

\* Mutant: nobody asks whether a campaign uses the segment.
CheckNothing(o) ==
    /\ At(o, "checkUse")
    /\ Goto(o, "deleteRow")
    /\ UNCHANGED <<segment, members, contact, campaign, history, budget>>

CheckUse(o) ==
    /\ At(o, "checkUse")
    /\ IF campaign.segment = op[o].seg THEN Finish(o) ELSE Goto(o, "deleteRow")
    /\ UNCHANGED <<segment, members, contact, campaign, history, budget>>

\* The contacts of the segment go with it, and a campaign that names it names none.
DeleteRow(o) ==
    LET s == op[o].seg IN
    /\ At(o, "deleteRow")
    /\ IF Live(s)
         THEN /\ segment' = [segment EXCEPT ![s].kind = "gone"]
              /\ members' = [members EXCEPT ![s] = {}]
              /\ campaign' = IF campaign.segment = s THEN [campaign EXCEPT !.segment = None]
                                                     ELSE campaign
         ELSE UNCHANGED <<segment, members, campaign>>
    /\ Finish(o)
    /\ UNCHANGED <<contact, history, budget>>

\* CampaignsService.create with a segment as audience, and the update of a draft to one.
TakeAudience(o, s) ==
    /\ Live(s)
    /\ Begin(o, IF campaign.row THEN "editCampaign" ELSE "createCampaign", "countAudience", s, {})
    /\ UNCHANGED <<segment, members, contact, campaign, history, budget>>

\* Mutant: contacts are counted instead of the segment's.
CountContacts(o) ==
    /\ At(o, "countAudience")
    /\ op' = [op EXCEPT ![o].pc = "writeCampaign",
                        ![o].n = Cardinality({c \in Contact : IsRow(c)})]
    /\ UNCHANGED <<segment, members, contact, campaign, history, budget>>

\* calculateRecipientCount asks segment_contacts, where dynamic segments have no rows.
CountAudience(o) ==
    /\ At(o, "countAudience")
    /\ op' = [op EXCEPT ![o].pc = "writeCampaign", ![o].n = Cardinality(members[op[o].seg])]
    /\ UNCHANGED <<segment, members, contact, campaign, history, budget>>

\* One campaign is modelled: a second creation is not.
WriteCampaign(o) ==
    LET s == op[o].seg IN
    /\ At(o, "writeCampaign")
    /\ op[o].kind = "createCampaign" => ~campaign.row
    /\ IF Live(s)
         THEN /\ campaign' = [row |-> TRUE, segment |-> s, total |-> op[o].n, named |-> TRUE]
              /\ crossed' = (crossed \/ Holding(s, {"deleteRow"}) # {})
         ELSE UNCHANGED <<campaign, crossed>>
    /\ Finish(o)
    /\ UNCHANGED <<segment, members, contact, stale, dirty, budget>>

\* create and update with any other audience: an update reads totalRecipients first.
TakeOther(o) ==
    /\ At(o, "free")
    /\ op' = [op EXCEPT ![o] = [FreeOp EXCEPT
                 !.kind = IF campaign.row THEN "editCampaign" ELSE "createCampaign",
                 !.pc = "changeAudience", !.n = campaign.total]]
    /\ UNCHANGED <<segment, members, contact, campaign, history, budget>>

\* The write leaves the segment as it is, or names one that nobody looked up (the foreign
\* key does), or clears it with null.  The recipients are counted anew, or what was read.
ChangeAudience(o, to) ==
    /\ At(o, "changeAudience")
    /\ op[o].kind = "createCampaign" => ~campaign.row
    /\ IF to = None \/ Live(to)
         THEN /\ \E n \in 0..Cardinality(Contact) \cup {op[o].n} :
                     campaign' = [row |-> TRUE, segment |-> to, total |-> n, named |-> to # None]
              /\ crossed' = (crossed \/ (to # campaign.segment /\ Holding(to, {"deleteRow"}) # {}))
         ELSE UNCHANGED <<campaign, crossed>>
    /\ Finish(o)
    /\ UNCHANGED <<segment, members, contact, stale, dirty, budget>>

-----------------------------------------------------------------------------
(* Contacts, and faults.                                                   *)

\* What a contact's row says changes, or it is created or deleted.  No count follows.
ContactChanges(c, to) ==
    /\ contact[c] # "gone" /\ contact[c] # to
    /\ to = "gone" => IsRow(c)
    /\ changes < MaxChanges
    /\ changes' = changes + 1
    /\ contact' = [contact EXCEPT ![c] = to]
    /\ members' = IF to = "gone" THEN [s \in Segment |-> members[s] \ {c}] ELSE members
    /\ LET counted == {s \in Segment : \/ segment[s].kind = "DYNAMIC"
                                       \/ to = "gone" /\ c \in members[s]}
       IN /\ dirty' = dirty \cup counted
          /\ stale' = stale \cup UNION {Holding(s, {"writeCount"}) : s \in counted}
    /\ UNCHANGED <<segment, campaign, op, crossed, faults>>

\* The operations that changed what is counted, and have not written the count yet.
Owing(s) == {o \in Holding(s, {"reread", "count", "writeCount"}) : op[o].kind # "recalculate"}

OpFails(o) ==
    /\ op[o].pc \notin {"free", "done"}
    /\ faults < MaxFaults
    /\ faults' = faults + 1
    /\ Finish(o)
    /\ dirty' = dirty \cup {s \in Segment : o \in Owing(s)}
    /\ UNCHANGED <<segment, members, contact, campaign, stale, crossed, changes>>

-----------------------------------------------------------------------------
OpStep(o) ==
    \/ FindExisting(o) \/ Insert(o) \/ DeleteMembers(o) \/ Count(o) \/ WriteCount(o)
    \/ WriteFilter(o) \/ CheckUse(o) \/ DeleteRow(o) \/ CountAudience(o) \/ WriteCampaign(o)
    \/ \E s \in Segment : ReadSegment(o, s)
    \/ \E to \in Segment \cup {None} : ChangeAudience(o, to)

Begins(o) ==
    \/ RecalculateAll(o) \/ TakeOther(o)
    \/ \E s \in Segment :
         \/ Recalculate(o, s) \/ Delete(o, s) \/ TakeAudience(o, s)
         \/ \E filter \in Trait : UpdateFilters(o, s, filter)
                                  \/ CreateSegment(o, s, "DYNAMIC", filter, {})
         \/ \E ids \in SUBSET Contact :
              \/ CreateSegment(o, s, "STATIC", NoSegment.filter, ids)
              \/ ids # {} /\ (AddContacts(o, s, ids) \/ RemoveContacts(o, s, ids))

Next ==
    \/ \E o \in Op : Begins(o) \/ OpStep(o) \/ OpFails(o)
    \/ \E c \in Contact, to \in Trait \cup {"gone"} : ContactChanges(c, to)

Spec == Init /\ [][Next]_vars

-----------------------------------------------------------------------------
(* Properties.                                                             *)

\* The number on a segment is the number of its contacts, or somebody who changed them is
\* about to count, or it was lost in a way that is named: a contact changed or was deleted,
\* a count was overtaken between its two awaits, or an await rejected.  The next count that
\* nothing overtakes repairs it (updateContactCount, recalculateSegment).
CountIsExact ==
    \A s \in Segment : Live(s) /\ s \notin dirty /\ Owing(s) = {} => segment[s].count = Size(s)

\* A campaign does not lose its segment: a deletion that asks first leaves a segment alone
\* that a draft names, unless the draft was written after it asked (delete, against create
\* and update).  Only an update that names another audience or null takes it off.
CampaignKeepsSegment ==
    campaign.named /\ ~crossed => Live(campaign.segment)

\* A campaign that takes a static segment counts as many recipients as the segment shows,
\* when the number shown is not being changed (validateAudience, calculateRecipientCount).
AudienceIsCounted ==
    [][\A o \in Op :
         (/\ op[o].pc = "countAudience" /\ op'[o].pc = "writeCampaign"
          /\ segment[op[o].seg].kind = "STATIC"
          /\ op[o].seg \notin dirty /\ Owing(op[o].seg) = {})
             => op'[o].n = segment[op[o].seg].count]_vars

-----------------------------------------------------------------------------
(* The inductive invariant behind these properties.                        *)

\* An operation works on a segment that was created, and what adds or removes contacts
\* works on a static one and owes its count.
KnownOp(o) ==
    /\ op[o].pc \notin {"free", "next", "done", "changeAudience"}
           => segment[op[o].seg].kind # "none"
    /\ op[o].pc \in {"findExisting", "insert", "deleteMembers"} =>
           segment[op[o].seg].kind # "DYNAMIC"
    /\ op[o].pc \in {"findExisting", "insert", "deleteMembers", "writeFilter"} =>
           op[o].kind # "recalculate"

\* What an operation read is still right, unless it is known as stale.
FreshOp(o) ==
    o \notin stale /\ Live(op[o].seg) =>
        /\ At(o, "count") /\ segment[op[o].seg].kind = "DYNAMIC" =>
               op[o].filter = segment[op[o].seg].filter
        /\ At(o, "writeCount") => op[o].n = Size(op[o].seg)

\* A deletion that is past its check found no campaign.
AskedOp(o) ==
    At(o, "deleteRow") /\ ~crossed => campaign.segment # op[o].seg

IInv ==
    /\ TypeOK
    /\ \A s \in Segment : segment[s].kind = "none" => members[s] = {}
    /\ \A o \in Op : KnownOp(o) /\ FreshOp(o) /\ AskedOp(o)
    /\ CountIsExact
    /\ CampaignKeepsSegment
=============================================================================
