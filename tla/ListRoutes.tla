------------------------------ MODULE ListRoutes -------------------------------
(***************************************************************************)
(* The list routes over one inventory (services, data assets, policies,    *)
(* decisions, resources, query history): a source under a deadline, a      *)
(* filter, paginate (lib/pagination.ts) and the envelope with its warnings *)
(* (lib/envelope.ts).  A client asks for one page after another.           *)
(***************************************************************************)
EXTENDS Integers, Sequences, SequencesExt, FiniteSets, FiniteSetsExt

CONSTANTS
  Items,          \* ids
  PageSizes,
  MaxItems,       \* bound: items of the inventory
  None

VARIABLES
  inventory,      \* items with their status, in the order of the source
  live,           \* a live source: warnings of its own, none for its items
  filter, pageSize,
  page,           \* the page asked for, once the source answers or fails
  answers         \* the answers so far

vars == <<inventory, live, filter, pageSize, page, answers>>

Statuses == {"healthy", "degraded"}

Init ==
  /\ \E ids \in UNION {{s \in [1..n -> Items] : IsInjective(s)} : n \in 0..MaxItems} :
       inventory \in {[k \in DOMAIN ids |-> [id |-> ids[k], status |-> st[k]]] : st \in [DOMAIN ids -> Statuses]}
  /\ live \in BOOLEAN /\ filter \in {None} \cup Statuses /\ pageSize \in PageSizes
  /\ page = 0 /\ answers = <<>>

-------------------------------------------------------------------------------
Filtered == SelectSeq(inventory, LAMBDA x : filter = None \/ x.status = filter)

paginate(items, p) == SubSeq(items, (p - 1) * pageSize + 1, Min({Len(items), p * pageSize}))

SourceWarning == [code |-> "NODE_AUTHZ_NOT_ENFORCED", id |-> "source"]

HealthWarnings(items) ==
  {[code |-> x.status, id |-> x.id] : x \in {x \in ToSet(items) : x.status # "healthy"}}

Envelope(p) ==
  LET items == paginate(Filtered, p) IN
  [code |-> 200, data |-> items, total |-> Len(Filtered), page |-> p,
   warnings |-> IF live THEN {SourceWarning} ELSE HealthWarnings(items)]

(* The next page, until the client has as many items as the total says.      *)
Received == FoldSeq(LAMBDA a, n : n + (IF a.code = 200 THEN Len(a.data) ELSE 0), 0, answers)

Ask ==
  /\ page = 0
  /\ answers # <<>> /\ Last(answers).code = 200 => Received < Last(answers).total
  /\ Len(SelectSeq(answers, LAMBDA a : a.code # 200)) < 2
  /\ page' = Len(SelectSeq(answers, LAMBDA a : a.code = 200)) + 1
  /\ UNCHANGED <<inventory, live, filter, pageSize, answers>>

SourceAnswers ==
  /\ page > 0
  /\ answers' = Append(answers, Envelope(page)) /\ page' = 0
  /\ UNCHANGED <<inventory, live, filter, pageSize>>

(* The source fails, or withRouteDeadline gives up on it.                    *)
SourceFails ==
  /\ page > 0 /\ live
  /\ answers' = Append(answers, [code |-> 503]) /\ page' = 0
  /\ UNCHANGED <<inventory, live, filter, pageSize>>

Next == Ask \/ SourceAnswers \/ SourceFails

Spec == Init /\ [][Next]_vars

-------------------------------------------------------------------------------
(* Properties. *)

Pages == SelectSeq(answers, LAMBDA a : a.code = 200)
Collected == FlattenSeq([k \in DOMAIN Pages |-> Pages[k].data])

(* A client that walks through the pages collects the filtered list, each    *)
(* item once and in order, and stops with the last of them.                  *)
PagesPartition ==
  /\ IsPrefix(Collected, Filtered)
  /\ Pages # <<>> /\ Received >= Last(Pages).total => Collected = Filtered
  /\ Pages # <<>> /\ Received < Last(Pages).total => Len(Last(Pages).data) = pageSize

(* What the comment at buildListEnvelope says: every id in the warnings is   *)
(* the id of an item of the same answer.                                     *)
WarningsAreOfThePage ==
  \A k \in DOMAIN Pages : {w.id : w \in Pages[k].warnings} \subseteq {x.id : x \in ToSet(Pages[k].data)}

===============================================================================
