------------------------------ MODULE SsoEdit ------------------------------
(***************************************************************************)
(* The edit of gitops/values/sso.yaml: the rules of schema/sso.ts and      *)
(* buildChange of sso-change/editEngine.ts.  A file is a list of endpoints *)
(* whose allowedGroups node is absent, a list, or a YAML alias of another  *)
(* endpoint's list; an entry of a list has a group and may carry a         *)
(* comment.  A pull request of an accepted edit is merged, and the next    *)
(* edit is built on the result.                                            *)
(***************************************************************************)
EXTENDS Naturals, Sequences, FiniteSets, SequencesExt

CONSTANTS
    Names,      \* names of endpoints in the file
    Modes,      \* modes of the endpoints, of "gateway-oidc", "app-oidc", "none"
    Fields,     \* how much of the mode's fields is filled: "all", "client" (only clientId), "none"
    Hosts,      \* "label" and "fqdn" hosts
    Issuers,    \* "absent", or "agrees" with issuerHost and realm, or "differs"
    Formats,    \* "stable", "unstable" (the YAML library would reformat it), "broken" (not YAML, or not the raw schema)
    Entries,    \* entries of the lists of the file
    MaxGroups,  \* longest list
    Known       \* names declared in policies/groups.yaml

\* Assumed of the constants; the module that instantiates this one states it.
EditAssumption == MaxGroups \in Nat /\ "admins" \in Known

Editable == {"flink", "filer"}

Groups == {"admins", "engineers", "ghosts"}

Lists(S) == UNION {[1..n -> S] : n \in 0..MaxGroups}

Absent == [kind |-> "absent", items |-> <<>>]

ListNode(items) == [kind |-> "list", items |-> items]

\* The alias of the list of endpoint 1.
Alias == [kind |-> "alias", items |-> <<>>]

Nodes == {Absent} \cup {ListNode(l) : l \in Lists(Entries)}

Endpoint(nodes) == [name : Names, mode : Modes, fields : Fields, host : Hosts, node : nodes]

Files == {f \in [format : Formats, issuer : Issuers, issuerHost : Hosts,
                 first : Endpoint(Nodes), second : Endpoint(Nodes \cup {Alias})] :
             f.second.node = Alias => f.first.node.kind = "list"}

Endpoints(f) == <<f.first, f.second>>

\* The list the parsed document has for an endpoint, after aliases are resolved; HasList tells absent from empty.
ListOf(f, i) == IF Endpoints(f)[i].node = Alias THEN f.first.node ELSE Endpoints(f)[i].node

Values(f, i) == [k \in DOMAIN ListOf(f, i).items |-> ListOf(f, i).items[k].group]

HasList(f, i) == ListOf(f, i).kind = "list"

----------------------------------------------------------------------------
(* schema/sso.ts *)

\* ssoEndpointSchema.
EndpointOk(f, i) ==
    LET e == Endpoints(f)[i]
    IN  /\ e.mode # "none" => e.fields # "none"
        /\ HasList(f, i) => /\ e.mode = "gateway-oidc"
                            /\ Values(f, i) # <<>>
                            /\ IsInjective(Values(f, i))
                            /\ Contains(Values(f, i), "admins")
        /\ e.mode = "gateway-oidc" => e.fields = "all"

\* ssoConfigSchema: the issuer is of issuerHost and realm, no name twice.
ConfigOk(f) ==
    /\ f.issuer # "differs"
    /\ \A i \in {1, 2} : EndpointOk(f, i)
    /\ f.first.name # f.second.name

AllHosts(f) == <<f.issuerHost, f.first.host, f.second.host>>

BadOneForm(f) == f.issuer # "absent" => f.issuerHost = "fqdn"

\* One file is one form: an issuer and dotted hosts, or neither.
OneForm(f) == \A k \in 1..3 : AllHosts(f)[k] = IF f.issuer # "absent" THEN "fqdn" ELSE "label"

\* resolveSsoFile, for a base domain that is valid.
Resolves(f) == f.format # "broken" /\ OneForm(f) /\ ConfigOk(f)

\* The domain that the host of an endpoint is served under.
DomainOf(host) == IF host = "label" THEN "base" ELSE "declared"

----------------------------------------------------------------------------
(* editEngine.ts *)

\* validatePatch.
PatchOk(patch) ==
    /\ patch.endpoint \in Editable
    /\ patch.groups # <<>>
    /\ ToSet(patch.groups) \subseteq Known
    /\ IsInjective(patch.groups)
    /\ Contains(patch.groups, "admins")

BadSameSet(a, b) == \A k \in DOMAIN a : Contains(b, a[k])

SameSet(a, b) == Len(a) = Len(b) /\ \A k \in DOMAIN a : Contains(b, a[k])

BadEntryFor(items, g) == [group |-> g, note |-> FALSE]

\* An entry that stays keeps its node, with its comment; of two of the same value the last is in the map.
EntryFor(items, g) ==
    LET same == {k \in DOMAIN items : items[k].group = g}
    IN  IF same = {} THEN [group |-> g, note |-> FALSE]
        ELSE items[CHOOSE k \in same : \A l \in same : l <= k]

\* A list is changed in place, which its aliases see; a missing or aliased one is replaced by a list of its own.
EditNode(node, after) ==
    ListNode([k \in DOMAIN after |-> EntryFor(IF node.kind = "list" THEN node.items ELSE <<>>, after[k])])

Edited(f, i, after) ==
    IF i = 1 THEN [f EXCEPT !.first.node = EditNode(@, after)] ELSE [f EXCEPT !.second.node = EditNode(@, after)]

BadOnlyTarget(f, g, i, after) == Values(g, i) = after

\* Invariant 4: the edited text, parsed again, is the base with one list replaced.
OnlyTarget(f, g, i, after) ==
    \A j \in {1, 2} : /\ Values(g, j) = IF j = i THEN after ELSE Values(f, j)
                      /\ HasList(g, j) = (j = i \/ HasList(f, j))

BadAccepts(f, i, after) == f.format = "stable" /\ OnlyTarget(f, Edited(f, i, after), i, after)

\* The checks of buildChange once the endpoint is found and the groups differ.
Accepts(f, i, after) ==
    /\ f.format = "stable"
    /\ OnlyTarget(f, Edited(f, i, after), i, after)
    /\ Resolves(Edited(f, i, after))

\* buildChange: the code it rejects with, or the edited file.
BuildChange(f, patch) ==
    LET found == {i \in {1, 2} : Endpoints(f)[i].name = patch.endpoint}
        i == IF 1 \in found THEN 1 ELSE 2
        rejected == [code |-> "PATCH_REJECTED", target |-> i, file |-> f]
    IN  IF ~PatchOk(patch) \/ f.format = "broken" \/ found = {} THEN rejected
        ELSE IF HasList(f, i) /\ SameSet(Values(f, i), patch.groups)
        THEN [rejected EXCEPT !.code = "NO_EFFECTIVE_CHANGE"]
        ELSE IF Accepts(f, i, patch.groups)
        THEN [code |-> "built", target |-> i, file |-> Edited(f, i, patch.groups)]
        ELSE rejected

----------------------------------------------------------------------------
VARIABLES
    main,    \* the file on the default branch
    pr,      \* {} or the edit in the open pull request
    result   \* what the last step's buildChange said, {} if it called none

vars == <<main, pr, result>>

Patches == [endpoint : {"flink", "filer", "trino"}, groups : Lists(Groups)]

Init == main \in Files /\ pr = {} /\ result = {}

\* The source adapter serves a base only when it resolves (ssoAdapter.ts, githubSsoAdapter.ts).
Submit ==
    /\ pr = {}
    /\ Resolves(main)
    /\ \E patch \in Patches :
          LET built == BuildChange(main, patch)
          IN  /\ result' = {[patch |-> patch, code |-> built.code]}
              /\ pr' = IF built.code = "built" THEN {[patch |-> patch, target |-> built.target, file |-> built.file]} ELSE {}
    /\ UNCHANGED main

Merge ==
    /\ \E p \in pr : main' = p.file
    /\ pr' = {} /\ result' = {}

Next == Submit \/ Merge

Spec == Init /\ [][Next]_vars

-----------------------------------------------------------------------------
\* Merging an edit changes who may use the endpoint of the patch, to the list in the order it was submitted, and
\* nobody's access to any other endpoint, also when the lists of the file are aliases of one another
\* (editEngine.ts 80-85, 125-135).
MergeChangesOnlyTargetStep ==
  \A p \in pr : main' # main =>
       /\ Values(main', p.target) = p.patch.groups
       /\ \A j \in {1, 2} : j # p.target => Values(main', j) = Values(main, j) /\ HasList(main', j) = HasList(main, j)
       /\ [main' EXCEPT !.first.node = Absent, !.second.node = Absent]
             = [main EXCEPT !.first.node = Absent, !.second.node = Absent]
MergeChangesOnlyTarget == [][MergeChangesOnlyTargetStep]_vars

\* A file that is served is still served once the edit is merged: no edit leaves a file that resolveSsoFile refuses
\* (an endpoint of another mode with a list, a list without admins).
MergeKeepsServing == \A p \in pr : Resolves(p.file)

\* NO_EFFECTIVE_CHANGE is said exactly when the set of groups is the same, although the code compares lists: so the
\* replay of a merged edit never opens an empty pull request and a real change is never refused as none.
NoopIsExact ==
    \A r \in result :
        (r.code = "NO_EFFECTIVE_CHANGE") <=>
            /\ PatchOk(r.patch)
            /\ \E i \in {1, 2} : /\ Endpoints(main)[i].name = r.patch.endpoint
                                 /\ HasList(main, i)
                                 /\ ToSet(Values(main, i)) = ToSet(r.patch.groups)

\* An entry that stays in the list keeps its comment (editEngine.ts 115-117).
EntriesKeepComments ==
    \A p \in pr : ListOf(main, p.target).kind = "list" /\ Endpoints(main)[p.target].node.kind = "list" =>
        \A k \in DOMAIN ListOf(p.file, p.target).items, l \in DOMAIN ListOf(main, p.target).items :
            LET new == ListOf(p.file, p.target).items[k]
                old == ListOf(main, p.target).items[l]
            IN  new.group = old.group => new.note = old.note

\* A file that is served has all its hosts under the base domain or all under the declared ones: never a guess which
\* of two domains wins (schema/sso.ts 231-242).
OneDomain ==
    Resolves(main) => \A k, l \in 1..3 : DomainOf(AllHosts(main)[k]) = DomainOf(AllHosts(main)[l])
=============================================================================
