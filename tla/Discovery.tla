----------------------------- MODULE Discovery -----------------------------
(***************************************************************************)
(* Metadata discovery of one asset: RunDiscoveryUseCase, the provisioning, *)
(* drift and self-healing services it calls, and ApproveDriftUseCase.      *)
(*                                                                         *)
(* A discovery is one database transaction (read committed, no locks): it  *)
(* loads the asset's objects, reads the source's schema, provisions a      *)
(* missing object, compares the schema with the latest completed run's,    *)
(* heals the object's elements and stores approvals for critical changes.  *)
(* Discoveries of the asset, and decisions on its approvals, overlap.      *)
(*                                                                         *)
(* The source holds one table; without fields there is no table.  An id is *)
(* named by the transaction that made it: uuids never clash.  Nobody edits *)
(* the catalogue by hand meanwhile, and a type is one the platform knows.  *)
(***************************************************************************)
EXTENDS Naturals, FiniteSets

CONSTANTS Field,      \* column names
          Shape,      \* [type, nullable] records a column may have
          MaxRuns,    \* discoveries explored
          MaxChanges, \* changes of the source's schema explored
          Decider     \* decision requests explored

ElementType == {"string", "integer", "bigint", "float", "decimal", "date",
                "timestamp", "boolean", "bytes", "json"}

ASSUME ShapeAssumption == Shape \subseteq [type : ElementType, nullable : BOOLEAN]
ASSUME BoundAssumption == MaxRuns \in Nat /\ MaxChanges \in Nat
ASSUME DeciderAssumption == Decider \cap Nat = {}

Run == 1 .. MaxRuns
Transaction == Run \union Decider
NoRun == 0
NoObject == 0
NoField == [type |-> "none", nullable |-> TRUE]   \* the column does not exist
NoTable == [f \in Field |-> NoField]
Schema == [Field -> Shape \union {NoField}]
Decision == {"pending", "approved", "rejected"}
Change == {"field_added", "field_removed", "type_widened", "type_incompatible",
           "nullable_to_required", "required_to_nullable"}

(* A row of data_elements; its id is its first three components.           *)
Element == [object : Run, field : Field, by : Transaction,
            source_type : ElementType, type : ElementType, nullable : BOOLEAN]

(* A row of drift_approvals: one for each critical event of a run.         *)
Approval == [run : Run, object : Run, field : Field, change : Change,
             decision : Decision]

VARIABLES source,    \* the source's schema now
          changes,   \* how often it has changed
          pc,        \* where each transaction is
          seen,      \* the transactions committed when each one began
          known,     \* the object each discovery found or provisioned
          snap,      \* the schema each discovery read
          base,      \* the run each discovery compared with
          at,        \* the order of the runs' completed_at, 0 without one
          request,   \* the approval each decider loaded, as it decides it
          writes,    \* elements each transaction will commit
          elements,  \* committed data_elements
          objects,   \* committed data_objects
          approvals  \* committed drift_approvals

runVars == <<known, snap, base, at>>
tableVars == <<elements, objects, approvals>>
sourceVars == <<source, changes>>
vars == <<sourceVars, pc, seen, runVars, request, writes, tableVars>>

Committed == {t \in Transaction : pc[t] = "committed"}
Completed == Run \intersect Committed

-----------------------------------------------------------------------------
(* SchemaDiffer and the severity map.                                      *)

Widening == [t \in ElementType |->
  CASE t = "integer" -> {"bigint", "float", "decimal"}
    [] t = "bigint" -> {"float", "decimal"}
    [] t = "float" -> {"decimal"}
    [] OTHER -> {}]

TypeChange(p, c) ==
  IF p.type = c.type THEN {}
  ELSE IF c.type \in Widening[p.type] THEN {"type_widened"} ELSE {"type_incompatible"}

NullabilityChange(p, c) ==
  IF p.nullable = c.nullable THEN {}
  ELSE IF p.nullable THEN {"nullable_to_required"} ELSE {"required_to_nullable"}

FieldChange(p, c) ==
  CASE p = NoField /\ c = NoField -> {}
    [] p = NoField /\ c # NoField -> {"field_added"}
    [] p # NoField /\ c = NoField -> {"field_removed"}
    [] OTHER -> TypeChange(p, c) \union NullabilityChange(p, c)

(* The events between two schemas of one object: pairs <<field, change>>.  *)
Diff(p, c) == UNION {{f} \X FieldChange(p[f], c[f]) : f \in Field}

Critical == {"field_removed", "type_incompatible", "nullable_to_required"}

-----------------------------------------------------------------------------
(* DataObjectService.apply_schema_snapshot on the elements of one object.  *)

Destructive == {"string"} \X {"integer", "bigint", "float", "date", "timestamp", "boolean"}

(* The rows are read again here, not when the run began: the session holds *)
(* what it has loaded only weakly, and nobody else does.                   *)
(* What {e.name: e for e in obj.elements} keeps: one element per name, any *)
(* one where a name has several (the rows come in no order).               *)
ByName(o) ==
  LET rows == {e \in elements : e.object = o}
  IN {kept \in SUBSET rows :
        \A e \in rows : \E k \in kept : \A l \in kept : l.field = e.field <=> l = k}

(* The element as override_element_destination leaves it.                  *)
Overridden(e, s) == [e EXCEPT !.type = s[e.field].type, !.nullable = s[e.field].nullable]

Differing(kept, s) ==
  {e \in kept : s[e.field] # NoField /\ Overridden(e, s) # e}

(* A type override the service refuses by raising.  Rows that differ only  *)
(* in nullability go through the same check.                               *)
Refused(kept, s) ==
  \E e \in Differing(kept, s) : <<e.source_type, s[e.field].type>> \in Destructive

NewElement(o, f, t, s) ==
  [object |-> o, field |-> f, by |-> t, source_type |-> s[f].type,
   type |-> s[f].type, nullable |-> s[f].nullable]

Added(kept, o, t, s) ==
  {NewElement(o, f, t, s) : f \in {g \in Field : s[g] # NoField
                                             /\ \A e \in kept : e.field # g}}

(* The rows that applying s to object o in transaction t writes.           *)
Healing(kept, o, t, s) ==
  {Overridden(e, s) : e \in Differing(kept, s)} \union Added(kept, o, t, s)

SameId(e, w) == e.object = w.object /\ e.field = w.field /\ e.by = w.by

Written(t) ==
  {e \in elements : \A w \in writes[t] : ~SameId(e, w)} \union writes[t]

-----------------------------------------------------------------------------
Init ==
  /\ source \in Schema
  /\ changes = 0
  /\ pc = [t \in Transaction |-> "idle"]
  /\ seen = [t \in Transaction |-> {}]
  /\ known = [r \in Run |-> NoObject]
  /\ snap = [r \in Run |-> NoTable]
  /\ base = [r \in Run |-> NoRun]
  /\ at = [r \in Run |-> 0]
  /\ request = [d \in Decider |-> {}]
  /\ writes = [t \in Transaction |-> {}]
  /\ elements = {}
  /\ objects = {}
  /\ approvals = {}

(* The source's owner adds, changes or drops a column.                     *)
Alter(f, shape) ==
  /\ changes < MaxChanges
  /\ source[f] # shape
  /\ source' = [source EXCEPT ![f] = shape]
  /\ changes' = changes + 1
  /\ UNCHANGED <<pc, seen, runVars, request, writes, tableVars>>

-----------------------------------------------------------------------------
(* A discovery.                                                            *)

(* A transaction that ends badly leaves nothing: what it held is gone.     *)
Forget(t) ==
  /\ seen' = [seen EXCEPT ![t] = {}]
  /\ known' = [r \in Run |-> IF r = t THEN NoObject ELSE known[r]]
  /\ snap' = [r \in Run |-> IF r = t THEN NoTable ELSE snap[r]]
  /\ base' = [r \in Run |-> IF r = t THEN NoRun ELSE base[r]]
  /\ at' = [r \in Run |-> IF r = t THEN 0 ELSE at[r]]
  /\ request' = [d \in Decider |-> IF d = t THEN {} ELSE request[d]]
  /\ writes' = [writes EXCEPT ![t] = {}]
  /\ UNCHANGED <<sourceVars, tableVars>>

(* The transaction opens and loads the asset's objects.  Two of one name   *)
(* collapse into the one that comes last.                                  *)
FoundObject == IF objects = {} THEN {NoObject} ELSE objects

Begin(r) ==
  /\ pc[r] = "idle"
  /\ \A q \in Run : q < r => pc[q] # "idle"
  /\ pc' = [pc EXCEPT ![r] = "extract"]
  /\ seen' = [seen EXCEPT ![r] = Committed]
  /\ \E o \in FoundObject : known' = [known EXCEPT ![r] = o]
  /\ UNCHANGED <<sourceVars, snap, base, at, request, writes, tableVars>>

(* Mutant: the lookup of the existing names dropped.                       *)
ProvisionsAgain(r) == source # NoTable

(* The runner reads the source; a table without an object is provisioned,  *)
(* with its elements, inside the transaction.                              *)
Provisions(r) == known[r] = NoObject /\ source # NoTable

Extract(r) ==
  /\ pc[r] = "extract"
  /\ snap' = [snap EXCEPT ![r] = source]
  /\ known' = [known EXCEPT ![r] = IF Provisions(r) THEN r ELSE @]
  /\ writes' = [writes EXCEPT ![r] = IF Provisions(r) THEN Added({}, r, r, source) ELSE {}]
  /\ pc' = [pc EXCEPT ![r] = "compare"]
  /\ UNCHANGED <<sourceVars, seen, base, at, request, tableVars>>

(* The runner raises: the transaction rolls back and the run's row is      *)
(* stored as failed.                                                       *)
ExtractFails(r) ==
  /\ pc[r] = "extract"
  /\ pc' = [pc EXCEPT ![r] = "failed"]
  /\ Forget(r)

(* find_latest_by_asset_id, among the runs committed by now.               *)
Latest == {r \in Completed : \A q \in Completed : at[q] <= at[r]}

Stamps == {at[r] : r \in Run}

Compare(r) ==
  /\ pc[r] = "compare"
  /\ \E b \in (IF Latest = {} THEN {NoRun} ELSE Latest) : base' = [base EXCEPT ![r] = b]
  /\ at' = [at EXCEPT ![r] = 1 + CHOOSE n \in Stamps : \A m \in Stamps : m <= n]
  /\ pc' = [pc EXCEPT ![r] = "heal"]
  /\ UNCHANGED <<sourceVars, seen, known, snap, request, writes, tableVars>>

(* prev_snapshots is empty, or has no entry for this run's object.         *)
FirstDiscovery(r) == base[r] \in Run => snap[base[r]] = NoTable
PreviousObject(r) == ~FirstDiscovery(r) /\ known[base[r]] = known[r]

(* The drift events of the run; OBJECT_ADDED, which is informative, stands *)
(* for all of them when the object has no previous snapshot.               *)
Events(r) == IF PreviousObject(r) THEN Diff(snap[base[r]], snap[r]) ELSE {}

HasInformative(r) ==
  \/ ~PreviousObject(r)
  \/ \E e \in Events(r) : e[2] \notin Critical

(* Mutant: healing skipped when any event is critical.                     *)
HealsUnlessCritical(r) ==
  /\ snap[r] # NoTable
  /\ FirstDiscovery(r) \/ HasInformative(r)
  /\ \A e \in Events(r) : e[2] \notin Critical

Heals(r) == snap[r] # NoTable /\ (FirstDiscovery(r) \/ HasInformative(r))

(* A refused override rolls the transaction back.  The run is COMPLETED by *)
(* then, so that fail() raises too and no row of it is ever stored.        *)
RefusedHealing(r) ==
  /\ pc[r] = "heal" /\ Heals(r) /\ known[r] # r
  /\ \E kept \in ByName(known[r]) : Refused(kept, snap[r])
  /\ pc' = [pc EXCEPT ![r] = "lost"]
  /\ Forget(r)

Heal(r) ==
  /\ pc[r] = "heal"
  /\ \/ /\ ~Heals(r) \/ known[r] = r
        /\ UNCHANGED writes
     \/ /\ Heals(r) /\ known[r] # r
        /\ \E kept \in ByName(known[r]) :
             /\ ~Refused(kept, snap[r])
             /\ writes' = [writes EXCEPT ![r] = Healing(kept, known[r], r, snap[r])]
  /\ pc' = [pc EXCEPT ![r] = "commit"]
  /\ UNCHANGED <<sourceVars, seen, runVars, request, tableVars>>

(* A table that is gone has no snapshot: the loop runs over the current    *)
(* ones only, and OBJECT_REMOVED is never raised.                          *)
NewApprovals(r) ==
  IF snap[r] = NoTable THEN {}
  ELSE {[run |-> r, object |-> known[r], field |-> e[1], change |-> e[2],
         decision |-> "pending"] : e \in {v \in Events(r) : v[2] \in Critical}}

(* Mutant: the object of the snapshot saved whether or not there is one.   *)
CommitAnyObject(r) ==
  /\ pc[r] = "commit"
  /\ elements' = Written(r)
  /\ objects' = objects \union {known[r]}
  /\ approvals' = approvals \union NewApprovals(r)
  /\ pc' = [pc EXCEPT ![r] = "committed"]
  /\ writes' = [writes EXCEPT ![r] = {}]
  /\ UNCHANGED <<sourceVars, seen, runVars, request>>

Commit(r) ==
  /\ pc[r] = "commit"
  /\ elements' = Written(r)
  /\ objects' = IF known[r] = r THEN objects \union {r} ELSE objects
  /\ approvals' = approvals \union NewApprovals(r)
  /\ pc' = [pc EXCEPT ![r] = "committed"]
  /\ writes' = [writes EXCEPT ![r] = {}]
  /\ UNCHANGED <<sourceVars, seen, runVars, request>>

(* The process dies, or the database drops the transaction.                *)
Abort(t) ==
  /\ pc[t] \in {"extract", "compare", "heal", "commit", "loaded", "applied"}
  /\ pc' = [pc EXCEPT ![t] = "lost"]
  /\ Forget(t)

-----------------------------------------------------------------------------
(* A decision on an approval.                                              *)

(* Mutant: a decided approval may be decided again.                        *)
UndecidedOrNot == approvals

(* The approval is loaded and must be pending: a decided one is refused.   *)
Undecided == {a \in approvals : a.decision = "pending"}

Load(d, a, decision) ==
  /\ pc[d] = "idle"
  /\ a \in Undecided
  /\ pc' = [pc EXCEPT ![d] = "loaded"]
  /\ seen' = [seen EXCEPT ![d] = Committed]
  /\ request' = [request EXCEPT ![d] = {[a EXCEPT !.decision = decision]}]
  /\ UNCHANGED <<sourceVars, runVars, writes, tableVars>>

SameApproval(a, b) ==
  a.run = b.run /\ a.object = b.object /\ a.field = b.field /\ a.change = b.change

(* save() locks the approval's row until the commit.                       *)
Locked(a) ==
  \E d \in Decider : pc[d] = "applied" /\ \E b \in request[d] : SameApproval(a, b)

(* An approval applies the whole snapshot of its run to the object, as the *)
(* elements are now; a refused override rolls the decision back.           *)
Apply(d) ==
  /\ pc[d] = "loaded"
  /\ \E a \in request[d] :
       /\ ~Locked(a)
       /\ \/ /\ a.decision = "rejected"
             /\ UNCHANGED writes
          \/ /\ a.decision = "approved"
             /\ \E kept \in ByName(a.object) :
                  /\ ~Refused(kept, snap[a.run])
                  /\ writes' = [writes EXCEPT ![d] = Healing(kept, a.object, d, snap[a.run])]
  /\ pc' = [pc EXCEPT ![d] = "applied"]
  /\ UNCHANGED <<sourceVars, seen, runVars, request, tableVars>>

RefusedApproval(d) ==
  /\ pc[d] = "loaded"
  /\ \E a \in request[d] :
       /\ ~Locked(a) /\ a.decision = "approved"
       /\ \E kept \in ByName(a.object) : Refused(kept, snap[a.run])
  /\ pc' = [pc EXCEPT ![d] = "lost"]
  /\ Forget(d)

Decide(d) ==
  /\ pc[d] = "applied"
  /\ elements' = Written(d)
  /\ approvals' = {a \in approvals : \A b \in request[d] : ~SameApproval(a, b)}
                    \union request[d]
  /\ pc' = [pc EXCEPT ![d] = "committed"]
  /\ writes' = [writes EXCEPT ![d] = {}]
  /\ UNCHANGED <<sourceVars, seen, runVars, request, objects>>

-----------------------------------------------------------------------------
Discover(r) ==
  \/ Begin(r)
  \/ Extract(r)
  \/ ExtractFails(r)
  \/ Compare(r)
  \/ Heal(r)
  \/ RefusedHealing(r)
  \/ Commit(r)

DecideApproval(d) ==
  \/ \E a \in approvals, decision \in {"approved", "rejected"} : Load(d, a, decision)
  \/ Apply(d)
  \/ RefusedApproval(d)
  \/ Decide(d)

(* Nothing is left to do: the bounds are used up.                          *)
Finished ==
  /\ changes = MaxChanges
  /\ \A r \in Run : pc[r] \in {"committed", "failed", "lost"}
  /\ UNCHANGED vars

Next ==
  \/ \E f \in Field, shape \in Shape \union {NoField} : Alter(f, shape)
  \/ \E r \in Run : Discover(r)
  \/ \E d \in Decider : DecideApproval(d)
  \/ \E t \in Transaction : Abort(t)
  \/ Finished

Spec == Init /\ [][Next]_vars

-----------------------------------------------------------------------------
(* Properties.                                                             *)

TypeOK ==
  /\ source \in Schema
  /\ changes \in 0 .. MaxChanges
  /\ pc \in [Transaction -> {"idle", "extract", "compare", "heal", "commit", "loaded",
                             "applied", "committed", "failed", "lost"}]
  /\ seen \in [Transaction -> SUBSET Transaction]
  /\ known \in [Run -> Run \union {NoObject}]
  /\ snap \in [Run -> Schema]
  /\ base \in [Run -> Run \union {NoRun}]
  /\ at \in [Run -> 0 .. MaxRuns]
  /\ request \in [Decider -> SUBSET Approval]
  /\ writes \in [Transaction -> SUBSET Element]
  /\ elements \subseteq Element
  /\ objects \subseteq Run
  /\ approvals \subseteq Approval

Overlap(t, u) == t # u /\ t \notin seen[u] /\ u \notin seen[t]

Serial == \A t, u \in Committed : ~Overlap(t, u)

(* An approval was applied though a later discovery had already completed. *)
Outdated ==
  \E d \in Decider \intersect Committed : \E a \in request[d] :
    a.decision = "approved" /\ \E q \in seen[d] \intersect Run : at[q] > at[a.run]

(* As long as transactions do not overlap and approvals are decided before *)
(* the next discovery, the catalogue never silently disagrees with the     *)
(* baseline: a column whose element is not what the latest completed       *)
(* discovery saw has an approval that says so, whatever was healed,        *)
(* approved, rejected, refused or rolled back before.  A column the source *)
(* dropped together with its table is the exception (no event is raised).  *)
Accounted(r, f) ==
  \/ \E e \in elements : /\ e.object = known[r]
                         /\ e.field = f
                         /\ e.type = snap[r][f].type
                         /\ e.nullable = snap[r][f].nullable
  \/ \E a \in approvals : a.object = known[r] /\ a.field = f

AccountedRemoval(r, f) ==
  \/ \A e \in elements : e.field # f
  \/ \E a \in approvals : a.object = known[r] /\ a.field = f
  \/ \E q \in Completed : snap[q] = NoTable

DriftAccounted ==
  Serial /\ ~Outdated =>
    \A r \in Latest : snap[r] # NoTable =>
      \A f \in Field : IF snap[r][f] # NoField THEN Accounted(r, f)
                       ELSE AccountedRemoval(r, f)

(* A table has one object and a column one element, unless the discoveries *)
(* that made two of them overlapped: neither the provisioning, nor         *)
(* healing, nor an approval makes a second one of what it could see.       *)
(* (No unique constraint keeps overlapping discoveries from doing so.)     *)
OverlapMakesDuplicates ==
  /\ \A o, p \in objects : o # p => Overlap(o, p)
  /\ \A e, g \in elements :
       e.object = g.object /\ e.field = g.field /\ e # g => Overlap(e.by, g.by)

(* A decision is final unless another decision request was under way when  *)
(* it was taken: only overlapping deciders can overwrite one another.      *)
DecisionsAreFinal ==
  [][\A a \in approvals :
       a.decision # "pending" =>
         \/ a \in approvals'
         \/ \E d, c \in Decider :
              /\ d # c /\ c \notin seen[d] /\ pc[c] = "committed" /\ pc'[d] # pc[d]
              /\ \E b \in request[d] : SameApproval(a, b)]_vars

(* What the glossary says of a DriftApproval: a critical change is withheld *)
(* until it is approved.  A discovery never makes a critical change to an  *)
(* element, only an approved decision does.                                *)
CriticalChangesAreWithheld ==
  [][\A r \in Run : pc[r] = "commit" /\ pc'[r] = "committed" =>
       \A e \in elements : \A w \in elements' :
         SameId(e, w) => FieldChange([type |-> e.type, nullable |-> e.nullable],
                                     [type |-> w.type, nullable |-> w.nullable])
                           \intersect Critical = {}]_vars
=============================================================================
