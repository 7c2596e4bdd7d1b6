---------------------------- MODULE DiscoveryProofs ----------------------------
(***************************************************************************)
(* Theorems about Discovery, for every set of columns, shapes and deciders *)
(* and every number of discoveries and changes of the source, and about    *)
(* the discovery runners (SourceSchemas), for every set of objects.        *)
(***************************************************************************)
EXTENDS Discovery, SourceSchemas, FiniteSetTheorems, WellFoundedInduction, TLAPS

PC == {"idle", "extract", "compare", "heal", "commit", "loaded", "applied",
       "committed", "failed", "lost"}

(* The types the proofs need: TypeOK without the order of the runs.        *)
Types ==
  /\ source \in Schema
  /\ pc \in [Transaction -> PC]
  /\ seen \in [Transaction -> SUBSET Transaction]
  /\ known \in [Run -> Run \union {NoObject}]
  /\ snap \in [Run -> Schema]
  /\ request \in [Decider -> SUBSET Approval]
  /\ writes \in [Transaction -> SUBSET Element]
  /\ elements \subseteq Element
  /\ objects \subseteq Run
  /\ approvals \subseteq Approval

(* Discoveries and decisions are transactions, and never both.             *)
LEMMA Transactions ==
  /\ Run \subseteq Transaction /\ Decider \subseteq Transaction
  /\ Run \cap Decider = {} /\ NoObject \notin Run /\ Run \subseteq Nat
BY DeciderAssumption, BoundAssumption DEF Run, Transaction, NoObject

-----------------------------------------------------------------------------
(* Lemmas about healing.                                                   *)

(* A source without the table has a schema too, without columns.           *)
LEMMA NoTableIsSchema == NoTable \in Schema
BY DEF NoTable, Schema, NoField

(* A column that a schema has is of a known type.                          *)
LEMMA ColumnShape ==
  ASSUME NEW s \in Schema, NEW f \in Field, s[f] # NoField
  PROVE  s[f].type \in ElementType /\ s[f].nullable \in BOOLEAN
BY ShapeAssumption DEF Schema

(* An element keeps its identity when it is overridden.                    *)
LEMMA OverriddenKeepsId ==
  ASSUME NEW e \in Element, NEW s \in Schema, s[e.field] # NoField
  PROVE  Overridden(e, s) \in Element /\ SameId(e, Overridden(e, s))
<1>1. e.field \in Field
  BY DEF Element
<1>2. s[e.field].type \in ElementType /\ s[e.field].nullable \in BOOLEAN
  BY <1>1, ColumnShape
<1> HIDE DEF ElementType
<1> QED BY <1>2 DEF Overridden, SameId, Element

(* What provisioning and healing add: at most one element of a field.      *)
LEMMA AddedElements ==
  ASSUME NEW kept, NEW o \in Run, NEW t \in Transaction, NEW s \in Schema
  PROVE  /\ Added(kept, o, t, s) \subseteq Element
         /\ \A w \in Added(kept, o, t, s) :
              /\ w.object = o /\ w.by = t
              /\ \A e \in kept : e.field # w.field
         /\ \A v, w \in Added(kept, o, t, s) : v.field = w.field => v = w
<1> DEFINE new == {g \in Field : s[g] # NoField /\ \A e \in kept : e.field # g}
<1>1. Added(kept, o, t, s) = {NewElement(o, f, t, s) : f \in new}
  BY DEF Added
<1>2. ASSUME NEW f \in new
      PROVE  /\ NewElement(o, f, t, s) \in Element
             /\ NewElement(o, f, t, s).object = o /\ NewElement(o, f, t, s).by = t
             /\ NewElement(o, f, t, s).field = f
  <2>1. s[f].type \in ElementType /\ s[f].nullable \in BOOLEAN
    BY ColumnShape
  <2> HIDE DEF ElementType
  <2> QED BY <2>1 DEF NewElement, Element
<1>3. ASSUME NEW f \in new PROVE \A e \in kept : e.field # f
  OBVIOUS
<1> HIDE DEF new
<1> QED BY <1>1, <1>2, <1>3

(* A healing writes one element of a field: the one it overrides, or a new *)
(* one where the object had none.                                          *)
LEMMA HealingWrites ==
  ASSUME NEW o \in Run, NEW t \in Transaction, NEW s \in Schema,
         elements \subseteq Element, NEW kept \in ByName(o)
  PROVE  /\ Healing(kept, o, t, s) \subseteq Element
         /\ \A w \in Healing(kept, o, t, s) :
              /\ w.object = o
              /\ \/ \E e \in elements : SameId(e, w)
                 \/ w.by = t /\ \A e \in elements : e.object = o => e.field # w.field
         /\ \A v, w \in Healing(kept, o, t, s) : v.field = w.field => v = w
<1> DEFINE rows == {e \in elements : e.object = o}
           over == {Overridden(e, s) : e \in Differing(kept, s)}
           new == Added(kept, o, t, s)
<1>1. /\ kept \subseteq rows
      /\ \A e \in rows : \E k \in kept : \A l \in kept : l.field = e.field <=> l = k
  BY DEF ByName
<1>2. \A d, e \in kept : d.field = e.field => d = e
  BY <1>1
<1>3. \A e \in rows : \E k \in kept : k.field = e.field
  BY <1>1
<1>4. ASSUME NEW e \in Differing(kept, s)
      PROVE  /\ e \in kept /\ e \in elements
             /\ Overridden(e, s) \in Element /\ SameId(e, Overridden(e, s))
             /\ Overridden(e, s).object = o /\ Overridden(e, s).field = e.field
  <2>1. e \in kept /\ s[e.field] # NoField
    BY DEF Differing
  <2>2. e \in elements /\ e.object = o
    BY <1>1, <2>1
  <2>3. Overridden(e, s) \in Element /\ SameId(e, Overridden(e, s))
    BY <2>1, <2>2, OverriddenKeepsId
  <2> QED BY <2>1, <2>2, <2>3 DEF SameId
<1>5. /\ new \subseteq Element
      /\ \A w \in new : w.object = o /\ w.by = t /\ \A e \in kept : e.field # w.field
      /\ \A v, w \in new : v.field = w.field => v = w
  BY AddedElements
<1>6. Healing(kept, o, t, s) = over \union new
  BY DEF Healing
<1> HIDE DEF new
<1>7. \A w \in new : \A e \in elements : e.object = o => e.field # w.field
  BY <1>3, <1>5
<1>8. \A w \in over : /\ w \in Element /\ w.object = o
                      /\ \E e \in elements : SameId(e, w)
                      /\ \E e \in kept : e.field = w.field
  BY <1>4
<1>9. \A v, w \in over : v.field = w.field => v = w
  BY <1>2, <1>4
<1> HIDE DEF over, rows
<1>10. \A v \in over, w \in new : v.field # w.field
  BY <1>5, <1>8
<1> QED BY <1>5, <1>6, <1>7, <1>8, <1>9, <1>10

-----------------------------------------------------------------------------
(* The tables, and what each transaction knows of them.                    *)

SameColumn(e, w) == e.object = w.object /\ e.field = w.field

(* A transaction has seen nothing that was committed after it began.       *)
SeenWereCommitted == \A t \in Transaction : seen[t] \subseteq Committed

(* An object is the provisioning run's, which had seen no object.          *)
ObjectsAreProvisioned == \A o \in objects : o \in Committed /\ known[o] = o
KnownExists == \A r \in Run : known[r] \in objects \union {NoObject, r}
SawNoObject ==
  \A r \in Run : known[r] \in {NoObject, r} => \A o \in objects : o # r => o \notin seen[r]
SnapsHaveObjects ==
  \A r \in Run : pc[r] \in {"compare", "heal", "commit"} /\ snap[r] # NoTable
                   => known[r] # NoObject

(* One element of an id, two of a column only by overlapping transactions. *)
ElementsAreCommitted == \A e \in elements : e.by \in Committed /\ e.object \in objects
OneOfAnId == \A e, g \in elements : SameId(e, g) => e = g
OneOfAColumn ==
  \A e, g \in elements : SameColumn(e, g) /\ e.by # g.by => Overlap(e.by, g.by)

(* A pending write overrides an element that is there, or is new and no    *)
(* transaction seen by its writer has made another one of the column.      *)
Justified(t, w) ==
  \/ \E e \in elements : SameId(e, w)
  \/ w.by = t /\ \A e \in elements : SameColumn(e, w) => e.by \notin seen[t]
WritesAreJustified ==
  \A t \in Transaction : \A w \in writes[t] :
    /\ pc[t] \notin {"idle", "committed"}
    /\ w.object \in objects \/ (t \in Run /\ w.object = t /\ known[t] = t)
    /\ Justified(t, w)
OneWriteOfAColumn ==
  \A t \in Transaction : \A v, w \in writes[t] : SameColumn(v, w) => v = w

ApprovedObjectsExist ==
  /\ \A a \in approvals : a.object \in objects
  /\ \A d \in Decider : \A a \in request[d] : a.object \in objects

TableInv ==
  /\ Types
  /\ SeenWereCommitted
  /\ ObjectsAreProvisioned /\ KnownExists /\ SawNoObject /\ SnapsHaveObjects
  /\ ElementsAreCommitted /\ OneOfAnId /\ OneOfAColumn
  /\ WritesAreJustified /\ OneWriteOfAColumn
  /\ ApprovedObjectsExist

(* There is nothing in the tables, and nobody has written.                 *)
LEMMA InitTables == Init => TableInv
<1> SUFFICES ASSUME Init PROVE TableInv
  OBVIOUS
<1>1. Types
  <2>1. \A r \in Run : NoObject \in Run \union {NoObject}
    OBVIOUS
  <2> QED BY NoTableIsSchema DEF Init, Types, PC
<1>2. SeenWereCommitted
  BY DEF Init, SeenWereCommitted
<1>3. ObjectsAreProvisioned /\ KnownExists /\ SawNoObject
  BY DEF Init, ObjectsAreProvisioned, KnownExists, SawNoObject
<1>4. SnapsHaveObjects
  BY Transactions DEF Init, SnapsHaveObjects
<1>5. ElementsAreCommitted /\ OneOfAnId /\ OneOfAColumn
  BY DEF Init, ElementsAreCommitted, OneOfAnId, OneOfAColumn
<1>6. WritesAreJustified /\ OneWriteOfAColumn /\ ApprovedObjectsExist
  BY DEF Init, WritesAreJustified, OneWriteOfAColumn, ApprovedObjectsExist
<1> QED BY <1>1, <1>2, <1>3, <1>4, <1>5, <1>6 DEF TableInv

(* The transactions that commit are the only ones added to Committed.      *)
LEMMA NotCommitting ==
  ASSUME Types, NEW t \in Transaction, NEW p, pc' = [pc EXCEPT ![t] = p],
         pc[t] # "committed", p # "committed"
  PROVE  Committed' = Committed
BY DEF Committed, Types

(* The one that does is.                                                   *)
LEMMA Committing ==
  ASSUME Types, NEW t \in Transaction, pc' = [pc EXCEPT ![t] = "committed"]
  PROVE  Committed' = Committed \union {t}
BY DEF Committed, Types

-----------------------------------------------------------------------------
(* A step that moves a transaction on and leaves everything else alone.    *)
LEMMA Moving ==
  ASSUME TableInv, NEW t \in Transaction, NEW p,
         pc' = [pc EXCEPT ![t] = p],
         pc[t] \notin {"idle", "committed"}, p \in PC \ {"idle", "committed"},
         t \in Run => pc[t] \in {"compare", "heal"},
         UNCHANGED <<source, seen, known, snap, request, writes, tableVars>>
  PROVE  TableInv'
<1>a. Types /\ UNCHANGED <<seen, known, snap, request, writes, elements, objects, approvals>>
  BY DEF TableInv, tableVars
<1>1. Types'
  BY <1>a DEF Types
<1>2. Committed' = Committed
  BY <1>a, NotCommitting
<1>3. /\ SeenWereCommitted' /\ ObjectsAreProvisioned' /\ KnownExists' /\ SawNoObject'
      /\ ElementsAreCommitted' /\ OneOfAnId' /\ OneWriteOfAColumn' /\ ApprovedObjectsExist'
  BY <1>a, <1>2 DEF TableInv, SeenWereCommitted, ObjectsAreProvisioned, KnownExists, SawNoObject,
       ElementsAreCommitted, OneOfAnId, OneWriteOfAColumn, ApprovedObjectsExist, SameId,
       SameColumn
<1>4. SnapsHaveObjects'
  BY <1>a, Transactions DEF TableInv, SnapsHaveObjects, Types
<1>5. OneOfAColumn'
  BY <1>a DEF TableInv, OneOfAColumn, Overlap, SameColumn
<1>6. WritesAreJustified'
  BY <1>a DEF TableInv, WritesAreJustified, Justified, SameId, SameColumn, Types
<1> QED BY <1>1, <1>3, <1>4, <1>5, <1>6 DEF TableInv

(* A transaction that ends badly.                                          *)
LEMMA Ending ==
  ASSUME TableInv, NEW t \in Transaction, NEW p,
         pc' = [pc EXCEPT ![t] = p],
         pc[t] \notin {"idle", "committed"}, p \in {"failed", "lost"}, Forget(t)
  PROVE  TableInv'
<1>a. /\ Types /\ UNCHANGED <<source, elements, objects, approvals>>
      /\ seen' = [seen EXCEPT ![t] = {}]
      /\ known' = [r \in Run |-> IF r = t THEN NoObject ELSE known[r]]
      /\ snap' = [r \in Run |-> IF r = t THEN NoTable ELSE snap[r]]
      /\ request' = [d \in Decider |-> IF d = t THEN {} ELSE request[d]]
      /\ writes' = [writes EXCEPT ![t] = {}]
  BY DEF TableInv, Forget, tableVars, sourceVars
<1>1. Types'
  BY <1>a, NoTableIsSchema DEF Types, PC
<1>2. Committed' = Committed /\ t \notin Committed
  BY <1>a, NotCommitting DEF Committed
<1>3. SeenWereCommitted'
  BY <1>a, <1>2 DEF TableInv, SeenWereCommitted, Types
<1>4. ObjectsAreProvisioned' /\ KnownExists'
  BY <1>a, <1>2 DEF TableInv, ObjectsAreProvisioned, KnownExists, Types
<1>5. SawNoObject'
  <2> SUFFICES ASSUME NEW r \in Run, known'[r] \in {NoObject, r}, NEW o \in objects, o # r
               PROVE  o \notin seen'[r]
    BY <1>a DEF SawNoObject
  <2>1. CASE r = t
    BY <1>a, <2>1 DEF Types
  <2>2. CASE r # t
    BY <1>a, <2>2, Transactions DEF TableInv, SawNoObject, Types
  <2> QED BY <2>1, <2>2
<1>6. SnapsHaveObjects'
  BY <1>a, Transactions DEF TableInv, SnapsHaveObjects, Types
<1>7. ElementsAreCommitted' /\ OneOfAnId'
  BY <1>a, <1>2 DEF TableInv, ElementsAreCommitted, OneOfAnId, SameId
<1>8. OneOfAColumn'
  <2>1. \A e \in elements : e.by # t /\ e.by \in Transaction
    BY <1>2 DEF TableInv, ElementsAreCommitted, Committed
  <2>2. \A e, g \in elements : Overlap(e.by, g.by)' <=> Overlap(e.by, g.by)
    BY <1>a, <2>1 DEF Overlap, Types
  <2> QED BY <1>a, <2>2 DEF TableInv, OneOfAColumn, Overlap, SameColumn
<1>9. WritesAreJustified'
  <2> SUFFICES ASSUME NEW u \in Transaction, NEW w \in writes'[u]
               PROVE  /\ pc'[u] \notin {"idle", "committed"}
                      /\ w.object \in objects \/ (u \in Run /\ w.object = u /\ known'[u] = u)
                      /\ Justified(u, w)'
    BY <1>a DEF WritesAreJustified
  <2>1. u # t /\ w \in writes[u]
    BY <1>a DEF Types
  <2>2. /\ pc[u] \notin {"idle", "committed"}
        /\ w.object \in objects \/ (u \in Run /\ w.object = u /\ known[u] = u)
        /\ Justified(u, w)
    BY <2>1 DEF TableInv, WritesAreJustified
  <2>3. pc'[u] = pc[u] /\ seen'[u] = seen[u] /\ (u \in Run => known'[u] = known[u])
    BY <1>a, <2>1 DEF Types
  <2>4. Justified(u, w)'
    BY <1>a, <2>2, <2>3 DEF Justified, SameId, SameColumn
  <2> QED BY <2>2, <2>3, <2>4
<1>10. OneWriteOfAColumn'
  BY <1>a DEF TableInv, OneWriteOfAColumn, SameColumn, Types
<1>11. ApprovedObjectsExist'
  BY <1>a DEF TableInv, ApprovedObjectsExist
<1> QED BY <1>1, <1>3, <1>4, <1>5, <1>6, <1>7, <1>8, <1>9, <1>10, <1>11 DEF TableInv

-----------------------------------------------------------------------------
(* The other steps.                                                        *)

(* A transaction begins: it sees what is committed.                        *)
LEMMA Beginning ==
  ASSUME TableInv, NEW t \in Transaction, NEW p \in {"extract", "loaded"},
         pc[t] = "idle", pc' = [pc EXCEPT ![t] = p],
         seen' = [seen EXCEPT ![t] = Committed],
         UNCHANGED <<source, snap, writes, tableVars>>,
         \/ /\ t \in Run /\ UNCHANGED request
            /\ \E o \in FoundObject : known' = [known EXCEPT ![t] = o]
         \/ /\ t \in Decider /\ UNCHANGED known
            /\ \E a \in approvals, decision \in {"approved", "rejected"} :
                 request' = [request EXCEPT ![t] = {[a EXCEPT !.decision = decision]}]
  PROVE  TableInv'
<1>a. /\ Types /\ UNCHANGED <<elements, objects, approvals>>
      /\ t \notin Committed /\ Committed' = Committed
  BY NotCommitting DEF TableInv, tableVars, Committed
<1>0. Run \cap Decider = {}
  BY Transactions
<1>1. Types'
  <2>1. Committed \subseteq Transaction
    BY DEF Committed
  <2>2. FoundObject \subseteq Run \union {NoObject}
    BY <1>a DEF FoundObject, Types
  <2>3. \A a \in approvals, decision \in {"approved", "rejected"} :
          [a EXCEPT !.decision = decision] \in Approval
    BY <1>a DEF Types, Approval, Decision
  <2>4. pc' \in [Transaction -> PC] /\ seen' \in [Transaction -> SUBSET Transaction]
    BY <1>a, <2>1 DEF Types, PC
  <2>5. known' \in [Run -> Run \union {NoObject}] /\ request' \in [Decider -> SUBSET Approval]
    <3>1. CASE t \in Run
      BY <1>0, <1>a, <2>2, <3>1 DEF Types
    <3>2. CASE t \in Decider
      <4>1. PICK a \in approvals, decision \in {"approved", "rejected"} :
              request' = [request EXCEPT ![t] = {[a EXCEPT !.decision = decision]}]
        BY <1>0, <3>2
      <4>2. {[a EXCEPT !.decision = decision]} \subseteq Approval
        BY <2>3, <4>1
      <4> HIDE DEF Approval
      <4>3. request' \in [Decider -> SUBSET Approval]
        BY <1>a, <4>1, <4>2 DEF Types
      <4> QED BY <1>0, <1>a, <3>2, <4>3 DEF Types
    <3> QED BY <3>1, <3>2
  <2> QED BY <1>a, <2>4, <2>5 DEF Types
<1>2. SeenWereCommitted'
  BY <1>a DEF TableInv, SeenWereCommitted, Types
<1>b. \A u \in Transaction : u # t => pc'[u] = pc[u] /\ seen'[u] = seen[u]
  BY <1>a DEF Types
<1>c. \A r \in Run : r # t => known'[r] = known[r]
  BY <1>a DEF Types
<1>3. ObjectsAreProvisioned'
  BY <1>a, <1>c DEF TableInv, ObjectsAreProvisioned, Types
<1>4. KnownExists' /\ SawNoObject'
  <2>1. CASE t \in Run
    <3>1. PICK o \in FoundObject : known' = [known EXCEPT ![t] = o]
      BY <1>0, <2>1
    <3>2. (objects = {} /\ o = NoObject) \/ o \in objects
      BY <3>1 DEF FoundObject
    <3>3. t \notin objects
      BY <1>a DEF TableInv, ObjectsAreProvisioned
    <3>4. known'[t] = o
      BY <1>a, <2>1, <3>1 DEF Types
    <3>5. t # NoObject /\ NoObject \notin objects
      BY <1>a, <2>1, Transactions DEF Types
    <3>6. KnownExists'
      BY <1>a, <1>c, <3>2, <3>4 DEF TableInv, KnownExists
    <3>7. SawNoObject'
      BY <1>a, <1>b, <1>c, <3>2, <3>3, <3>4, <3>5, Transactions DEF TableInv, SawNoObject
    <3> QED BY <3>6, <3>7
  <2>2. CASE t \in Decider
    <3>1. \A r \in Run : r # t /\ known'[r] = known[r] /\ seen'[r] = seen[r]
      BY <1>0, <1>b, <1>c, <2>2, Transactions
    <3> QED BY <1>a, <3>1 DEF TableInv, KnownExists, SawNoObject
  <2> QED BY <2>1, <2>2
<1>5. SnapsHaveObjects'
  BY <1>a, <1>b, <1>c, Transactions DEF TableInv, SnapsHaveObjects, Types
<1>6. ElementsAreCommitted' /\ OneOfAnId' /\ OneWriteOfAColumn'
  BY <1>a DEF TableInv, ElementsAreCommitted, OneOfAnId, OneWriteOfAColumn, SameId, SameColumn
<1>7. OneOfAColumn'
  <2>1. \A e \in elements : e.by # t /\ e.by \in Transaction
    BY <1>a DEF TableInv, ElementsAreCommitted, Committed
  <2>2. \A e, g \in elements : Overlap(e.by, g.by)' <=> Overlap(e.by, g.by)
    BY <1>b, <2>1 DEF Overlap
  <2> QED BY <1>a, <2>2 DEF TableInv, OneOfAColumn, Overlap, SameColumn
<1>8. WritesAreJustified'
  <2> SUFFICES ASSUME NEW u \in Transaction, NEW w \in writes[u]
               PROVE  /\ pc'[u] \notin {"idle", "committed"}
                      /\ w.object \in objects \/ (u \in Run /\ w.object = u /\ known'[u] = u)
                      /\ Justified(u, w)'
    BY <1>a DEF WritesAreJustified
  <2>1. /\ pc[u] \notin {"idle", "committed"}
        /\ w.object \in objects \/ (u \in Run /\ w.object = u /\ known[u] = u)
        /\ Justified(u, w)
    BY DEF TableInv, WritesAreJustified
  <2>2. u # t
    BY <2>1
  <2>3. Justified(u, w)'
    BY <1>a, <1>b, <2>1, <2>2 DEF Justified, SameId, SameColumn
  <2> QED BY <1>b, <1>c, <2>1, <2>2, <2>3
<1>9. ApprovedObjectsExist'
  <2>1. CASE t \in Run
    BY <1>0, <1>a, <2>1 DEF TableInv, ApprovedObjectsExist
  <2>2. CASE t \in Decider
    <3>1. PICK a \in approvals, decision \in {"approved", "rejected"} :
            request' = [request EXCEPT ![t] = {[a EXCEPT !.decision = decision]}]
      BY <1>0, <2>2
    <3>2. [a EXCEPT !.decision = decision].object = a.object /\ a.object \in objects
      BY <1>a DEF TableInv, ApprovedObjectsExist, Types, Approval
    <3> QED BY <1>a, <2>2, <3>1, <3>2 DEF TableInv, ApprovedObjectsExist, Types
  <2> QED BY <2>1, <2>2
<1> QED BY <1>1, <1>2, <1>3, <1>4, <1>5, <1>6, <1>7, <1>8, <1>9 DEF TableInv

(* An extraction writes elements of the object it provisions only.         *)
LEMMA ExtractTables == ASSUME TableInv, NEW r \in Run, Extract(r) PROVE TableInv'
<1> DEFINE w0 == IF Provisions(r) THEN Added({}, r, r, source) ELSE {}
<1>a. /\ Types /\ r \in Transaction
      /\ pc[r] = "extract" /\ pc' = [pc EXCEPT ![r] = "compare"]
      /\ snap' = [snap EXCEPT ![r] = source] /\ writes' = [writes EXCEPT ![r] = w0]
      /\ known' = [known EXCEPT ![r] = IF Provisions(r) THEN r ELSE @]
      /\ UNCHANGED <<source, seen, request, elements, objects, approvals>>
  BY Transactions DEF TableInv, Extract, tableVars, sourceVars
<1>b. Committed' = Committed /\ r \notin Committed /\ r \notin objects
  BY <1>a, NotCommitting DEF TableInv, Committed, ObjectsAreProvisioned
<1>c. /\ w0 \subseteq Element
      /\ \A w \in w0 : Provisions(r) /\ w.object = r /\ w.by = r
      /\ \A v, w \in w0 : v.field = w.field => v = w
  <2>1. source \in Schema
    BY <1>a DEF Types
  <2> QED BY <1>a, <2>1, AddedElements
<1>d. known'[r] = IF Provisions(r) THEN r ELSE known[r]
  BY <1>a DEF Types
<1>e. \A q \in Run : q # r => known'[q] = known[q] /\ snap'[q] = snap[q]
  BY <1>a DEF Types
<1>f. \A u \in Transaction : u # r => writes'[u] = writes[u] /\ pc'[u] = pc[u]
  BY <1>a DEF Types
<1>g. writes'[r] = w0 /\ pc'[r] = "compare" /\ snap'[r] = source
  BY <1>a DEF Types
<1> HIDE DEF w0
<1>1. Types'
  <2>1. known' \in [Run -> Run \union {NoObject}] /\ snap' \in [Run -> Schema]
    BY <1>a DEF Types
  <2>2. pc' \in [Transaction -> PC] /\ writes' \in [Transaction -> SUBSET Element]
    BY <1>a, <1>c DEF Types, PC
  <2> QED BY <1>a, <2>1, <2>2 DEF Types
<1>2. SeenWereCommitted' /\ ObjectsAreProvisioned'
  BY <1>a, <1>b, <1>e DEF TableInv, SeenWereCommitted, ObjectsAreProvisioned, Types
<1>3. KnownExists'
  BY <1>a, <1>d, <1>e DEF TableInv, KnownExists
<1>4. SawNoObject'
  BY <1>a, <1>d, <1>e DEF TableInv, SawNoObject, Provisions
<1>5. SnapsHaveObjects'
  <2>1. r # NoObject
    BY Transactions
  <2>2. source # NoTable => known'[r] # NoObject
    BY <1>d, <2>1 DEF Provisions
  <2> QED BY <1>e, <1>f, <1>g, <2>2, Transactions DEF TableInv, SnapsHaveObjects
<1>6. ElementsAreCommitted' /\ OneOfAnId' /\ OneOfAColumn' /\ ApprovedObjectsExist'
  BY <1>a, <1>b DEF TableInv, ElementsAreCommitted, OneOfAnId, OneOfAColumn, ApprovedObjectsExist,
       SameId, SameColumn, Overlap
<1>7. WritesAreJustified'
  <2> SUFFICES ASSUME NEW u \in Transaction, NEW w \in writes'[u]
               PROVE  /\ pc'[u] \notin {"idle", "committed"}
                      /\ w.object \in objects \/ (u \in Run /\ w.object = u /\ known'[u] = u)
                      /\ Justified(u, w)'
    BY <1>a DEF WritesAreJustified
  <2>1. CASE u = r
    <3>1. w \in w0 /\ w.object = r /\ w.by = r /\ known'[r] = r
      BY <1>c, <1>d, <1>g, <2>1
    <3>2. \A e \in elements : e.object # r
      BY <1>b DEF TableInv, ElementsAreCommitted
    <3>3. Justified(u, w)'
      BY <1>a, <2>1, <3>1, <3>2 DEF Justified, SameColumn
    <3> QED BY <1>g, <2>1, <3>1, <3>3
  <2>2. CASE u # r
    <3>1. /\ pc[u] \notin {"idle", "committed"}
          /\ w.object \in objects \/ (u \in Run /\ w.object = u /\ known[u] = u)
          /\ Justified(u, w)
      BY <1>f, <2>2 DEF TableInv, WritesAreJustified
    <3>2. Justified(u, w)'
      BY <1>a, <3>1 DEF Justified, SameId, SameColumn
    <3> QED BY <1>e, <1>f, <2>2, <3>1, <3>2
  <2> QED BY <2>1, <2>2
<1>8. OneWriteOfAColumn'
  BY <1>c, <1>f, <1>g DEF TableInv, OneWriteOfAColumn, SameColumn
<1> QED BY <1>1, <1>2, <1>3, <1>4, <1>5, <1>6, <1>7, <1>8 DEF TableInv

(* A discovery or an approved decision heals an object.                    *)
LEMMA HealingTables ==
  ASSUME TableInv, NEW t \in Transaction, NEW p \in {"commit", "applied"},
         NEW o \in objects, NEW s \in Schema, NEW kept \in ByName(o),
         pc[t] \in {"heal", "loaded"}, t \in Run => pc[t] = "heal",
         pc' = [pc EXCEPT ![t] = p],
         writes' = [writes EXCEPT ![t] = Healing(kept, o, t, s)],
         UNCHANGED <<source, seen, known, snap, request, tableVars>>
  PROVE  TableInv'
<1> DEFINE h == Healing(kept, o, t, s)
<1>a. /\ Types /\ Committed' = Committed /\ UNCHANGED <<elements, objects, approvals>>
      /\ t \notin Committed /\ o \in Run
  BY NotCommitting DEF TableInv, tableVars, Committed, Types
<1>b. /\ h \subseteq Element
      /\ \A w \in h : /\ w.object = o
                      /\ \/ \E e \in elements : SameId(e, w)
                         \/ w.by = t /\ \A e \in elements : e.object = o => e.field # w.field
      /\ \A v, w \in h : v.field = w.field => v = w
  <2>1. elements \subseteq Element
    BY <1>a DEF Types
  <2> QED BY <1>a, <2>1, HealingWrites
<1>c. \A u \in Transaction : u # t => writes'[u] = writes[u] /\ pc'[u] = pc[u]
  BY <1>a DEF Types
<1>d. writes'[t] = h /\ pc'[t] = p
  BY <1>a DEF Types
<1>e. pc' \in [Transaction -> PC] /\ writes' \in [Transaction -> SUBSET Element]
  BY <1>a, <1>b DEF Types, PC
<1> HIDE DEF h
<1>1. Types'
  BY <1>a, <1>e DEF Types
<1>2. /\ SeenWereCommitted' /\ ObjectsAreProvisioned' /\ KnownExists' /\ SawNoObject'
      /\ ElementsAreCommitted' /\ OneOfAnId' /\ OneOfAColumn' /\ ApprovedObjectsExist'
  BY <1>a DEF TableInv, SeenWereCommitted, ObjectsAreProvisioned, KnownExists, SawNoObject,
       ElementsAreCommitted, OneOfAnId, OneOfAColumn, ApprovedObjectsExist, SameId, SameColumn,
       Overlap
<1>3. SnapsHaveObjects'
  BY <1>a, <1>c, Transactions DEF TableInv, SnapsHaveObjects
<1>4. WritesAreJustified'
  <2> SUFFICES ASSUME NEW u \in Transaction, NEW w \in writes'[u]
               PROVE  /\ pc'[u] \notin {"idle", "committed"}
                      /\ w.object \in objects \/ (u \in Run /\ w.object = u /\ known[u] = u)
                      /\ Justified(u, w)'
    BY <1>a DEF WritesAreJustified
  <2>1. CASE u = t
    BY <1>a, <1>b, <1>d, <2>1 DEF Justified, SameId, SameColumn
  <2>2. CASE u # t
    <3>1. /\ pc[u] \notin {"idle", "committed"}
          /\ w.object \in objects \/ (u \in Run /\ w.object = u /\ known[u] = u)
          /\ Justified(u, w)
      BY <1>c, <2>2 DEF TableInv, WritesAreJustified
    <3>2. Justified(u, w)'
      BY <1>a, <3>1 DEF Justified, SameId, SameColumn
    <3> QED BY <1>c, <2>2, <3>1, <3>2
  <2> QED BY <2>1, <2>2
<1>5. OneWriteOfAColumn'
  BY <1>b, <1>c, <1>d DEF TableInv, OneWriteOfAColumn, SameColumn
<1> QED BY <1>1, <1>2, <1>3, <1>4, <1>5 DEF TableInv

(* A transaction commits its writes, and with its object if it made one.   *)
LEMMA CommittingTables ==
  ASSUME TableInv, NEW t \in Transaction, pc[t] \in {"commit", "applied"},
         pc' = [pc EXCEPT ![t] = "committed"],
         elements' = Written(t), writes' = [writes EXCEPT ![t] = {}],
         objects' = IF t \in Run /\ known[t] = t THEN objects \union {t} ELSE objects,
         approvals' \subseteq Approval, \A a \in approvals' : a.object \in objects',
         UNCHANGED <<source, seen, known, snap, request>>
  PROVE  TableInv'
<1>a. /\ Types /\ t \notin Committed /\ Committed' = Committed \union {t}
      /\ objects \subseteq objects'
  BY Committing DEF TableInv, Committed
<1>b. \A u \in Transaction : u # t => writes'[u] = writes[u] /\ pc'[u] = pc[u]
  BY <1>a DEF Types
<1>c. writes'[t] = {} /\ pc'[t] = "committed"
  BY <1>a DEF Types
<1>d. \A e \in elements' : \/ e \in elements /\ \A w \in writes[t] : ~SameId(e, w)
                           \/ e \in writes[t]
  BY DEF Written
<1>e. \A e \in elements : \E g \in elements' : SameId(e, g)
  BY DEF Written, SameId
<1>f. \A w \in writes[t] : /\ w.object \in objects'
                           /\ Justified(t, w)
  BY DEF TableInv, WritesAreJustified
<1>g. \A e \in elements : e.by \in Committed /\ e.by # t /\ t \notin seen[e.by]
  <2>1. \A e \in elements : e.by \in Committed
    BY DEF TableInv, ElementsAreCommitted
  <2>2. \A u \in Committed : u \in Transaction /\ t \notin seen[u]
    BY <1>a DEF TableInv, SeenWereCommitted, Committed
  <2> QED BY <1>a, <2>1, <2>2
<1>1. Types'
  <2>1. elements' \subseteq Element /\ objects' \subseteq Run
    BY <1>a, <1>d DEF Types
  <2>2. pc' \in [Transaction -> PC] /\ writes' \in [Transaction -> SUBSET Element]
    BY <1>a DEF Types, PC
  <2> QED BY <1>a, <2>1, <2>2 DEF Types
<1>2. SeenWereCommitted' /\ ObjectsAreProvisioned' /\ KnownExists'
  BY <1>a DEF TableInv, SeenWereCommitted, ObjectsAreProvisioned, KnownExists
<1>3. SawNoObject'
  <2>1. \A r \in Run : t \notin seen[r]
    BY <1>a, Transactions DEF TableInv, SeenWereCommitted
  <2> QED BY <2>1 DEF TableInv, SawNoObject
<1>4. SnapsHaveObjects'
  BY <1>b, <1>c, Transactions DEF TableInv, SnapsHaveObjects
<1>5. ElementsAreCommitted'
  <2> SUFFICES ASSUME NEW e \in elements' PROVE e.by \in Committed' /\ e.object \in objects'
    BY DEF ElementsAreCommitted
  <2>1. CASE e \in elements
    BY <1>a, <2>1 DEF TableInv, ElementsAreCommitted
  <2>2. CASE e \in writes[t]
    BY <1>a, <1>f, <1>g, <2>2 DEF Justified, SameId
  <2> QED BY <1>d, <2>1, <2>2
<1>6. OneOfAnId'
  <2> SUFFICES ASSUME NEW e \in elements', NEW g \in elements', SameId(e, g) PROVE e = g
    BY DEF OneOfAnId, SameId
  <2>1. CASE e \in elements /\ g \in elements
    BY <2>1 DEF TableInv, OneOfAnId
  <2>2. CASE e \in writes[t] /\ g \in writes[t]
    BY <2>2 DEF TableInv, OneWriteOfAColumn, SameId, SameColumn
  <2> QED BY <1>d, <2>1, <2>2 DEF SameId
<1>7. OneOfAColumn'
  <2>1. ASSUME NEW e \in elements', NEW w \in writes[t], e \in elements,
               SameColumn(e, w), e.by # w.by
        PROVE  Overlap(e.by, w.by)
    <3>1. CASE \E e0 \in elements : SameId(e0, w)
      BY <2>1, <3>1 DEF TableInv, OneOfAColumn, SameId, SameColumn
    <3>2. CASE w.by = t /\ e.by \notin seen[t]
      BY <1>g, <2>1, <3>2 DEF Overlap
    <3> QED BY <1>f, <2>1, <3>1, <3>2 DEF Justified
  <2> SUFFICES ASSUME NEW e \in elements', NEW g \in elements', SameColumn(e, g), e.by # g.by
               PROVE  Overlap(e.by, g.by)
    BY DEF OneOfAColumn, SameColumn, Overlap
  <2>2. CASE e \in elements /\ g \in elements
    BY <2>2 DEF TableInv, OneOfAColumn
  <2>3. CASE e \in elements /\ g \in writes[t]
    BY <2>1, <2>3
  <2>4. CASE e \in writes[t] /\ g \in elements
    BY <2>1, <2>4 DEF SameColumn, Overlap
  <2>5. CASE e \in writes[t] /\ g \in writes[t]
    BY <2>5 DEF TableInv, OneWriteOfAColumn
  <2> QED BY <1>d, <2>2, <2>3, <2>4, <2>5
<1>8. WritesAreJustified'
  <2> SUFFICES ASSUME NEW u \in Transaction, NEW w \in writes'[u]
               PROVE  /\ pc'[u] \notin {"idle", "committed"}
                      /\ w.object \in objects' \/ (u \in Run /\ w.object = u /\ known'[u] = u)
                      /\ Justified(u, w)'
    BY DEF WritesAreJustified
  <2>1. u # t /\ w \in writes[u] /\ pc'[u] = pc[u]
    BY <1>b, <1>c
  <2>2. /\ pc[u] \notin {"idle", "committed"}
        /\ w.object \in objects \/ (u \in Run /\ w.object = u /\ known[u] = u)
        /\ Justified(u, w)
    BY <2>1 DEF TableInv, WritesAreJustified
  <2>3. Justified(u, w)'
    <3>1. CASE \E e \in elements : SameId(e, w)
      BY <1>e, <3>1 DEF Justified, SameId
    <3>2. CASE w.by = u /\ \A e \in elements : SameColumn(e, w) => e.by \notin seen[u]
      <4>1. ASSUME NEW e \in elements', SameColumn(e, w) PROVE e.by \notin seen[u]
        <5>1. t \notin seen[u]
          BY <1>a DEF TableInv, SeenWereCommitted
        <5>2. CASE e \in elements
          BY <3>2, <4>1, <5>2
        <5>3. CASE e \in writes[t]
          BY <1>f, <3>2, <4>1, <5>1, <5>3 DEF Justified, SameId, SameColumn
        <5> QED BY <1>d, <5>2, <5>3
      <4> QED BY <3>2, <4>1 DEF Justified, SameColumn
    <3> QED BY <2>2, <3>1, <3>2 DEF Justified
  <2> QED BY <1>a, <2>1, <2>2, <2>3
<1>9. OneWriteOfAColumn'
  BY <1>b, <1>c DEF TableInv, OneWriteOfAColumn, SameColumn
<1>10. ApprovedObjectsExist'
  BY <1>a DEF TableInv, ApprovedObjectsExist
<1> QED BY <1>1, <1>2, <1>3, <1>4, <1>5, <1>6, <1>7, <1>8, <1>9, <1>10 DEF TableInv

(* The approvals a discovery stores.                                       *)
LEMMA StoredApprovals ==
  ASSUME Types, NEW r \in Run, snap[r] # NoTable => known[r] # NoObject
  PROVE  /\ NewApprovals(r) \subseteq Approval
         /\ \A a \in NewApprovals(r) : a.run = r /\ a.object = known[r] /\ a.decision = "pending"
         /\ NewApprovals(r) # {} => known[r] # NoObject
<1>1. CASE snap[r] = NoTable
  BY <1>1 DEF NewApprovals
<1>2. CASE snap[r] # NoTable
  <2>1. \A e \in Events(r) : e[1] \in Field /\ (e[2] \in Critical => e[2] \in Change)
    BY DEF Events, Diff, Critical, Change
  <2>2. known[r] \in Run
    BY <1>2 DEF Types
  <2>3. NewApprovals(r) =
          {[run |-> r, object |-> known[r], field |-> e[1], change |-> e[2],
            decision |-> "pending"] : e \in {v \in Events(r) : v[2] \in Critical}}
    BY <1>2 DEF NewApprovals
  <2> QED BY <1>2, <2>1, <2>2, <2>3 DEF Approval, Decision
<1> QED BY <1>1, <1>2

(* A discovery commits its writes and its critical events.                 *)
LEMMA CommitTables == ASSUME TableInv, NEW r \in Run, Commit(r) PROVE TableInv'
<1>1. /\ r \in Transaction /\ pc[r] = "commit" /\ Types
      /\ pc' = [pc EXCEPT ![r] = "committed"]
      /\ elements' = Written(r) /\ writes' = [writes EXCEPT ![r] = {}]
      /\ objects' = IF r \in Run /\ known[r] = r THEN objects \union {r} ELSE objects
      /\ approvals' = approvals \union NewApprovals(r)
      /\ UNCHANGED <<source, seen, known, snap, request>>
  BY Transactions DEF TableInv, Commit, runVars, sourceVars
<1>2. /\ NewApprovals(r) \subseteq Approval
      /\ \A a \in NewApprovals(r) : a.object = known[r] /\ known[r] # NoObject
  BY <1>1, StoredApprovals DEF TableInv, SnapsHaveObjects
<1>3. approvals' \subseteq Approval
  BY <1>1, <1>2 DEF Types
<1>4. \A a \in approvals' : a.object \in objects'
  BY <1>1, <1>2 DEF TableInv, ApprovedObjectsExist, KnownExists
<1> QED BY <1>1, <1>3, <1>4, CommittingTables

(* A decision commits its writes, and its approval in place of the old one.*)
LEMMA DecideTables == ASSUME TableInv, NEW d \in Decider, Decide(d) PROVE TableInv'
<1>1. /\ d \in Transaction /\ d \notin Run /\ pc[d] = "applied" /\ Types
      /\ pc' = [pc EXCEPT ![d] = "committed"]
      /\ elements' = Written(d) /\ writes' = [writes EXCEPT ![d] = {}]
      /\ objects' = IF d \in Run /\ known[d] = d THEN objects \union {d} ELSE objects
      /\ approvals' = {a \in approvals : \A b \in request[d] : ~SameApproval(a, b)}
                        \union request[d]
      /\ UNCHANGED <<source, seen, known, snap, request>>
  BY Transactions DEF TableInv, Decide, runVars, sourceVars
<1>2. approvals' \subseteq Approval
  BY <1>1 DEF Types
<1>3. \A a \in approvals' : a.object \in objects'
  BY <1>1 DEF TableInv, ApprovedObjectsExist
<1> QED BY <1>1, <1>2, <1>3, CommittingTables

(* A discovery heals the object that it found.                             *)
LEMMA HealTables == ASSUME TableInv, NEW r \in Run, Heal(r) PROVE TableInv'
<1>1. /\ r \in Transaction /\ pc[r] = "heal" /\ pc' = [pc EXCEPT ![r] = "commit"] /\ Types
      /\ UNCHANGED <<source, seen, known, snap, request, tableVars>>
  BY Transactions DEF TableInv, Heal, runVars, sourceVars
<1>2. CASE UNCHANGED writes
  BY <1>1, <1>2, Moving DEF PC
<1>3. CASE /\ Heals(r) /\ known[r] # r
           /\ \E kept \in ByName(known[r]) :
                writes' = [writes EXCEPT ![r] = Healing(kept, known[r], r, snap[r])]
  <2>1. known[r] \in objects /\ snap[r] \in Schema
    BY <1>1, <1>3 DEF TableInv, Heals, KnownExists, SnapsHaveObjects, Types
  <2> QED BY <1>1, <1>3, <2>1, HealingTables
<1> QED BY <1>2, <1>3 DEF Heal

(* A decider applies a snapshot to an object that is there.                *)
LEMMA ApplyTables == ASSUME TableInv, NEW d \in Decider, Apply(d) PROVE TableInv'
<1>1. /\ d \in Transaction /\ d \notin Run
      /\ pc[d] = "loaded" /\ pc' = [pc EXCEPT ![d] = "applied"] /\ Types
      /\ UNCHANGED <<source, seen, known, snap, request, tableVars>>
  BY Transactions DEF TableInv, Apply, runVars, sourceVars
<1>2. CASE UNCHANGED writes
  BY <1>1, <1>2, Moving DEF PC
<1>3. CASE \E a \in request[d] : \E kept \in ByName(a.object) :
             writes' = [writes EXCEPT ![d] = Healing(kept, a.object, d, snap[a.run])]
  <2>1. PICK a \in request[d] : \E kept \in ByName(a.object) :
             writes' = [writes EXCEPT ![d] = Healing(kept, a.object, d, snap[a.run])]
    BY <1>3
  <2>2. a.object \in objects
    BY DEF TableInv, ApprovedObjectsExist
  <2>3. a \in Approval
    BY <1>1 DEF Types
  <2>4. snap[a.run] \in Schema
    BY <1>1, <2>3 DEF Types, Approval
  <2> QED BY <1>1, <2>1, <2>2, <2>4, HealingTables
<1> QED BY <1>2, <1>3 DEF Apply

(* Every step.                                                             *)
LEMMA TableStep == TableInv /\ [Next]_vars => TableInv'
<1> SUFFICES ASSUME TableInv, [Next]_vars PROVE TableInv'
  OBVIOUS
<1>0. /\ Run \subseteq Transaction /\ Decider \subseteq Transaction
      /\ Run \cap Decider = {}
  BY Transactions
<1>1. ASSUME NEW f \in Field, NEW shape \in Shape \union {NoField}, Alter(f, shape)
      PROVE  TableInv'
  <2>1. /\ source' = [source EXCEPT ![f] = shape]
        /\ UNCHANGED <<pc, seen, known, snap, request, writes, elements, objects, approvals>>
    BY <1>1 DEF Alter, runVars, tableVars
  <2>2. Types'
    BY <2>1 DEF TableInv, Types, Schema
  <2>3. Committed' = Committed
    BY <2>1 DEF Committed
  <2> QED BY <2>1, <2>2, <2>3 DEF TableInv, SeenWereCommitted, ObjectsAreProvisioned, KnownExists,
        SawNoObject, SnapsHaveObjects, ElementsAreCommitted, OneOfAnId, OneOfAColumn,
        WritesAreJustified, OneWriteOfAColumn, ApprovedObjectsExist, Justified, SameId,
        SameColumn, Overlap
<1>2. ASSUME NEW r \in Run, Discover(r) PROVE TableInv'
  <2>1. CASE Begin(r)
    <3>1. \E o \in FoundObject : known' = [known EXCEPT ![r] = o]
      BY <2>1 DEF Begin
    <3>2. /\ r \in Transaction /\ pc[r] = "idle" /\ pc' = [pc EXCEPT ![r] = "extract"]
          /\ seen' = [seen EXCEPT ![r] = Committed]
          /\ UNCHANGED <<source, snap, writes, tableVars, request>>
      BY <1>0, <2>1 DEF Begin, sourceVars
    <3> QED BY <3>1, <3>2, Beginning
  <2>2. CASE Extract(r)
    BY <2>2, ExtractTables
  <2>3. CASE ExtractFails(r)
    BY <1>0, <2>3, Ending DEF ExtractFails
  <2>4. CASE Compare(r)
    BY <1>0, <2>4, Moving DEF Compare, sourceVars, PC
  <2>5. CASE Heal(r)
    BY <2>5, HealTables
  <2>6. CASE RefusedHealing(r)
    BY <1>0, <2>6, Ending DEF RefusedHealing
  <2>7. CASE Commit(r)
    BY <2>7, CommitTables
  <2> QED BY <1>2, <2>1, <2>2, <2>3, <2>4, <2>5, <2>6, <2>7 DEF Discover
<1>3. ASSUME NEW d \in Decider, DecideApproval(d) PROVE TableInv'
  <2>1. ASSUME NEW a \in approvals, NEW decision \in {"approved", "rejected"},
               Load(d, a, decision)
        PROVE  TableInv'
    <3>1. /\ d \in Transaction /\ pc[d] = "idle" /\ pc' = [pc EXCEPT ![d] = "loaded"]
          /\ seen' = [seen EXCEPT ![d] = Committed]
          /\ UNCHANGED <<source, snap, writes, tableVars, known>>
          /\ request' = [request EXCEPT ![d] = {[a EXCEPT !.decision = decision]}]
      BY <1>0, <2>1 DEF Load, sourceVars, runVars
    <3> QED BY <3>1, Beginning
  <2>2. CASE Apply(d)
    BY <2>2, ApplyTables
  <2>3. CASE RefusedApproval(d)
    BY <1>0, <2>3, Ending DEF RefusedApproval
  <2>4. CASE Decide(d)
    BY <2>4, DecideTables
  <2> QED BY <1>3, <2>1, <2>2, <2>3, <2>4 DEF DecideApproval
<1>4. ASSUME NEW t \in Transaction, Abort(t) PROVE TableInv'
  BY <1>4, Ending DEF Abort
<1>5. CASE UNCHANGED vars
  BY <1>5 DEF vars, runVars, tableVars, sourceVars, TableInv, Types, Committed, SeenWereCommitted,
        ObjectsAreProvisioned, KnownExists, SawNoObject, SnapsHaveObjects, ElementsAreCommitted,
        OneOfAnId, OneOfAColumn, WritesAreJustified, OneWriteOfAColumn, ApprovedObjectsExist,
        Justified, SameId, SameColumn, Overlap
<1> QED BY <1>1, <1>2, <1>3, <1>4, <1>5 DEF Next, Finished

(* OverlapMakesDuplicates: two objects of the table, or two elements of a  *)
(* column, come from transactions that overlapped.                         *)
THEOREM OnlyOverlapsDuplicate == Spec => []OverlapMakesDuplicates
<1>1. TableInv => OverlapMakesDuplicates
  <2> SUFFICES ASSUME TableInv PROVE OverlapMakesDuplicates
    OBVIOUS
  <2>1. ASSUME NEW o \in objects, NEW p \in objects, o # p PROVE Overlap(o, p)
    BY <2>1 DEF TableInv, ObjectsAreProvisioned, SawNoObject, Overlap, Types
  <2>2. ASSUME NEW e \in elements, NEW g \in elements, e.object = g.object,
               e.field = g.field, e # g
        PROVE  Overlap(e.by, g.by)
    BY <2>2 DEF TableInv, OneOfAnId, OneOfAColumn, SameId, SameColumn
  <2> QED BY <2>1, <2>2 DEF OverlapMakesDuplicates
<1> QED BY <1>1, InitTables, TableStep, PTL DEF Spec

-----------------------------------------------------------------------------
(* The decisions.                                                          *)

ApprovalsAreCommitted == \A a \in approvals : a.run \in Committed
OneApproval == \A a, b \in approvals : SameApproval(a, b) => a = b

(* A decider that is under way has loaded one approval that is there.      *)
RequestsAreApprovals ==
  \A d \in Decider : \A b \in request[d] :
    /\ \E a \in approvals : SameApproval(a, b)
    /\ \A c \in request[d] : c = b
    /\ pc[d] # "idle"

(* Who decided an approval had not done so when the others that are still  *)
(* deciding it loaded it: they would not have found it pending.            *)
DecidedBy(a, c) ==
  /\ pc[c] = "committed"
  /\ \A d \in Decider :
       pc[d] # "committed" /\ (\E b \in request[d] : SameApproval(a, b)) => c \notin seen[d]
DecidedBySomeone ==
  \A a \in approvals : a.decision # "pending" => \E c \in Decider : DecidedBy(a, c)

DecisionInv == /\ ApprovalsAreCommitted /\ OneApproval
               /\ RequestsAreApprovals /\ DecidedBySomeone

(* There is nothing to decide.                                             *)
LEMMA InitDecisions == Init => DecisionInv
BY DEF Init, DecisionInv, ApprovalsAreCommitted, OneApproval, RequestsAreApprovals,
       DecidedBySomeone

(* A step that leaves the approvals alone and lets a transaction that has  *)
(* begun go on, with its request or without it.                            *)
LEMMA DecisionsStay ==
  ASSUME Types, DecisionInv, UNCHANGED approvals,
         NEW t \in Transaction, NEW p,
         pc' = [pc EXCEPT ![t] = p], p \notin {"idle", "committed"}, pc[t] # "committed",
         \A d \in Decider : request'[d] = request[d] \/ (d = t /\ request'[d] = {}),
         \A u \in Transaction : seen'[u] = seen[u] \/ (u = t /\ seen'[u] = {})
                                \/ (u = t /\ t \in Run)
  PROVE  DecisionInv'
<1>0. Run \cap Decider = {} /\ Decider \subseteq Transaction
  BY Transactions
<1>1. Committed' = Committed
  BY NotCommitting
<1>2. ApprovalsAreCommitted' /\ OneApproval'
  BY <1>1 DEF DecisionInv, ApprovalsAreCommitted, OneApproval, SameApproval
<1>3. \A d \in Transaction : pc'[d] = IF d = t THEN p ELSE pc[d]
  BY DEF Types
<1>4. RequestsAreApprovals'
  BY <1>0, <1>3 DEF DecisionInv, RequestsAreApprovals, SameApproval
<1>5. ASSUME NEW a \in approvals, NEW c \in Decider, DecidedBy(a, c) PROVE DecidedBy(a, c)'
  <2>1. c # t /\ pc'[c] = "committed"
    BY <1>0, <1>3, <1>5 DEF DecidedBy
  <2>2. ASSUME NEW d \in Decider, pc'[d] # "committed", NEW b \in request'[d],
               SameApproval(a, b)
        PROVE  c \notin seen'[d]
    <3>1. b \in request[d] /\ pc[d] # "committed"
      BY <1>0, <1>3, <2>2
    <3>2. c \notin seen[d]
      BY <1>5, <2>2, <3>1 DEF DecidedBy
    <3> QED BY <1>0, <3>2
  <2> QED BY <2>1, <2>2 DEF DecidedBy, SameApproval
<1>6. DecidedBySomeone'
  BY <1>5 DEF DecisionInv, DecidedBySomeone
<1> QED BY <1>2, <1>4, <1>6 DEF DecisionInv

(* A decider loads an approval that is there and pending.                  *)
LEMMA LoadDecisions ==
  ASSUME TableInv, DecisionInv, NEW d \in Decider, NEW a \in approvals,
         NEW decision \in {"approved", "rejected"}, Load(d, a, decision)
  PROVE  DecisionInv'
<1> DEFINE loaded == [a EXCEPT !.decision = decision]
<1>a. /\ Types /\ d \in Transaction /\ a.decision = "pending" /\ a \in approvals
      /\ pc[d] = "idle" /\ pc' = [pc EXCEPT ![d] = "loaded"]
      /\ request' = [request EXCEPT ![d] = {loaded}] /\ UNCHANGED approvals
      /\ seen' = [seen EXCEPT ![d] = Committed]
  BY Transactions DEF TableInv, Load, Undecided, tableVars
<1>b. Committed' = Committed
  BY <1>a, NotCommitting
<1>c. \A c \in Decider : /\ pc'[c] = IF c = d THEN "loaded" ELSE pc[c]
                         /\ seen'[c] = IF c = d THEN Committed ELSE seen[c]
                         /\ request'[c] = IF c = d THEN {loaded} ELSE request[c]
  BY <1>a, Transactions DEF Types
<1>d. SameApproval(a, loaded)
  BY <1>a DEF SameApproval, Types, Approval
<1> HIDE DEF loaded
<1>1. ApprovalsAreCommitted' /\ OneApproval'
  BY <1>a, <1>b DEF DecisionInv, ApprovalsAreCommitted, OneApproval, SameApproval
<1>2. RequestsAreApprovals'
  BY <1>a, <1>c, <1>d DEF DecisionInv, RequestsAreApprovals, SameApproval
<1>3. DecidedBySomeone'
  <2> SUFFICES ASSUME NEW x \in approvals, x.decision # "pending"
               PROVE  \E c \in Decider : DecidedBy(x, c)'
    BY <1>a DEF DecidedBySomeone
  <2>1. PICK c \in Decider : DecidedBy(x, c)
    BY DEF DecisionInv, DecidedBySomeone
  <2>2. ~SameApproval(x, loaded)
    <3>1. SameApproval(x, loaded) => SameApproval(x, a)
      BY <1>d DEF SameApproval
    <3> QED BY <1>a, <3>1 DEF DecisionInv, OneApproval
  <2>3. c # d
    BY <1>a, <2>1 DEF DecidedBy
  <2>4. DecidedBy(x, c)'
    BY <1>c, <2>1, <2>2, <2>3 DEF DecidedBy, SameApproval
  <2> QED BY <2>4
<1> QED BY <1>1, <1>2, <1>3 DEF DecisionInv

(* A discovery stores approvals of its own run, all pending.               *)
LEMMA CommitDecisions ==
  ASSUME TableInv, DecisionInv, NEW r \in Run, Commit(r) PROVE DecisionInv'
<1>a. /\ Types /\ r \in Transaction /\ r \notin Decider
      /\ pc[r] = "commit" /\ pc' = [pc EXCEPT ![r] = "committed"]
      /\ approvals' = approvals \union NewApprovals(r) /\ UNCHANGED <<request, seen>>
  BY Transactions DEF TableInv, Commit
<1>b. Committed' = Committed \union {r} /\ r \notin Committed
  BY <1>a, Committing DEF Committed
<1>c. \A a \in NewApprovals(r) : /\ a \in Approval /\ a.run = r
                                 /\ a.object = known[r] /\ a.decision = "pending"
  BY <1>a, StoredApprovals DEF TableInv, SnapsHaveObjects
<1>d. \A c \in Decider : pc'[c] = pc[c]
  BY <1>a, Transactions DEF Types
<1>1. ApprovalsAreCommitted'
  BY <1>a, <1>b, <1>c DEF DecisionInv, ApprovalsAreCommitted
<1>2. OneApproval'
  <2> SUFFICES ASSUME NEW a \in approvals', NEW b \in approvals', SameApproval(a, b)
               PROVE  a = b
    BY DEF OneApproval, SameApproval
  <2>1. CASE a \in approvals /\ b \in approvals
    BY <2>1 DEF DecisionInv, OneApproval
  <2>2. CASE a \in NewApprovals(r) /\ b \in NewApprovals(r)
    BY <1>c, <2>2 DEF SameApproval, Approval
  <2>3. a.run = b.run
    BY DEF SameApproval
  <2>4. \A x \in approvals : x.run # r
    BY <1>b DEF DecisionInv, ApprovalsAreCommitted
  <2> QED BY <1>a, <1>c, <2>1, <2>2, <2>3, <2>4
<1>3. RequestsAreApprovals'
  BY <1>a, <1>d DEF DecisionInv, RequestsAreApprovals, SameApproval
<1>4. DecidedBySomeone'
  <2>1. \A a \in approvals, c \in Decider : DecidedBy(a, c) => DecidedBy(a, c)'
    BY <1>a, <1>d DEF DecidedBy, SameApproval
  <2> QED BY <1>a, <1>c, <2>1 DEF DecisionInv, DecidedBySomeone
<1> QED BY <1>1, <1>2, <1>3, <1>4 DEF DecisionInv

(* Who began before a decision has not seen the one who took it.           *)
LEMMA DecideDecisions ==
  ASSUME TableInv, DecisionInv, NEW d \in Decider, Decide(d) PROVE DecisionInv'
<1>a. /\ Types /\ d \in Transaction /\ d \notin Run
      /\ pc[d] = "applied" /\ pc' = [pc EXCEPT ![d] = "committed"]
      /\ approvals' = {a \in approvals : \A b \in request[d] : ~SameApproval(a, b)}
                        \union request[d]
      /\ UNCHANGED <<request, seen>>
  BY Transactions DEF TableInv, Decide
<1>b. Committed' = Committed \union {d} /\ d \notin Committed
  BY <1>a, Committing DEF Committed
<1>c. \A c \in Decider : pc'[c] = IF c = d THEN "committed" ELSE pc[c]
  BY <1>a, Transactions DEF Types
<1>d. \A a \in approvals' : \/ a \in approvals /\ \A b \in request[d] : ~SameApproval(a, b)
                            \/ a \in request[d]
  BY <1>a
<1>e. \A a \in request[d] : \E b \in approvals : SameApproval(a, b)
  BY DEF DecisionInv, RequestsAreApprovals, SameApproval
<1>f. \A a \in approvals : \E b \in approvals' : SameApproval(a, b)
  BY <1>a DEF SameApproval
<1>1. ApprovalsAreCommitted'
  BY <1>b, <1>d, <1>e DEF DecisionInv, ApprovalsAreCommitted, SameApproval
<1>2. OneApproval'
  <2>1. \A a, b \in request[d] : a = b
    BY DEF DecisionInv, RequestsAreApprovals
  <2> QED BY <1>d, <2>1 DEF DecisionInv, OneApproval, SameApproval
<1>3. RequestsAreApprovals'
  <2> SUFFICES ASSUME NEW c \in Decider, NEW b \in request[c]
               PROVE  /\ \E a \in approvals' : SameApproval(a, b)
                      /\ \A x \in request[c] : x = b
                      /\ pc'[c] # "idle"
    BY <1>a DEF RequestsAreApprovals, SameApproval
  <2>1. PICK a \in approvals : SameApproval(a, b)
    BY DEF DecisionInv, RequestsAreApprovals
  <2>2. \E x \in approvals' : SameApproval(x, b)
    BY <1>f, <2>1 DEF SameApproval
  <2> QED BY <1>c, <2>2 DEF DecisionInv, RequestsAreApprovals
<1>4. DecidedBySomeone'
  <2> SUFFICES ASSUME NEW a \in approvals', a.decision # "pending"
               PROVE  \E c \in Decider : DecidedBy(a, c)'
    BY DEF DecidedBySomeone
  <2>1. CASE a \in approvals
    <3>1. PICK c \in Decider : DecidedBy(a, c)
      BY <2>1 DEF DecisionInv, DecidedBySomeone
    <3>2. c # d
      BY <1>a, <3>1 DEF DecidedBy
    <3>3. DecidedBy(a, c)'
      BY <1>a, <1>c, <3>1, <3>2 DEF DecidedBy, SameApproval
    <3> QED BY <3>3
  <2>2. CASE a \in request[d]
    <3>1. \A c \in Decider : d \notin seen'[c]
      BY <1>a, <1>b, Transactions DEF TableInv, SeenWereCommitted
    <3>2. DecidedBy(a, d)'
      BY <1>c, <3>1 DEF DecidedBy
    <3> QED BY <3>2
  <2> QED BY <1>d, <2>1, <2>2
<1> QED BY <1>1, <1>2, <1>3, <1>4 DEF DecisionInv

(* Every step.                                                             *)
LEMMA DecisionStep == TableInv /\ DecisionInv /\ [Next]_vars => DecisionInv'
<1> SUFFICES ASSUME TableInv, DecisionInv, [Next]_vars PROVE DecisionInv'
  OBVIOUS
<1>0. Types /\ Run \subseteq Transaction /\ Decider \subseteq Transaction
      /\ Run \cap Decider = {}
  BY Transactions DEF TableInv
<1>1. ASSUME UNCHANGED <<pc, seen, request, approvals>> PROVE DecisionInv'
  BY <1>1 DEF DecisionInv, ApprovalsAreCommitted, Committed, OneApproval, RequestsAreApprovals,
       DecidedBySomeone, DecidedBy, SameApproval
<1>2. ASSUME NEW t \in Transaction, NEW p \in {"failed", "lost"}, Forget(t),
             pc' = [pc EXCEPT ![t] = p], pc[t] # "committed"
      PROVE  DecisionInv'
  <2>1. /\ UNCHANGED approvals /\ seen' = [seen EXCEPT ![t] = {}]
        /\ request' = [d \in Decider |-> IF d = t THEN {} ELSE request[d]]
    BY <1>2 DEF Forget, tableVars
  <2>2. \A u \in Transaction : seen'[u] = seen[u] \/ (u = t /\ seen'[u] = {})
    BY <1>0, <2>1 DEF Types
  <2> QED BY <1>0, <1>2, <2>1, <2>2, DecisionsStay
<1>3. ASSUME NEW r \in Run, Discover(r) PROVE DecisionInv'
  <2>1. CASE Begin(r)
    <3>1. /\ pc[r] = "idle" /\ pc' = [pc EXCEPT ![r] = "extract"]
          /\ UNCHANGED <<approvals, request>> /\ seen' = [seen EXCEPT ![r] = Committed]
      BY <2>1 DEF Begin, tableVars
    <3>2. \A u \in Transaction : seen'[u] = seen[u] \/ (u = r /\ r \in Run)
      BY <1>0, <3>1 DEF Types
    <3> QED BY <1>0, <3>1, <3>2, DecisionsStay
  <2>2. CASE Extract(r) \/ Compare(r) \/ Heal(r)
    <3>1. PICK p \in {"compare", "heal", "commit"} : pc' = [pc EXCEPT ![r] = p]
      BY <2>2 DEF Extract, Compare, Heal
    <3>2. pc[r] # "committed" /\ UNCHANGED <<approvals, request, seen>>
      BY <2>2 DEF Extract, Compare, Heal, tableVars
    <3> QED BY <1>0, <3>1, <3>2, DecisionsStay
  <2>3. CASE ExtractFails(r) \/ RefusedHealing(r)
    BY <1>0, <1>2, <2>3 DEF ExtractFails, RefusedHealing
  <2>4. CASE Commit(r)
    BY <2>4, CommitDecisions
  <2> QED BY <1>3, <2>1, <2>2, <2>3, <2>4 DEF Discover
<1>4. ASSUME NEW d \in Decider, DecideApproval(d) PROVE DecisionInv'
  <2>1. CASE Apply(d)
    <3>1. PICK p \in {"applied"} : pc' = [pc EXCEPT ![d] = p]
      BY <2>1 DEF Apply
    <3>2. pc[d] # "committed" /\ UNCHANGED <<approvals, request, seen>>
      BY <2>1 DEF Apply, tableVars
    <3> QED BY <1>0, <3>1, <3>2, DecisionsStay
  <2>2. CASE RefusedApproval(d)
    BY <1>0, <1>2, <2>2 DEF RefusedApproval
  <2>3. CASE Decide(d)
    BY <2>3, DecideDecisions
  <2> QED BY <1>4, <2>1, <2>2, <2>3, LoadDecisions DEF DecideApproval
<1>5. ASSUME NEW t \in Transaction, Abort(t) PROVE DecisionInv'
  BY <1>2, <1>5 DEF Abort
<1>6. ASSUME NEW f \in Field, NEW shape \in Shape \union {NoField}, Alter(f, shape)
      PROVE  DecisionInv'
  BY <1>1, <1>6 DEF Alter, tableVars
<1>7. CASE UNCHANGED vars
  BY <1>1, <1>7 DEF vars, tableVars
<1> QED BY <1>3, <1>4, <1>5, <1>6, <1>7 DEF Next, Finished

(* DecisionsAreFinal: only a decider that began before the decision        *)
(* committed can overwrite it.                                             *)
THEOREM DecisionsStayFinal == Spec => DecisionsAreFinal
<1> DEFINE Final ==
      \A a \in approvals :
        a.decision # "pending" =>
          \/ a \in approvals'
          \/ \E d, c \in Decider :
               /\ d # c /\ c \notin seen[d] /\ pc[c] = "committed" /\ pc'[d] # pc[d]
               /\ \E b \in request[d] : SameApproval(a, b)
<1>1. TableInv /\ DecisionInv /\ [Next]_vars => Final
  <2> SUFFICES ASSUME TableInv, DecisionInv, [Next]_vars,
                      NEW a \in approvals, a.decision # "pending", a \notin approvals'
               PROVE  \E d, c \in Decider :
                        /\ d # c /\ c \notin seen[d] /\ pc[c] = "committed" /\ pc'[d] # pc[d]
                        /\ \E b \in request[d] : SameApproval(a, b)
    OBVIOUS
  <2>1. \E d \in Decider : Decide(d)
    BY DEF Next, Finished, Discover, DecideApproval, Alter, Begin, Extract, ExtractFails, Compare,
         Heal, RefusedHealing, Commit, Load, Apply, RefusedApproval, Abort, Forget, tableVars, vars
  <2>2. PICK d \in Decider : Decide(d)
    BY <2>1
  <2>3. /\ pc[d] = "applied" /\ pc'[d] = "committed"
        /\ \E b \in request[d] : SameApproval(a, b)
    BY <2>2, Transactions DEF Decide, TableInv, Types
  <2>4. PICK c \in Decider : DecidedBy(a, c)
    BY DEF DecisionInv, DecidedBySomeone
  <2>5. d # c /\ c \notin seen[d] /\ pc[c] = "committed"
    BY <2>3, <2>4 DEF DecidedBy
  <2> QED BY <2>3, <2>5
<1>2. TableInv /\ DecisionInv /\ [Next]_vars => [Final]_vars
  BY <1>1
<1> QED BY <1>2, InitTables, TableStep, InitDecisions, DecisionStep, PTL
        DEF Spec, DecisionsAreFinal

-----------------------------------------------------------------------------
(* Types, and the order of the comparisons.                                *)

(* The order of the natural numbers.                                       *)
Below == {p \in Nat \X Nat : p[1] < p[2]}
(* Every nonempty set of natural numbers has a least element.              *)
LEMMA LeastOf ==
  ASSUME NEW S, S \subseteq Nat, S # {} PROVE \E n \in S : \A m \in S : n <= m
<1>1. Below = OpToRel(<, Nat)
  BY DEF Below, OpToRel
<1>2. IsWellFoundedOn(Below, Nat)
  BY <1>1, NatLessThanWellFounded
<1>3. PICK n \in S : \A m \in S : ~(<<m, n>> \in Below)
  BY <1>2, WFMin
<1>4. ASSUME NEW m \in S PROVE n <= m
  <2>1. n \in Nat /\ m \in Nat
    OBVIOUS
  <2>2. ~(m < n)
    BY <1>3, <2>1 DEF Below
  <2>3. QED BY <2>1, <2>2
<1>5. QED BY <1>4

(* A nonempty set of natural numbers below k has a greatest element.       *)
LEMMA GreatestOf ==
  ASSUME NEW S, S \subseteq Nat, S # {}, NEW k \in Nat, \A s \in S : s <= k
  PROVE \E n \in S : \A m \in S : m <= n
<1> DEFINE T == {i \in Nat : \E s \in S : i + s = k}
<1>1. T # {}
  <2>1. PICK s \in S : TRUE
    OBVIOUS
  <2>2. k - s \in Nat /\ (k - s) + s = k
    OBVIOUS
  <2>3. QED BY <2>1, <2>2
<1>2. PICK i \in T : \A j \in T : i <= j
  <2>1. T \subseteq Nat
    OBVIOUS
  <2> HIDE DEF T
  <2>2. QED BY <1>1, <2>1, LeastOf
<1>3. PICK s \in S : i + s = k
  OBVIOUS
<1>4. ASSUME NEW m \in S PROVE m <= s
  <2>1. k - m \in T
    OBVIOUS
  <2>2. i <= k - m
    BY <1>2, <2>1
  <2>3. i \in Nat /\ m \in Nat /\ s \in Nat
    OBVIOUS
  <2>4. QED BY <1>3, <2>2, <2>3
<1>5. QED BY <1>4

(* The runs that are past the comparison, or ended. *)
Stamped == {r \in Run : pc[r] \notin {"idle", "extract", "compare"}}

(* A stamp is never above the number of runs that have one.                *)
OrderInv ==
  /\ changes \in 0 .. MaxChanges
  /\ base \in [Run -> Run \union {NoRun}]
  /\ at \in [Run -> Nat]
  /\ \A r \in Run : at[r] <= Cardinality(Stamped)

(* There are as many runs as the bound says.                               *)
LEMMA RunsAreFinite == IsFiniteSet(Run) /\ Cardinality(Run) = MaxRuns
<1>1. 1 \in Int /\ MaxRuns \in Int /\ MaxRuns >= 0
  BY BoundAssumption
<1>2. QED BY <1>1, FS_Interval DEF Run

(* There are at most MaxRuns stamps, and a larger set of runs is no        *)
(* smaller.                                                                *)
LEMMA StampedIsBounded ==
  /\ IsFiniteSet(Stamped) /\ Cardinality(Stamped) \in Nat
  /\ Cardinality(Stamped) <= MaxRuns
  /\ \A S \in SUBSET Run : Stamped \subseteq S => Cardinality(Stamped) <= Cardinality(S)
<1>1. IsFiniteSet(Run) /\ Cardinality(Run) = MaxRuns
  BY RunsAreFinite
<1>2. Stamped \in SUBSET Run
  BY DEF Stamped
<1>3. IsFiniteSet(Stamped) /\ Cardinality(Stamped) <= MaxRuns
  BY <1>1, <1>2, FS_Subset
<1>4. ASSUME NEW S \in SUBSET Run, Stamped \subseteq S
      PROVE  Cardinality(Stamped) <= Cardinality(S)
  <2>1. IsFiniteSet(S)
    BY <1>1, FS_Subset
  <2>2. QED BY <1>4, <2>1, FS_Subset
<1>5. QED BY <1>3, <1>4, FS_CardinalityType

(* No run has a stamp.                                                     *)
LEMMA OrderStart == Init => OrderInv
<1> SUFFICES ASSUME Init PROVE OrderInv
  OBVIOUS
<1>1. changes \in 0 .. MaxChanges
  BY BoundAssumption DEF Init
<1>2. base \in [Run -> Run \union {NoRun}]
  BY DEF Init
<1>3. at \in [Run -> Nat] /\ \A r \in Run : at[r] = 0
  BY DEF Init
<1>4. QED BY <1>1, <1>2, <1>3, StampedIsBounded DEF OrderInv

(* A bound on the stamps survives more stamped runs.                       *)
LEMMA StampsStay ==
  ASSUME OrderInv, NEW S \in SUBSET Run, Stamped \subseteq S
  PROVE  \A r \in Run : at[r] <= Cardinality(S)
<1> TAKE r \in Run
<1>1. Cardinality(Stamped) <= Cardinality(S) /\ Cardinality(Stamped) \in Nat
  BY StampedIsBounded
<1>2. IsFiniteSet(S)
  BY RunsAreFinite, FS_Subset
<1>3. Cardinality(S) \in Nat /\ at[r] \in Nat /\ at[r] <= Cardinality(Stamped)
  BY <1>2, FS_CardinalityType DEF OrderInv
<1>4. QED BY <1>1, <1>3

(* A comparison takes the next stamp, and joins the runs that have one.    *)
LEMMA CompareOrders == ASSUME Types, OrderInv, NEW r \in Run, Compare(r) PROVE OrderInv'
<1> DEFINE top == CHOOSE n \in Stamps : \A m \in Stamps : m <= n
<1>1. Stamps \subseteq Nat /\ Stamps # {} /\ \A n \in Stamps : n <= Cardinality(Stamped)
  BY DEF Stamps, OrderInv
<1>2. Cardinality(Stamped) \in Nat /\ IsFiniteSet(Stamped)
  BY StampedIsBounded
<1>3. top \in Nat /\ top <= Cardinality(Stamped)
  <2>1. \E n \in Stamps : \A m \in Stamps : m <= n
    BY <1>1, <1>2, GreatestOf
  <2>2. top \in Stamps
    BY <2>1
  <2>3. QED BY <1>1, <2>2
<1> HIDE DEF top
<1>4. Stamped' = Stamped \cup {r} /\ r \notin Stamped
  <2>1. pc' = [pc EXCEPT ![r] = "heal"] /\ pc[r] = "compare"
    BY DEF Compare
  <2>2. Run \subseteq Transaction
    BY Transactions
  <2>3. QED BY <2>1, <2>2 DEF Stamped, Types
<1>5. Cardinality(Stamped)' = Cardinality(Stamped) + 1
  BY <1>2, <1>4, FS_AddElement
<1>6. at' = [at EXCEPT ![r] = 1 + top]
  BY DEF Compare, top
<1>7. at' \in [Run -> Nat] /\ \A q \in Run : at'[q] <= Cardinality(Stamped) + 1
  <2>1. at' \in [Run -> Nat]
    BY <1>3, <1>6 DEF OrderInv
  <2>2. ASSUME NEW q \in Run PROVE at'[q] <= Cardinality(Stamped) + 1
    <3>1. at'[q] \in {at[q], 1 + top}
      BY <1>6 DEF OrderInv
    <3>2. at[q] \in Nat /\ at[q] <= Cardinality(Stamped)
      BY DEF OrderInv
    <3>3. QED BY <1>2, <1>3, <3>1, <3>2
  <2>3. QED BY <2>1, <2>2
<1>8. base' \in [Run -> Run \union {NoRun}] /\ changes' = changes
  BY DEF OrderInv, Compare, Latest, Completed, sourceVars
<1>9. QED BY <1>5, <1>7, <1>8 DEF OrderInv

(* A step that gives no run a stamp, and takes no run back. *)
LEMMA OrderStays ==
  ASSUME OrderInv, changes' \in 0 .. MaxChanges,
         Stamped \subseteq Stamped',
         \A r \in Run : base'[r] \in {base[r], NoRun} /\ at'[r] \in {at[r], 0},
         DOMAIN base' = Run, base' = [r \in Run |-> base'[r]],
         DOMAIN at' = Run, at' = [r \in Run |-> at'[r]]
  PROVE  OrderInv'
<1>1. Stamped' \in SUBSET Run
  BY DEF Stamped
<1>2. \A r \in Run : at[r] <= Cardinality(Stamped')
  BY <1>1, StampsStay
<1>3. Cardinality(Stamped') \in Nat
  BY <1>1, RunsAreFinite, FS_Subset, FS_CardinalityType
<1>4. at' \in [Run -> Nat] /\ base' \in [Run -> Run \union {NoRun}]
  BY DEF OrderInv
<1>5. ASSUME NEW r \in Run PROVE at'[r] <= Cardinality(Stamped')
  <2>1. at[r] <= Cardinality(Stamped') /\ at'[r] \in {at[r], 0}
    BY <1>2
  <2>2. QED BY <1>3, <2>1
<1>6. QED BY <1>4, <1>5 DEF OrderInv

(* A transaction that moves on does not leave the stamped runs.            *)
LEMMA MovedStamps ==
  ASSUME Types, NEW t \in Transaction, NEW p, pc' = [pc EXCEPT ![t] = p],
         \/ t \notin Run
         \/ pc[t] \in {"idle", "extract", "compare"}
         \/ p \notin {"idle", "extract", "compare"}
  PROVE  Stamped \subseteq Stamped'
BY Transactions DEF Stamped, Types

(* Every step.                                                             *)
LEMMA OrderStep == TableInv /\ OrderInv /\ [Next]_vars => OrderInv'
<1> SUFFICES ASSUME TableInv, OrderInv, [Next]_vars PROVE OrderInv'
  OBVIOUS
<1>0. /\ Types /\ base = [r \in Run |-> base[r]] /\ at = [r \in Run |-> at[r]]
      /\ DOMAIN base = Run /\ DOMAIN at = Run
      /\ Run \subseteq Transaction /\ Decider \subseteq Transaction /\ Run \cap Decider = {}
  BY Transactions DEF TableInv, OrderInv
<1>1. ASSUME NEW t \in Transaction, NEW p, pc' = [pc EXCEPT ![t] = p],
             \/ t \notin Run
             \/ pc[t] \in {"idle", "extract", "compare"}
             \/ p \notin {"idle", "extract", "compare"},
             UNCHANGED <<changes, base, at>>
      PROVE  OrderInv'
  <2>1. Stamped \subseteq Stamped'
    BY <1>0, <1>1, MovedStamps
  <2>2. QED BY <1>0, <1>1, <2>1, OrderStays DEF OrderInv
<1>2. ASSUME NEW t \in Transaction, NEW p \in {"failed", "lost"}, pc' = [pc EXCEPT ![t] = p],
             Forget(t)
      PROVE  OrderInv'
  <2>1. Stamped \subseteq Stamped'
    BY <1>0, <1>2, MovedStamps
  <2>2. /\ base' = [r \in Run |-> IF r = t THEN NoRun ELSE base[r]]
        /\ at' = [r \in Run |-> IF r = t THEN 0 ELSE at[r]]
        /\ changes' = changes
    BY <1>2 DEF Forget, sourceVars
  <2>3. QED BY <2>1, <2>2, OrderStays DEF OrderInv
<1>3. ASSUME NEW f \in Field, NEW shape \in Shape \union {NoField}, Alter(f, shape)
      PROVE  OrderInv'
  <2>1. Stamped' = Stamped /\ UNCHANGED <<base, at>>
    BY <1>3 DEF Alter, Stamped, runVars
  <2>2. changes' \in 0 .. MaxChanges
    BY <1>3, BoundAssumption DEF Alter, OrderInv
  <2>3. QED BY <1>0, <2>1, <2>2, OrderStays
<1>4. ASSUME NEW r \in Run, Discover(r) PROVE OrderInv'
  <2>0. r \in Transaction
    BY <1>0
  <2>1. CASE Begin(r)
    BY <1>1, <2>0, <2>1 DEF Begin, sourceVars
  <2>2. CASE Extract(r)
    BY <1>1, <2>0, <2>2 DEF Extract, sourceVars
  <2>3. CASE ExtractFails(r)
    BY <1>2, <2>0, <2>3 DEF ExtractFails
  <2>4. CASE Compare(r)
    BY <1>0, <2>4, CompareOrders
  <2>5. CASE Heal(r)
    BY <1>1, <2>0, <2>5 DEF Heal, sourceVars, runVars
  <2>6. CASE RefusedHealing(r)
    BY <1>2, <2>0, <2>6 DEF RefusedHealing
  <2>7. CASE Commit(r)
    BY <1>1, <2>0, <2>7 DEF Commit, sourceVars, runVars
  <2>8. QED BY <1>4, <2>1, <2>2, <2>3, <2>4, <2>5, <2>6, <2>7 DEF Discover
<1>5. ASSUME NEW d \in Decider, DecideApproval(d) PROVE OrderInv'
  <2>0. d \in Transaction /\ d \notin Run
    BY <1>0
  <2>1. ASSUME NEW a \in approvals, NEW decision \in {"approved", "rejected"},
               Load(d, a, decision)
        PROVE  OrderInv'
    BY <1>1, <2>0, <2>1 DEF Load, sourceVars, runVars
  <2>2. CASE Apply(d)
    BY <1>1, <2>0, <2>2 DEF Apply, sourceVars, runVars
  <2>3. CASE RefusedApproval(d)
    BY <1>2, <2>0, <2>3 DEF RefusedApproval
  <2>4. CASE Decide(d)
    BY <1>1, <2>0, <2>4 DEF Decide, sourceVars, runVars
  <2>5. QED BY <1>5, <2>1, <2>2, <2>3, <2>4 DEF DecideApproval
<1>6. ASSUME NEW t \in Transaction, Abort(t) PROVE OrderInv'
  BY <1>2, <1>6 DEF Abort
<1>7. CASE UNCHANGED vars
  <2>1. Stamped' = Stamped /\ UNCHANGED <<changes, base, at>>
    BY <1>7 DEF vars, runVars, sourceVars, Stamped
  <2>2. QED BY <1>0, <2>1, OrderStays DEF OrderInv
<1>8. QED BY <1>3, <1>4, <1>5, <1>6, <1>7 DEF Next, Finished

(* Every variable of discovery keeps its type, the stamps that order the   *)
(* comparisons of concurrent runs included: there are never more of them   *)
(* than runs (RunDiscoveryUseCase and ApproveDriftUseCase).             *)
THEOREM DiscoveryTypeCorrect == Spec => []TypeOK
<1>1. ASSUME TableInv, OrderInv PROVE TypeOK
  <2>1. at \in [Run -> 0 .. MaxRuns]
    <3>1. ASSUME NEW r \in Run PROVE at[r] \in 0 .. MaxRuns
      <4>1. at[r] \in Nat /\ at[r] <= Cardinality(Stamped)
        BY <1>1 DEF OrderInv
      <4>2. Cardinality(Stamped) \in Nat /\ Cardinality(Stamped) <= MaxRuns /\ MaxRuns \in Nat
        BY StampedIsBounded, BoundAssumption
      <4>3. QED BY <4>1, <4>2
    <3>2. QED BY <1>1, <3>1 DEF OrderInv
  <2>2. QED BY <1>1, <2>1 DEF TypeOK, TableInv, Types, OrderInv, PC
<1>2. Spec => [](TableInv /\ OrderInv)
  BY InitTables, OrderStart, TableStep, OrderStep, PTL DEF Spec
<1>3. QED BY <1>1, <1>2, PTL
-----------------------------------------------------------------------------
(* What the catalogue says of the columns.                                 *)

(* Nothing has committed since t began.                                    *)
Alone(t) == Committed \subseteq seen[t]

(* A run that has compared comes after every run it had seen.              *)
StampedLater(r) ==
  pc[r] \in {"heal", "commit", "committed"} => \A q \in seen[r] \intersect Run : at[q] < at[r]

(* A run that saw the table and committed has its object.                  *)
HasObject(r) ==
  pc[r] = "committed" => /\ known[r] \in objects \union {NoObject}
                         /\ snap[r] # NoTable => known[r] # NoObject

(* What a run has flushed until it heals: the object it provisioned.       *)
ProvisionedOnly(r) ==
  /\ pc[r] = "extract" => known[r] # r
  /\ pc[r] \in {"compare", "heal", "commit"} /\ known[r] = r
       => writes[r] = Added({}, r, r, snap[r])
  /\ pc[r] \in {"compare", "heal"} /\ known[r] # r => writes[r] = {}

(* What the comparison took is still the latest run.                       *)
ComparedWithLatest(r) ==
  pc[r] \in {"heal", "commit"} /\ Alone(r)
    => base[r] \in Latest \/ (base[r] = NoRun /\ Latest = {})

(* What it healed is still what the elements ask for.                      *)
HealedAsCompared(r) ==
  pc[r] = "commit" /\ known[r] # r /\ Alone(r)
    => IF Heals(r)
       THEN \E kept \in ByName(known[r]) : writes[r] = Healing(kept, known[r], r, snap[r])
       ELSE writes[r] = {}

RunAccount(r) ==
  /\ StampedLater(r) /\ HasObject(r) /\ ProvisionedOnly(r)
  /\ ComparedWithLatest(r) /\ HealedAsCompared(r)

(* And what a decider applied is.                                          *)
DeciderAccount(d) ==
  /\ pc[d] = "loaded" => writes[d] = {}
  /\ pc[d] = "applied" /\ Alone(d)
       => \E a \in request[d] :
            \/ a.decision = "rejected" /\ writes[d] = {}
            \/ a.decision = "approved" /\ \E kept \in ByName(a.object) :
                 writes[d] = Healing(kept, a.object, d, snap[a.run])

ApprovalsNameObjects == \A a \in approvals : known[a.run] = a.object

AccountInv ==
  /\ \A r \in Run : RunAccount(r)
  /\ \A d \in Decider : DeciderAccount(d)
  /\ ApprovalsNameObjects
  /\ DriftAccounted

(* Nothing has begun: there is nothing to account for.                     *)
LEMMA AccountStarts == Init => AccountInv
<1> SUFFICES ASSUME Init PROVE AccountInv
  OBVIOUS
<1>1. /\ \A t \in Transaction : pc[t] = "idle"
      /\ Run \subseteq Transaction /\ Decider \subseteq Transaction
  BY Transactions DEF Init
<1>2. ASSUME NEW r \in Run PROVE RunAccount(r)
  <2>1. pc[r] = "idle"
    BY <1>1
  <2>2. QED BY <2>1 DEF RunAccount, StampedLater, HasObject, ProvisionedOnly,
                ComparedWithLatest, HealedAsCompared
<1>3. ASSUME NEW d \in Decider PROVE DeciderAccount(d)
  <2>1. pc[d] = "idle"
    BY <1>1
  <2>2. QED BY <2>1 DEF DeciderAccount
<1>4. Latest = {}
  BY <1>1 DEF Latest, Completed, Committed
<1>5. ApprovalsNameObjects /\ DriftAccounted
  BY <1>4 DEF Init, ApprovalsNameObjects, DriftAccounted
<1>6. QED BY <1>2, <1>3, <1>5 DEF AccountInv

(* A request is about a run that has committed.                            *)
LEMMA RequestedRuns ==
  ASSUME Types, DecisionInv
  PROVE  /\ \A a \in approvals : a.run \in Completed
         /\ \A d \in Decider : \A b \in request[d] : b.run \in Completed
<1>1. \A a \in approvals : a.run \in Run /\ a.run \in Committed
  BY DEF DecisionInv, ApprovalsAreCommitted, Types, Approval
<1>2. \A d \in Decider : \A b \in request[d] : \E a \in approvals : a.run = b.run
  BY DEF DecisionInv, RequestsAreApprovals, SameApproval
<1>3. QED BY <1>1, <1>2 DEF Completed

(* A run's events and whether it heals depend on what it read and on what  *)
(* it was compared with.                                                   *)
LEMMA HealsStays ==
  ASSUME NEW r, snap'[r] = snap[r], known'[r] = known[r], base'[r] = base[r],
         base[r] \in Run => snap'[base[r]] = snap[base[r]] /\ known'[base[r]] = known[base[r]]
  PROVE  Heals(r)' <=> Heals(r)
<1>1. FirstDiscovery(r)' <=> FirstDiscovery(r)
  BY DEF FirstDiscovery
<1>2. PreviousObject(r)' <=> PreviousObject(r)
  BY <1>1 DEF PreviousObject, FirstDiscovery
<1>3. Events(r)' = Events(r)
  BY <1>2 DEF Events, PreviousObject, FirstDiscovery
<1>4. HasInformative(r)' <=> HasInformative(r)
  BY <1>2, <1>3 DEF HasInformative
<1>5. QED BY <1>1, <1>4 DEF Heals

(* A step touches what is t's, and nothing else of the transactions.       *)
OnlyOf(t) ==
  /\ \A u \in Transaction \ {t} : pc'[u] = pc[u] /\ seen'[u] = seen[u] /\ writes'[u] = writes[u]
  /\ \A r \in Run \ {t} : /\ known'[r] = known[r] /\ snap'[r] = snap[r]
                          /\ base'[r] = base[r] /\ at'[r] = at[r]
  /\ \A d \in Decider \ {t} : request'[d] = request[d]

(* A step of t that commits nothing says nothing new of the others.        *)
LEMMA OthersStay ==
  ASSUME TableInv, DecisionInv, AccountInv, NEW t \in Transaction, OnlyOf(t),
         UNCHANGED tableVars, pc[t] # "committed", pc'[t] # "committed"
  PROVE  /\ Committed' = Committed /\ Latest' = Latest
         /\ \A r \in Run \ {t} : RunAccount(r)'
         /\ \A d \in Decider \ {t} : DeciderAccount(d)'
         /\ ApprovalsNameObjects' /\ DriftAccounted'
<1>0. /\ Run \subseteq Transaction /\ Decider \subseteq Transaction
      /\ Types /\ UNCHANGED <<elements, objects, approvals>>
  BY Transactions DEF TableInv, tableVars
<1>1. Committed' = Committed /\ t \notin Committed /\ Committed \subseteq Transaction
  BY DEF Committed, OnlyOf
<1>2. Completed' = Completed /\ Completed \subseteq Run \ {t}
  BY <1>1 DEF Completed
<1>3. \A q \in Completed : known'[q] = known[q] /\ snap'[q] = snap[q] /\ at'[q] = at[q]
  BY <1>2 DEF OnlyOf
<1>4. Latest' = Latest
  BY <1>2, <1>3 DEF Latest
<1>5. \A u \in Transaction \ {t} : Alone(u)' <=> Alone(u)
  BY <1>1 DEF Alone, OnlyOf
<1>6. \A o : ByName(o)' = ByName(o)
  BY <1>0 DEF ByName
<1>7. ASSUME NEW r \in Run \ {t} PROVE RunAccount(r)'
  <2>0. /\ r \in Transaction \ {t} /\ RunAccount(r) /\ pc'[r] = pc[r] /\ seen'[r] = seen[r]
        /\ writes'[r] = writes[r] /\ known'[r] = known[r] /\ snap'[r] = snap[r]
        /\ base'[r] = base[r] /\ at'[r] = at[r]
    BY <1>0 DEF OnlyOf, AccountInv
  <2>1. StampedLater(r)'
    <3>1. seen[r] \intersect Run \subseteq Completed
      BY <2>0 DEF TableInv, SeenWereCommitted, Completed
    <3>2. QED BY <1>3, <2>0, <3>1 DEF RunAccount, StampedLater
  <2>2. HasObject(r)' /\ ProvisionedOnly(r)'
    BY <1>0, <2>0 DEF RunAccount, HasObject, ProvisionedOnly
  <2>3. ComparedWithLatest(r)'
    BY <1>4, <1>5, <2>0 DEF RunAccount, ComparedWithLatest
  <2>4. HealedAsCompared(r)'
    <3> SUFFICES ASSUME pc[r] = "commit", known[r] # r, Alone(r)
                 PROVE  IF Heals(r)'
                        THEN \E kept \in ByName(known[r]) :
                               writes[r] = Healing(kept, known[r], r, snap[r])
                        ELSE writes[r] = {}
      BY <1>5, <1>6, <2>0 DEF HealedAsCompared
    <3>1. base[r] \in Latest \/ base[r] = NoRun
      BY <2>0 DEF RunAccount, ComparedWithLatest
    <3>2. base[r] \in Run => base[r] \in Completed
      BY <3>1, Transactions DEF Latest, NoRun, NoObject
    <3>3. Heals(r)' <=> Heals(r)
      BY <1>3, <2>0, <3>2, HealsStays
    <3>4. QED BY <2>0, <3>3 DEF RunAccount, HealedAsCompared
  <2>5. QED BY <2>1, <2>2, <2>3, <2>4 DEF RunAccount
<1>8. ASSUME NEW d \in Decider \ {t} PROVE DeciderAccount(d)'
  <2>1. /\ d \in Transaction \ {t} /\ DeciderAccount(d) /\ pc'[d] = pc[d]
        /\ writes'[d] = writes[d] /\ request'[d] = request[d]
    BY <1>0 DEF OnlyOf, AccountInv
  <2>2. \A a \in request[d] : snap'[a.run] = snap[a.run]
    BY <1>0, <1>3, RequestedRuns
  <2>3. QED BY <1>5, <1>6, <2>1, <2>2 DEF DeciderAccount
<1>9. ApprovalsNameObjects'
  <2>1. \A a \in approvals : known'[a.run] = known[a.run]
    BY <1>0, <1>3, RequestedRuns
  <2>2. QED BY <1>0, <2>1 DEF AccountInv, ApprovalsNameObjects
<1>10. DriftAccounted'
  <2>1. Serial' => Serial
    BY <1>1 DEF Serial, Overlap, OnlyOf
  <2>2. Outdated => Outdated'
    <3> SUFFICES ASSUME NEW d \in Decider \intersect Committed, NEW a \in request[d],
                        a.decision = "approved", NEW q \in seen[d] \intersect Run,
                        at[q] > at[a.run]
                 PROVE  Outdated'
      BY DEF Outdated
    <3>1. d # t /\ request'[d] = request[d] /\ seen'[d] = seen[d]
      BY <1>0, <1>1 DEF OnlyOf
    <3>2. at'[a.run] = at[a.run]
      BY <1>0, <1>3, RequestedRuns
    <3>3. q \in Completed
      BY <1>0 DEF TableInv, SeenWereCommitted, Completed
    <3>4. at'[q] = at[q]
      BY <1>3, <3>3
    <3>5. QED BY <1>1, <3>1, <3>2, <3>4 DEF Outdated
  <2> SUFFICES ASSUME Serial', ~Outdated', NEW r \in Latest, snap[r] # NoTable, NEW f \in Field
               PROVE  IF snap[r][f] # NoField THEN Accounted(r, f)' ELSE AccountedRemoval(r, f)'
    <3>1. \A r \in Latest : snap'[r] = snap[r]
      BY <1>3 DEF Latest
    <3>2. QED BY <1>4, <3>1 DEF DriftAccounted
  <2>3. IF snap[r][f] # NoField THEN Accounted(r, f) ELSE AccountedRemoval(r, f)
    BY <2>1, <2>2 DEF AccountInv, DriftAccounted
  <2>4. r \in Completed /\ known'[r] = known[r] /\ snap'[r] = snap[r]
    BY <1>3 DEF Latest
  <2>5. Accounted(r, f)' <=> Accounted(r, f)
    BY <1>0, <2>4 DEF Accounted
  <2>6. AccountedRemoval(r, f) => AccountedRemoval(r, f)'
    BY <1>0, <1>2, <1>3, <2>4 DEF AccountedRemoval
  <2>7. QED BY <2>3, <2>5, <2>6
<1>11. QED BY <1>1, <1>4, <1>7, <1>8, <1>9, <1>10

(* A step of t that commits nothing: what is left to show is t's own part. *)
LEMMA AccountMoves ==
  ASSUME TableInv, DecisionInv, AccountInv, NEW t \in Transaction, OnlyOf(t),
         UNCHANGED tableVars, pc[t] # "committed", pc'[t] # "committed",
         t \in Run => RunAccount(t)', t \in Decider => DeciderAccount(t)'
  PROVE  AccountInv'
<1>1. /\ \A r \in Run \ {t} : RunAccount(r)'
      /\ \A d \in Decider \ {t} : DeciderAccount(d)'
      /\ ApprovalsNameObjects' /\ DriftAccounted'
  BY OthersStay
<1>2. \A r \in Run : RunAccount(r)'
  BY <1>1
<1>3. \A d \in Decider : DeciderAccount(d)'
  BY <1>1
<1>4. QED BY <1>1, <1>2, <1>3 DEF AccountInv

(* A transaction that begins or ends badly has nothing to account for.     *)
LEMMA AccountRests ==
  ASSUME TableInv, DecisionInv, AccountInv, NEW t \in Transaction, OnlyOf(t),
         UNCHANGED tableVars, pc[t] # "committed",
         pc'[t] \in {"extract", "loaded", "failed", "lost"},
         t \in Run /\ pc'[t] = "extract" => known'[t] # t,
         pc'[t] = "loaded" => writes'[t] = {}
  PROVE  AccountInv'
<1>1. t \in Run => RunAccount(t)'
  BY DEF RunAccount, StampedLater, HasObject, ProvisionedOnly, ComparedWithLatest,
         HealedAsCompared
<1>2. t \in Decider => DeciderAccount(t)'
  BY DEF DeciderAccount
<1>3. QED BY <1>1, <1>2, AccountMoves

(* A transaction that ends badly touches what is its own.                  *)
LEMMA ForgetIsOwn ==
  ASSUME Types, OrderInv, NEW t \in Transaction, NEW p, pc' = [pc EXCEPT ![t] = p], Forget(t)
  PROVE  OnlyOf(t) /\ UNCHANGED tableVars /\ pc'[t] = p
<1>1. Run \subseteq Transaction /\ Decider \subseteq Transaction
  BY Transactions
<1>2. QED BY <1>1 DEF Forget, OnlyOf, Types, OrderInv

(* The extraction flushes the object it provisions, or nothing.            *)
LEMMA ExtractAccounts ==
  ASSUME TableInv, DecisionInv, OrderInv, AccountInv, NEW r \in Run, Extract(r)
  PROVE  AccountInv'
<1>1. /\ Types /\ r \in Transaction /\ r \notin Decider
      /\ pc[r] = "extract" /\ pc'[r] = "compare"
  BY Transactions DEF TableInv, Extract, Types
<1>2. OnlyOf(r) /\ UNCHANGED tableVars
  BY <1>1, Transactions DEF Extract, OnlyOf, Types
<1>3. /\ known'[r] = IF Provisions(r) THEN r ELSE known[r]
      /\ writes'[r] = IF Provisions(r) THEN Added({}, r, r, source) ELSE {}
      /\ snap'[r] = source
  BY <1>1 DEF Extract, Types
<1>4. known[r] # r
  BY <1>1 DEF AccountInv, RunAccount, ProvisionedOnly
<1>5. ProvisionedOnly(r)'
  BY <1>1, <1>3, <1>4 DEF ProvisionedOnly
<1>6. RunAccount(r)'
  BY <1>1, <1>5 DEF RunAccount, StampedLater, HasObject, ComparedWithLatest, HealedAsCompared
<1>7. QED BY <1>1, <1>2, <1>6, AccountMoves

(* The stamp a comparison takes is above all the others.                   *)
LEMMA TopStamp ==
  ASSUME OrderInv, NEW r \in Run
  PROVE  LET top == CHOOSE n \in Stamps : \A m \in Stamps : m <= n
         IN  top \in Nat /\ \A q \in Run : at[q] <= top
<1>1. Stamps \subseteq Nat /\ Stamps # {} /\ \A n \in Stamps : n <= Cardinality(Stamped)
  BY DEF Stamps, OrderInv
<1>2. Cardinality(Stamped) \in Nat
  BY StampedIsBounded
<1>3. \E n \in Stamps : \A m \in Stamps : m <= n
  BY <1>1, <1>2, GreatestOf
<1>4. QED BY <1>1, <1>3 DEF Stamps

(* The comparison takes a stamp above the others and the latest run.       *)
LEMMA CompareAccounts ==
  ASSUME TableInv, DecisionInv, OrderInv, AccountInv, NEW r \in Run, Compare(r)
  PROVE  AccountInv'
<1>1. /\ Types /\ r \in Transaction /\ r \notin Decider
      /\ pc[r] = "compare" /\ pc'[r] = "heal"
  BY Transactions DEF TableInv, Compare, Types
<1>2. OnlyOf(r) /\ UNCHANGED tableVars
  BY <1>1, Transactions DEF Compare, OnlyOf, Types, OrderInv
<1>3. Committed' = Committed /\ Latest' = Latest
  BY <1>1, <1>2, OthersStay
<1>4. UNCHANGED <<seen, known, snap, writes>>
  BY DEF Compare
<1>5. StampedLater(r)'
  <2> DEFINE top == CHOOSE n \in Stamps : \A m \in Stamps : m <= n
  <2>1. top \in Nat /\ \A q \in Run : at[q] <= top
    BY TopStamp
  <2>2. at' = [at EXCEPT ![r] = 1 + top]
    BY DEF Compare
  <2> HIDE DEF top
  <2>3. \A q \in seen[r] \intersect Run : q # r
    BY <1>1 DEF TableInv, SeenWereCommitted, Committed
  <2>4. ASSUME NEW q \in seen[r] \intersect Run PROVE at'[q] < at'[r]
    <3>1. at'[q] = at[q] /\ at'[r] = 1 + top /\ at[q] \in Nat /\ at[q] <= top
      BY <2>1, <2>2, <2>3 DEF OrderInv
    <3>2. QED BY <2>1, <3>1
  <2>5. QED BY <1>4, <2>4 DEF StampedLater
<1>6. ComparedWithLatest(r)'
  <2>1. \E b \in (IF Latest = {} THEN {NoRun} ELSE Latest) : base'[r] = b
    BY DEF Compare, OrderInv
  <2>2. QED BY <1>3, <2>1 DEF ComparedWithLatest
<1>7. ProvisionedOnly(r)'
  BY <1>1, <1>4 DEF AccountInv, RunAccount, ProvisionedOnly
<1>8. RunAccount(r)'
  BY <1>1, <1>5, <1>6, <1>7 DEF RunAccount, HasObject, HealedAsCompared
<1>9. QED BY <1>1, <1>2, <1>8, AccountMoves

(* The healing flushes what the elements ask for.                          *)
LEMMA HealAccounts ==
  ASSUME TableInv, DecisionInv, OrderInv, AccountInv, NEW r \in Run, Heal(r)
  PROVE  AccountInv'
<1>1. /\ Types /\ r \in Transaction /\ r \notin Decider
      /\ pc[r] = "heal" /\ pc'[r] = "commit" /\ RunAccount(r)
  BY Transactions DEF TableInv, Heal, Types, AccountInv
<1>2. UNCHANGED <<seen, known, snap, base, at, request, elements, tableVars>>
  BY DEF Heal, runVars, tableVars
<1>3. \A u \in Transaction \ {r} : pc'[u] = pc[u] /\ writes'[u] = writes[u]
  BY <1>1 DEF Heal, Types
<1>4. OnlyOf(r)
  BY <1>2, <1>3 DEF OnlyOf
<1>5. Committed' = Committed /\ Latest' = Latest
  BY <1>1, <1>2, <1>4, OthersStay
<1>6. StampedLater(r)' /\ ComparedWithLatest(r)'
  BY <1>1, <1>2, <1>5 DEF RunAccount, StampedLater, ComparedWithLatest, Alone
<1>7. ProvisionedOnly(r)'
  BY <1>1, <1>2 DEF RunAccount, ProvisionedOnly, Heal
<1>8. HealedAsCompared(r)'
  <2>1. Heals(r)' <=> Heals(r)
    BY <1>2, HealsStays
  <2>2. \A o : ByName(o)' = ByName(o)
    BY <1>2 DEF ByName
  <2>3. CASE Heals(r)
    <3> SUFFICES ASSUME known[r] # r
                 PROVE  \E kept \in ByName(known[r]) :
                          writes'[r] = Healing(kept, known[r], r, snap[r])
      BY <1>2, <2>1, <2>2, <2>3 DEF HealedAsCompared
    <3>1. QED BY <1>1, <2>3 DEF Heal, Types
  <2>4. CASE ~Heals(r)
    <3>1. known[r] # r => writes'[r] = {}
      BY <1>1, <2>4 DEF Heal, RunAccount, ProvisionedOnly
    <3>2. QED BY <1>2, <2>1, <2>4, <3>1 DEF HealedAsCompared
  <2>5. QED BY <2>3, <2>4
<1>9. RunAccount(r)'
  BY <1>1, <1>6, <1>7, <1>8 DEF RunAccount, HasObject
<1>10. QED BY <1>1, <1>2, <1>4, <1>9, AccountMoves

(* A decider flushes what its approval asks for.                           *)
LEMMA ApplyAccounts ==
  ASSUME TableInv, DecisionInv, OrderInv, AccountInv, NEW d \in Decider, Apply(d)
  PROVE  AccountInv'
<1>1. /\ Types /\ d \in Transaction /\ d \notin Run
      /\ pc[d] = "loaded" /\ pc'[d] = "applied"
  BY Transactions DEF TableInv, Apply, Types
<1>2. UNCHANGED <<seen, known, snap, base, at, request, elements, tableVars>>
  BY DEF Apply, runVars, tableVars
<1>3. \A u \in Transaction \ {d} : pc'[u] = pc[u] /\ writes'[u] = writes[u]
  BY <1>1 DEF Apply, Types
<1>4. OnlyOf(d)
  BY <1>2, <1>3 DEF OnlyOf
<1>5. writes[d] = {}
  BY <1>1 DEF AccountInv, DeciderAccount
<1>6. DeciderAccount(d)'
  <2>1. PICK a \in request[d] :
          \/ a.decision = "rejected" /\ writes' = writes
          \/ /\ a.decision = "approved"
             /\ \E kept \in ByName(a.object) :
                  writes' = [writes EXCEPT ![d] = Healing(kept, a.object, d, snap[a.run])]
    BY DEF Apply
  <2>2. ByName(a.object)' = ByName(a.object)
    BY <1>2 DEF ByName
  <2>3. CASE a.decision = "rejected" /\ writes' = writes
    BY <1>1, <1>2, <1>5, <2>3 DEF DeciderAccount
  <2>4. CASE /\ a.decision = "approved"
             /\ \E kept \in ByName(a.object) :
                  writes' = [writes EXCEPT ![d] = Healing(kept, a.object, d, snap[a.run])]
    <3>1. \E kept \in ByName(a.object) : writes'[d] = Healing(kept, a.object, d, snap[a.run])
      BY <1>1, <2>4 DEF Types
    <3>2. QED BY <1>1, <1>2, <2>2, <2>4, <3>1 DEF DeciderAccount
  <2>5. QED BY <2>1, <2>3, <2>4
<1>7. QED BY <1>1, <1>2, <1>4, <1>6, AccountMoves

(* A run begins with an object of another run, or with none.               *)
LEMMA BeginAccounts ==
  ASSUME TableInv, DecisionInv, OrderInv, AccountInv, NEW r \in Run, Begin(r)
  PROVE  AccountInv'
<1>1. /\ Types /\ r \in Transaction /\ r \notin Decider
      /\ pc[r] = "idle" /\ pc'[r] = "extract"
  BY Transactions DEF TableInv, Begin, Types
<1>2. OnlyOf(r) /\ UNCHANGED tableVars
  BY <1>1, Transactions DEF Begin, OnlyOf, Types
<1>3. known'[r] # r
  <2>1. r \notin objects
    BY <1>1 DEF TableInv, ObjectsAreProvisioned, Committed
  <2>2. \E o \in FoundObject : known'[r] = o
    BY <1>1 DEF Begin, Types
  <2>3. QED BY <2>1, <2>2, Transactions DEF FoundObject
<1>4. QED BY <1>1, <1>2, <1>3, AccountRests

(* A decider that begins has flushed nothing.                              *)
LEMMA LoadAccounts ==
  ASSUME TableInv, DecisionInv, OrderInv, AccountInv, NEW d \in Decider,
         NEW a \in approvals, NEW decision \in {"approved", "rejected"}, Load(d, a, decision)
  PROVE  AccountInv'
<1>1. /\ Types /\ d \in Transaction /\ d \notin Run
      /\ pc[d] = "idle" /\ pc'[d] = "loaded"
  BY Transactions DEF TableInv, Load, Types
<1>2. OnlyOf(d) /\ UNCHANGED tableVars
  BY <1>1, Transactions DEF Load, OnlyOf, Types, runVars
<1>3. writes'[d] = {}
  <2>1. writes' = writes
    BY DEF Load
  <2>2. QED BY <1>1, <2>1 DEF TableInv, WritesAreJustified
<1>4. QED BY <1>1, <1>2, <1>3, AccountRests

-----------------------------------------------------------------------------
(* What a commit makes of the columns.                                     *)

(* While nothing has overlapped, there is one object, with one element of  *)
(* a column, and a healing starts from all of its elements.                *)
LEMMA SerialTables ==
  ASSUME TableInv, Serial
  PROVE  /\ \A o, p \in objects : o = p
         /\ \A e, g \in elements : SameColumn(e, g) => e = g
         /\ \A o : \A kept \in ByName(o) : kept = {e \in elements : e.object = o}
<1>1. ASSUME NEW o \in objects, NEW p \in objects, o # p PROVE FALSE
  <2>1. Overlap(o, p) /\ o \in Committed /\ p \in Committed
    BY <1>1 DEF TableInv, ObjectsAreProvisioned, SawNoObject, Overlap, Types
  <2>2. QED BY <2>1 DEF Serial
<1>2. ASSUME NEW e \in elements, NEW g \in elements, SameColumn(e, g) PROVE e = g
  <2>1. e.by \in Committed /\ g.by \in Committed
    BY DEF TableInv, ElementsAreCommitted
  <2>2. e.by = g.by
    BY <1>2, <2>1 DEF TableInv, OneOfAColumn, Serial
  <2>3. QED BY <1>2, <2>2 DEF TableInv, OneOfAnId, SameId, SameColumn
<1>3. ASSUME NEW o, NEW kept \in ByName(o) PROVE kept = {e \in elements : e.object = o}
  <2> DEFINE rows == {e \in elements : e.object = o}
  <2>1. kept \subseteq rows /\ \A e \in rows : \E k \in kept : k.field = e.field
    BY DEF ByName
  <2>2. \A e \in rows : \A k \in rows : k.field = e.field => k = e
    BY <1>2 DEF SameColumn
  <2>3. QED BY <2>1, <2>2
<1>4. QED BY <1>1, <1>2, <1>3

(* What the latest snapshot says of a column, an element of object o says. *)
Matches(e, o, f, s) ==
  e.object = o /\ e.field = f /\ e.type = s[f].type /\ e.nullable = s[f].nullable

(* A healing leaves an element that matches for each column there is, and  *)
(* brings none for a column there is not.                                  *)
LEMMA HealedColumns ==
  ASSUME TableInv, NEW t \in Transaction, t \notin Committed, NEW o, NEW s,
         writes[t] = Healing({e \in elements : e.object = o}, o, t, s)
  PROVE  /\ \A f \in Field : s[f] # NoField => \E e \in Written(t) : Matches(e, o, f, s)
         /\ \A e \in Written(t) : s[e.field] = NoField => e \in elements
<1> DEFINE rows == {e \in elements : e.object = o}
           over == {Overridden(e, s) : e \in Differing(rows, s)}
           new == Added(rows, o, t, s)
<1>1. /\ writes[t] = over \union new
      /\ Written(t) = {e \in elements : \A w \in writes[t] : ~SameId(e, w)} \union writes[t]
  BY DEF Healing, Written
<1>2. \A e \in elements : /\ Overridden(e, s).object = e.object
                          /\ Overridden(e, s).field = e.field /\ Overridden(e, s).by = e.by
                          /\ Overridden(e, s).type = s[e.field].type
                          /\ Overridden(e, s).nullable = s[e.field].nullable
  BY DEF Overridden, TableInv, Types, Element
<1>3. \A w \in new : /\ w.object = o /\ w.by = t
                     /\ \E g \in Field : s[g] # NoField /\ w = NewElement(o, g, t, s)
  BY DEF Added, NewElement
<1>4. \A e \in elements : e.by # t
  BY DEF TableInv, ElementsAreCommitted
<1>5. ASSUME NEW f \in Field, s[f] # NoField PROVE \E e \in Written(t) : Matches(e, o, f, s)
  <2>1. CASE \E e \in rows : e.field = f
    <3>1. PICK e \in elements : e.object = o /\ e.field = f
      BY <2>1
    <3>2. Matches(Overridden(e, s), o, f, s)
      BY <1>2, <3>1 DEF Matches
    <3>3. CASE Overridden(e, s) # e
      <4>1. e \in Differing(rows, s)
        BY <1>5, <3>1, <3>3 DEF Differing
      <4>2. QED BY <1>1, <3>2, <4>1
    <3>4. CASE Overridden(e, s) = e
      <4>1. ASSUME NEW w \in over, SameId(e, w) PROVE FALSE
        <5>1. PICK g \in Differing(rows, s) : w = Overridden(g, s)
          OBVIOUS
        <5>2. g \in elements /\ Overridden(g, s) # g
          BY DEF Differing
        <5>3. SameId(e, g)
          BY <1>2, <4>1, <5>1, <5>2 DEF SameId
        <5>4. e = g
          BY <5>2, <5>3 DEF TableInv, OneOfAnId
        <5>5. QED BY <3>4, <5>2, <5>4
      <4>2. \A w \in new : ~SameId(e, w)
        BY <1>3, <1>4, <3>1 DEF SameId
      <4>3. e \in Written(t)
        BY <1>1, <3>1, <4>1, <4>2
      <4>4. QED BY <3>2, <3>4, <4>3
    <3>5. QED BY <3>3, <3>4
  <2>2. CASE ~ \E e \in rows : e.field = f
    <3>1. NewElement(o, f, t, s) \in new
      BY <1>5, <2>2 DEF Added
    <3>2. Matches(NewElement(o, f, t, s), o, f, s)
      BY DEF NewElement, Matches
    <3>3. QED BY <1>1, <3>1, <3>2
  <2>3. QED BY <2>1, <2>2
<1>6. ASSUME NEW e \in Written(t), s[e.field] = NoField PROVE e \in elements
  <2>1. ASSUME e \in over PROVE FALSE
    <3>1. PICK g \in Differing(rows, s) : e = Overridden(g, s)
      BY <2>1
    <3>2. g \in elements /\ s[g.field] # NoField
      BY DEF Differing
    <3>3. QED BY <1>2, <1>6, <3>1, <3>2
  <2>2. ASSUME e \in new PROVE FALSE
    <3>1. PICK g \in Field : s[g] # NoField /\ e = NewElement(o, g, t, s)
      BY <1>3, <2>2
    <3>2. e.field = g
      BY <3>1 DEF NewElement
    <3>3. QED BY <1>6, <3>1, <3>2
  <2>3. QED BY <1>1, <2>1, <2>2
<1>7. QED BY <1>5, <1>6

(* A commit of t says nothing new of the others: nobody else is alone.     *)
LEMMA OthersAfterCommit ==
  ASSUME TableInv, DecisionInv, AccountInv, NEW t \in Transaction,
         pc[t] # "committed", pc' = [pc EXCEPT ![t] = "committed"],
         UNCHANGED <<seen, known, snap, base, at, request>>,
         writes' = [writes EXCEPT ![t] = {}], objects \subseteq objects'
  PROVE  /\ \A r \in Run \ {t} : RunAccount(r)'
         /\ \A d \in Decider : DeciderAccount(d)'
         /\ Serial' => Serial /\ Alone(t)
         /\ Outdated => Outdated'
<1>0. Types /\ Run \subseteq Transaction /\ Decider \subseteq Transaction
  BY Transactions DEF TableInv
<1>1. Committed' = Committed \union {t} /\ t \notin Committed
  BY <1>0, Committing DEF Committed
<1>2. \A u \in Transaction \ {t} : pc'[u] = pc[u] /\ writes'[u] = writes[u]
  BY <1>0 DEF Types
<1>3. pc'[t] = "committed"
  BY <1>0 DEF Types
<1>4. \A u \in Transaction : t \notin seen[u]
  BY <1>1 DEF TableInv, SeenWereCommitted
<1>5. \A u \in Transaction : ~Alone(u)'
  BY <1>1, <1>4 DEF Alone
<1>6. ASSUME NEW r \in Run \ {t} PROVE RunAccount(r)'
  <2>1. RunAccount(r) /\ pc'[r] = pc[r] /\ writes'[r] = writes[r]
    BY <1>0, <1>2 DEF AccountInv
  <2>2. ~Alone(r)'
    BY <1>0, <1>5
  <2>3. StampedLater(r)' /\ HasObject(r)' /\ ProvisionedOnly(r)'
    BY <2>1 DEF RunAccount, StampedLater, HasObject, ProvisionedOnly
  <2>4. QED BY <2>2, <2>3 DEF RunAccount, ComparedWithLatest, HealedAsCompared
<1>7. ASSUME NEW d \in Decider PROVE DeciderAccount(d)'
  <2>1. ~Alone(d)'
    BY <1>0, <1>5
  <2>2. pc'[d] = "loaded" => writes'[d] = {}
    BY <1>0, <1>2, <1>3 DEF AccountInv, DeciderAccount
  <2>3. QED BY <2>1, <2>2 DEF DeciderAccount
<1>8. Serial' => Serial /\ Alone(t)
  <2> SUFFICES ASSUME Serial' PROVE Serial /\ Alone(t)
    OBVIOUS
  <2>1. \A u, v \in Committed \union {t} : ~Overlap(u, v)
    BY <1>1 DEF Serial, Overlap
  <2>2. Serial
    BY <2>1 DEF Serial
  <2>3. ASSUME NEW u \in Committed PROVE u \in seen[t]
    <3>1. ~Overlap(t, u) /\ u # t /\ t \notin seen[u]
      BY <1>1, <1>4, <2>1 DEF Committed
    <3>2. QED BY <3>1 DEF Overlap
  <2>4. QED BY <2>2, <2>3 DEF Alone
<1>9. Outdated => Outdated'
  BY <1>1 DEF Outdated
<1>10. QED BY <1>6, <1>7, <1>8, <1>9

(* There is a latest run as soon as there is one.                          *)
LEMMA SomeRunIsLatest == ASSUME OrderInv, Completed # {} PROVE Latest # {}
<1> DEFINE S == {at[r] : r \in Completed}
<1>1. Completed \subseteq Run
  BY DEF Completed
<1>2. S \subseteq Nat /\ S # {} /\ \A n \in S : n <= Cardinality(Stamped)
  BY <1>1 DEF OrderInv
<1>3. Cardinality(Stamped) \in Nat
  BY StampedIsBounded
<1> HIDE DEF S
<1>4. PICK n \in S : \A m \in S : m <= n
  BY <1>2, <1>3, GreatestOf
<1>5. QED BY <1>4 DEF S, Latest

(* Two runs that do not overlap have different stamps.                     *)
LEMMA StampsDiffer ==
  ASSUME TableInv, OrderInv, AccountInv, Serial, NEW q \in Completed, NEW r \in Completed,
         at[q] = at[r]
  PROVE  q = r
<1> SUFFICES ASSUME q # r PROVE FALSE
  OBVIOUS
<1>1. /\ q \in Run /\ r \in Run /\ q \in Committed /\ r \in Committed
      /\ pc[q] = "committed" /\ pc[r] = "committed" /\ at[q] \in Nat
  BY DEF Completed, Committed, OrderInv
<1>2. q \in seen[r] \/ r \in seen[q]
  BY <1>1 DEF Serial, Overlap
<1>3. StampedLater(q) /\ StampedLater(r)
  BY <1>1 DEF AccountInv, RunAccount
<1>4. at[q] < at[r] \/ at[r] < at[q]
  BY <1>1, <1>2, <1>3 DEF StampedLater
<1>5. QED BY <1>1, <1>4

(* A column without an event is there as it was.                           *)
LEMMA NoChangeNoDifference ==
  ASSUME NEW p \in Shape \union {NoField}, NEW c \in Shape \union {NoField},
         FieldChange(p, c) = {}, c # NoField
  PROVE  p # NoField /\ p.type = c.type /\ p.nullable = c.nullable
<1>1. p # NoField
  BY DEF FieldChange
<1>2. TypeChange(p, c) = {} /\ NullabilityChange(p, c) = {}
  BY <1>1 DEF FieldChange
<1>3. p.type = c.type
  BY <1>2 DEF TypeChange
<1>4. p.nullable = c.nullable
  BY <1>2 DEF NullabilityChange
<1>5. QED BY <1>1, <1>3, <1>4

(* Every critical event of a run that has a snapshot is stored.            *)
LEMMA CriticalIsStored ==
  ASSUME NEW r \in Run, snap[r] # NoTable, PreviousObject(r), NEW f \in Field,
         NEW c \in FieldChange(snap[base[r]][f], snap[r][f]), c \in Critical
  PROVE  \E a \in NewApprovals(r) : a.object = known[r] /\ a.field = f
<1>1. <<f, c>> \in Events(r)
  BY DEF Events, Diff
<1>2. [run |-> r, object |-> known[r], field |-> f, change |-> c, decision |-> "pending"]
        \in NewApprovals(r)
  <2> DEFINE v == <<f, c>>
  <2>1. v \in Events(r) /\ v[1] = f /\ v[2] = c
    BY <1>1
  <2> HIDE DEF v
  <2>2. [run |-> r, object |-> known[r], field |-> v[1], change |-> v[2],
          decision |-> "pending"] \in NewApprovals(r)
    BY <2>1 DEF NewApprovals
  <2>3. QED BY <2>1, <2>2
<1>3. QED BY <1>2

(* The run that commits, when nothing has overlapped it.                   *)
LEMMA CommitAccountsFor ==
  ASSUME TableInv, DecisionInv, OrderInv, AccountInv, NEW r \in Run, Commit(r),
         Serial, Alone(r), ~Outdated, snap[r] # NoTable, NEW f \in Field
  PROVE  IF snap[r][f] # NoField THEN Accounted(r, f)' ELSE AccountedRemoval(r, f)'
<1> DEFINE o == known[r]
           b == base[r]
<1>1. /\ Types /\ r \in Transaction /\ pc[r] = "commit" /\ r \notin Committed
      /\ elements' = Written(r) /\ approvals' = approvals \union NewApprovals(r)
      /\ UNCHANGED <<seen, known, snap, base, at, request>>
      /\ pc' = [pc EXCEPT ![r] = "committed"] /\ RunAccount(r)
  BY Transactions DEF TableInv, Commit, runVars, Committed, AccountInv
<1>2. o # NoObject /\ (o # r => o \in objects)
  BY <1>1 DEF TableInv, SnapsHaveObjects, KnownExists
<1>3. Committed' = Committed \union {r} /\ Completed' = Completed \union {r}
  <2>1. Committed' = Committed \union {r}
    BY <1>1, Committing
  <2>2. QED BY <2>1 DEF Completed
<1>4. ASSUME \E e \in Written(r) : Matches(e, o, f, snap[r]) PROVE Accounted(r, f)'
  BY <1>1, <1>4 DEF Accounted, Matches
<1>5. ASSUME \E a \in approvals' : a.object = o /\ a.field = f
      PROVE  Accounted(r, f)' /\ AccountedRemoval(r, f)'
  BY <1>1, <1>5 DEF Accounted, AccountedRemoval
<1>6. ASSUME \A e \in Written(r) : e.field # f PROVE AccountedRemoval(r, f)'
  BY <1>1, <1>6 DEF AccountedRemoval
(* It has provisioned the object: the elements are the columns.            *)
<1>7. CASE o = r
  <2>1. objects = {}
    <3>1. \A p \in objects : p \in seen[r] /\ p # r
      BY <1>1 DEF Alone, TableInv, ObjectsAreProvisioned
    <3>2. QED BY <1>7, <3>1 DEF TableInv, SawNoObject
  <2>2. elements = {}
    BY <2>1 DEF TableInv, ElementsAreCommitted
  <2>3. writes[r] = Healing({e \in elements : e.object = o}, o, r, snap[r])
    <3>1. writes[r] = Added({}, r, r, snap[r])
      BY <1>1, <1>7 DEF RunAccount, ProvisionedOnly
    <3>2. {e \in elements : e.object = o} = {} /\ Differing({}, snap[r]) = {}
      BY <2>2 DEF Differing
    <3>3. QED BY <1>7, <3>1, <3>2 DEF Healing
  <2>4. CASE snap[r][f] # NoField
    BY <1>1, <1>4, <2>3, <2>4, HealedColumns
  <2>5. CASE snap[r][f] = NoField
    <3>1. \A e \in Written(r) : snap[r][e.field] = NoField => e \in elements
      BY <1>1, <2>3, HealedColumns
    <3>2. \A e \in Written(r) : e.field # f
      BY <2>2, <2>5, <3>1
    <3>3. QED BY <1>6, <2>5, <3>2
  <2>6. QED BY <2>4, <2>5
<1>8. CASE o # r
  <2>1. o \in objects /\ Completed # {}
    BY <1>2, <1>8 DEF TableInv, ObjectsAreProvisioned, Types, Completed
  <2>2. b \in Latest /\ b \in Completed /\ b \in Run
    <3>1. Latest # {}
      BY <2>1, SomeRunIsLatest
    <3>2. QED BY <1>1, <3>1 DEF RunAccount, ComparedWithLatest, Latest, Completed
  <2>3. Heals(r) => writes[r] = Healing({e \in elements : e.object = o}, o, r, snap[r])
    BY <1>1, <1>8, SerialTables DEF RunAccount, HealedAsCompared
  <2>4. ~Heals(r) => Written(r) = elements
    BY <1>1, <1>8 DEF RunAccount, HealedAsCompared, Written
  <2>5. \A e \in Written(r) : snap[r][e.field] = NoField => e \in elements
    <3>1. CASE Heals(r)
      BY <1>1, <2>3, <3>1, HealedColumns
    <3>2. QED BY <2>4, <3>1
  <2>6. snap[b] \in Schema /\ snap[r] \in Schema
    BY <1>1, <2>2 DEF Types
  <2>7. /\ snap[b][f] \in Shape \union {NoField}
        /\ snap[r][f] \in Shape \union {NoField}
    BY <2>6 DEF Schema
  <2>8. ASSUME snap[b] # NoTable
        PROVE  /\ known[b] = o /\ PreviousObject(r)
               /\ IF snap[b][f] # NoField THEN Accounted(b, f) ELSE AccountedRemoval(b, f)
    <3>1. known[b] \in objects
      <4>1. HasObject(b) /\ pc[b] = "committed"
        BY <2>2 DEF AccountInv, RunAccount, Completed, Committed
      <4>2. QED BY <2>8, <4>1 DEF HasObject
    <3>2. known[b] = o
      BY <2>1, <3>1, SerialTables
    <3>3. PreviousObject(r)
      BY <2>2, <2>8, <3>2 DEF PreviousObject, FirstDiscovery
    <3>4. IF snap[b][f] # NoField THEN Accounted(b, f) ELSE AccountedRemoval(b, f)
      BY <2>2, <2>8 DEF AccountInv, DriftAccounted
    <3>5. QED BY <3>2, <3>3, <3>4
  <2>9. CASE snap[r][f] # NoField /\ Heals(r)
    <3>1. \E e \in Written(r) : Matches(e, o, f, snap[r])
      BY <1>1, <2>3, <2>9, HealedColumns
    <3>2. QED BY <1>4, <2>9, <3>1
  <2>10. CASE snap[r][f] # NoField /\ ~Heals(r)
    <3>1. PreviousObject(r) /\ \A e \in Events(r) : e[2] \in Critical
      BY <2>10 DEF Heals, HasInformative
    <3>2. snap[b] # NoTable
      BY <2>2, <3>1 DEF PreviousObject, FirstDiscovery
    <3>3. CASE FieldChange(snap[b][f], snap[r][f]) = {}
      <4>1. /\ snap[b][f] # NoField /\ snap[b][f].type = snap[r][f].type
            /\ snap[b][f].nullable = snap[r][f].nullable
        BY <2>7, <2>10, <3>3, NoChangeNoDifference
      <4>2. known[b] = o /\ Accounted(b, f)
        BY <2>8, <3>2, <4>1
      <4>3. \/ \E e \in elements : Matches(e, o, f, snap[r])
            \/ \E a \in approvals : a.object = o /\ a.field = f
        BY <4>1, <4>2 DEF Accounted, Matches
      <4>4. QED BY <1>1, <1>4, <1>5, <2>4, <2>10, <4>3
    <3>4. CASE FieldChange(snap[b][f], snap[r][f]) # {}
      <4>1. PICK c \in FieldChange(snap[b][f], snap[r][f]) : TRUE
        BY <3>4
      <4>2. <<f, c>> \in Events(r)
        BY <3>1 DEF Events, Diff
      <4>3. c \in Critical
        BY <3>1, <4>2
      <4>4. \E a \in NewApprovals(r) : a.object = o /\ a.field = f
        BY <3>1, <4>1, <4>3, CriticalIsStored
      <4>5. QED BY <1>1, <1>5, <2>10, <4>4
    <3>5. QED BY <3>3, <3>4
  <2>11. CASE snap[r][f] = NoField /\ snap[b] = NoTable
    BY <1>1, <1>3, <2>2, <2>11 DEF AccountedRemoval
  <2>12. CASE snap[r][f] = NoField /\ snap[b] # NoTable /\ snap[b][f] # NoField
    <3>1. PreviousObject(r)
      BY <2>8, <2>12
    <3>2. "field_removed" \in FieldChange(snap[b][f], snap[r][f]) /\ "field_removed" \in Critical
      BY <2>12 DEF FieldChange, Critical
    <3>3. \E a \in NewApprovals(r) : a.object = o /\ a.field = f
      BY <3>1, <3>2, CriticalIsStored
    <3>4. QED BY <1>1, <1>5, <2>12, <3>3
  <2>13. CASE snap[r][f] = NoField /\ snap[b] # NoTable /\ snap[b][f] = NoField
    <3>1. known[b] = o /\ AccountedRemoval(b, f)
      BY <2>8, <2>13
    <3>2. CASE \A e \in elements : e.field # f
      <4>1. \A e \in Written(r) : e.field # f
        BY <2>5, <2>13, <3>2
      <4>2. QED BY <1>6, <2>13, <4>1
    <3>3. CASE \E a \in approvals : a.object = known[b] /\ a.field = f
      BY <1>1, <1>5, <2>13, <3>1, <3>3
    <3>4. CASE \E q \in Completed : snap[q] = NoTable
      BY <1>1, <1>3, <2>13, <3>4 DEF AccountedRemoval
    <3>5. QED BY <3>1, <3>2, <3>3, <3>4 DEF AccountedRemoval
  <2>14. QED BY <2>9, <2>10, <2>11, <2>12, <2>13
<1>9. QED BY <1>7, <1>8

(* The run that commits is the latest from then on, unless it overlapped.  *)
LEMMA CommitAccounts ==
  ASSUME TableInv, DecisionInv, OrderInv, AccountInv, NEW r \in Run, Commit(r)
  PROVE  AccountInv'
<1>1. /\ Types /\ r \in Transaction /\ pc[r] = "commit" /\ r \notin Committed
      /\ approvals' = approvals \union NewApprovals(r)
      /\ UNCHANGED <<seen, known, snap, base, at, request>>
      /\ pc' = [pc EXCEPT ![r] = "committed"] /\ pc'[r] = "committed" /\ RunAccount(r)
      /\ writes' = [writes EXCEPT ![r] = {}]
      /\ objects' = IF known[r] = r THEN objects \union {r} ELSE objects
  BY Transactions DEF TableInv, Types, Commit, runVars, Committed, AccountInv
<1>2. /\ \A q \in Run \ {r} : RunAccount(q)'
      /\ \A d \in Decider : DeciderAccount(d)'
      /\ Serial' => Serial /\ Alone(r)
      /\ Outdated => Outdated'
  BY <1>1, OthersAfterCommit
<1>3. RunAccount(r)'
  <2>1. StampedLater(r)'
    BY <1>1 DEF RunAccount, StampedLater
  <2>2. HasObject(r)'
    BY <1>1 DEF HasObject, TableInv, KnownExists, SnapsHaveObjects
  <2>3. QED BY <1>1, <2>1, <2>2 DEF RunAccount, ProvisionedOnly, ComparedWithLatest,
                HealedAsCompared
<1>4. ApprovalsNameObjects'
  <2>1. \A a \in NewApprovals(r) : a.run = r /\ a.object = known[r]
    BY <1>1, StoredApprovals DEF TableInv, SnapsHaveObjects
  <2>2. QED BY <1>1, <2>1 DEF AccountInv, ApprovalsNameObjects
<1>5. DriftAccounted'
  <2> SUFFICES ASSUME Serial', ~Outdated', NEW x \in Latest', snap[x] # NoTable, NEW f \in Field
               PROVE  IF snap[x][f] # NoField THEN Accounted(x, f)' ELSE AccountedRemoval(x, f)'
    BY <1>1 DEF DriftAccounted
  <2>1. Serial /\ Alone(r) /\ ~Outdated
    BY <1>2
  <2>2. Committed' = Committed \union {r} /\ Completed' = Completed \union {r}
    <3>1. Committed' = Committed \union {r}
      BY <1>1, Committing
    <3>2. QED BY <3>1 DEF Completed
  <2>3. x = r
    <3>1. x \in Completed' /\ at[r] <= at[x]
      BY <1>1, <2>2 DEF Latest
    <3>2. ASSUME x \in Completed PROVE FALSE
      <4>1. x \in seen[r] \intersect Run
        BY <2>1, <3>2 DEF Alone, Completed
      <4>2. at[x] < at[r] /\ at[x] \in Nat /\ at[r] \in Nat
        BY <1>1, <4>1 DEF RunAccount, StampedLater, OrderInv
      <4>3. QED BY <3>1, <4>2
    <3>3. QED BY <2>2, <3>1, <3>2
  <2>4. QED BY <2>1, <2>3, CommitAccountsFor
<1>6. \A q \in Run : RunAccount(q)'
  BY <1>2, <1>3
<1>7. QED BY <1>2, <1>4, <1>5, <1>6 DEF AccountInv

(* An approval that is not outdated applies the latest snapshot.           *)
LEMMA DecideAccounts ==
  ASSUME TableInv, DecisionInv, OrderInv, AccountInv, NEW d \in Decider, Decide(d)
  PROVE  AccountInv'
<1>1. /\ Types /\ d \in Transaction /\ d \notin Run /\ pc[d] = "applied" /\ d \notin Committed
      /\ elements' = Written(d) /\ objects' = objects
      /\ approvals' = {a \in approvals : \A b \in request[d] : ~SameApproval(a, b)}
                        \union request[d]
      /\ UNCHANGED <<seen, known, snap, base, at, request>>
      /\ pc' = [pc EXCEPT ![d] = "committed"] /\ DeciderAccount(d)
      /\ writes' = [writes EXCEPT ![d] = {}]
  BY Transactions DEF TableInv, Types, Decide, runVars, Committed, AccountInv
<1>2. /\ \A q \in Run \ {d} : RunAccount(q)'
      /\ \A c \in Decider : DeciderAccount(c)'
      /\ Serial' => Serial /\ Alone(d)
      /\ Outdated => Outdated'
  BY <1>1, OthersAfterCommit
<1>3. /\ \A a \in approvals' : \E b \in approvals : SameApproval(a, b)
      /\ \A a \in approvals : \E b \in approvals' : SameApproval(a, b)
  <2>1. \A a \in request[d] : \E b \in approvals : SameApproval(a, b)
    BY DEF DecisionInv, RequestsAreApprovals, SameApproval
  <2>2. QED BY <1>1, <2>1 DEF SameApproval
<1>4. ApprovalsNameObjects'
  BY <1>1, <1>3 DEF AccountInv, ApprovalsNameObjects, SameApproval
<1>5. Committed' = Committed \union {d} /\ Completed' = Completed
  <2>1. Committed' = Committed \union {d}
    BY <1>1, Committing
  <2>2. QED BY <1>1, <2>1 DEF Completed
<1>6. DriftAccounted'
  <2>0. Latest' = Latest
    BY <1>1, <1>5 DEF Latest
  <2> SUFFICES ASSUME Serial', ~Outdated', NEW r \in Latest, snap[r] # NoTable, NEW f \in Field
               PROVE  IF snap[r][f] # NoField THEN Accounted(r, f)' ELSE AccountedRemoval(r, f)'
    BY <1>1, <2>0 DEF DriftAccounted
  <2>1. /\ Serial /\ Alone(d) /\ r \in Completed
        /\ IF snap[r][f] # NoField THEN Accounted(r, f) ELSE AccountedRemoval(r, f)
    BY <1>2 DEF AccountInv, DriftAccounted, Latest
  <2>2. (\E a \in approvals : a.object = known[r] /\ a.field = f)
          => Accounted(r, f)' /\ AccountedRemoval(r, f)'
    BY <1>1, <1>3 DEF Accounted, AccountedRemoval, SameApproval
  <2>3. PICK a \in request[d] :
          \/ a.decision = "rejected" /\ writes[d] = {}
          \/ a.decision = "approved" /\ \E kept \in ByName(a.object) :
               writes[d] = Healing(kept, a.object, d, snap[a.run])
    BY <1>1, <2>1 DEF DeciderAccount
  <2>4. CASE a.decision = "rejected" /\ writes[d] = {}
    <3>1. elements' = elements
      BY <1>1, <2>4 DEF Written
    <3>2. Accounted(r, f) => Accounted(r, f)'
      BY <1>1, <2>2, <3>1 DEF Accounted
    <3>3. AccountedRemoval(r, f) => AccountedRemoval(r, f)'
      BY <1>1, <1>5, <2>2, <3>1 DEF AccountedRemoval
    <3>4. QED BY <2>1, <3>2, <3>3
  <2>5. CASE a.decision = "approved" /\ \E kept \in ByName(a.object) :
               writes[d] = Healing(kept, a.object, d, snap[a.run])
    <3>1. a.run \in Completed /\ a.run \in Run
      BY <1>1, RequestedRuns DEF Completed
    <3>2. a.run = r
      <4>1. ~(at[r] > at[a.run])
        <5>1. r \in seen[d] \intersect Run /\ d \in Decider \intersect Committed'
          BY <1>5, <2>1 DEF Alone, Completed
        <5>2. QED BY <1>1, <2>5, <5>1 DEF Outdated
      <4>2. at[a.run] <= at[r] /\ at[r] \in Nat /\ at[a.run] \in Nat
        BY <2>1, <3>1 DEF Latest, Completed, OrderInv
      <4>3. at[a.run] = at[r]
        BY <4>1, <4>2
      <4>4. QED BY <2>1, <3>1, <4>3, StampsDiffer
    <3>3. a.object = known[r]
      <4>1. \E b \in approvals : SameApproval(a, b)
        BY <1>1, <1>3
      <4>2. QED BY <3>2, <4>1 DEF AccountInv, ApprovalsNameObjects, SameApproval
    <3>4. writes[d] = Healing({e \in elements : e.object = known[r]}, known[r], d, snap[r])
      BY <2>1, <2>5, <3>2, <3>3, SerialTables
    <3>5. /\ snap[r][f] # NoField => \E e \in Written(d) : Matches(e, known[r], f, snap[r])
          /\ \A e \in Written(d) : snap[r][e.field] = NoField => e \in elements
      BY <1>1, <3>4, HealedColumns
    <3>6. CASE snap[r][f] # NoField
      BY <1>1, <3>5, <3>6 DEF Accounted, Matches
    <3>7. CASE snap[r][f] = NoField
      <4>1. (\A e \in elements : e.field # f) => \A e \in Written(d) : e.field # f
        BY <3>5, <3>7
      <4>2. AccountedRemoval(r, f)'
        BY <1>1, <1>5, <2>1, <2>2, <3>7, <4>1 DEF AccountedRemoval
      <4>3. QED BY <3>7, <4>2
    <3>8. QED BY <3>6, <3>7
  <2>6. QED BY <2>3, <2>4, <2>5
<1>7. \A q \in Run : RunAccount(q)'
  BY <1>1, <1>2
<1>8. QED BY <1>2, <1>4, <1>6, <1>7 DEF AccountInv

(* Every step.                                                             *)
LEMMA AccountStep ==
  TableInv /\ DecisionInv /\ OrderInv /\ AccountInv /\ [Next]_vars => AccountInv'
<1> SUFFICES ASSUME TableInv, DecisionInv, OrderInv, AccountInv, [Next]_vars PROVE AccountInv'
  OBVIOUS
<1>0. Types /\ Run \subseteq Transaction /\ Decider \subseteq Transaction
  BY Transactions DEF TableInv
<1>1. ASSUME UNCHANGED <<pc, seen, runVars, request, writes, tableVars>> PROVE AccountInv'
  <2>1. /\ UNCHANGED <<pc, seen, known, snap, base, at, request, writes>>
        /\ UNCHANGED <<elements, objects, approvals>>
    BY <1>1 DEF runVars, tableVars
  <2>2. Latest' = Latest /\ Committed' = Committed /\ Completed' = Completed
    BY <2>1 DEF Latest, Completed, Committed
  <2>3. \A r \in Run : RunAccount(r)'
    <3> TAKE r \in Run
    <3>1. Heals(r)' <=> Heals(r)
      BY <2>1, HealsStays
    <3>2. \A o : ByName(o)' = ByName(o)
      BY <2>1 DEF ByName
    <3>3. StampedLater(r)' /\ HasObject(r)' /\ ProvisionedOnly(r)'
      BY <2>1 DEF AccountInv, RunAccount, StampedLater, HasObject, ProvisionedOnly
    <3>4. ComparedWithLatest(r)'
      BY <2>1, <2>2 DEF AccountInv, RunAccount, ComparedWithLatest, Alone
    <3>5. HealedAsCompared(r)'
      BY <2>1, <2>2, <3>1, <3>2 DEF AccountInv, RunAccount, HealedAsCompared, Alone
    <3>6. QED BY <3>3, <3>4, <3>5 DEF RunAccount
  <2>4. \A d \in Decider : DeciderAccount(d)'
    BY <2>1, <2>2 DEF AccountInv, DeciderAccount, Alone, ByName
  <2>5. ApprovalsNameObjects'
    BY <2>1 DEF AccountInv, ApprovalsNameObjects
  <2>6. DriftAccounted'
    BY <2>1, <2>2 DEF AccountInv, DriftAccounted, Accounted, AccountedRemoval, Serial, Outdated,
         Overlap
  <2>7. QED BY <2>3, <2>4, <2>5, <2>6 DEF AccountInv
<1>2. ASSUME NEW t \in Transaction, NEW p \in {"failed", "lost"}, Forget(t),
             pc' = [pc EXCEPT ![t] = p], pc[t] # "committed"
      PROVE  AccountInv'
  BY <1>0, <1>2, ForgetIsOwn, AccountRests
<1>3. ASSUME NEW r \in Run, Discover(r) PROVE AccountInv'
  <2>1. CASE ExtractFails(r) \/ RefusedHealing(r)
    BY <1>0, <1>2, <2>1 DEF ExtractFails, RefusedHealing
  <2>2. CASE Begin(r)
    BY <2>2, BeginAccounts
  <2>3. CASE Extract(r)
    BY <2>3, ExtractAccounts
  <2>4. CASE Compare(r)
    BY <2>4, CompareAccounts
  <2>5. CASE Heal(r)
    BY <2>5, HealAccounts
  <2>6. CASE Commit(r)
    BY <2>6, CommitAccounts
  <2>7. QED BY <1>3, <2>1, <2>2, <2>3, <2>4, <2>5, <2>6 DEF Discover
<1>4. ASSUME NEW d \in Decider, DecideApproval(d) PROVE AccountInv'
  <2>1. CASE Apply(d)
    BY <2>1, ApplyAccounts
  <2>2. CASE RefusedApproval(d)
    BY <1>0, <1>2, <2>2 DEF RefusedApproval
  <2>3. CASE Decide(d)
    BY <2>3, DecideAccounts
  <2>4. QED BY <1>4, <2>1, <2>2, <2>3, LoadAccounts DEF DecideApproval
<1>5. ASSUME NEW t \in Transaction, Abort(t) PROVE AccountInv'
  BY <1>2, <1>5 DEF Abort
<1>6. ASSUME NEW f \in Field, NEW shape \in Shape \union {NoField}, Alter(f, shape)
      PROVE  AccountInv'
  BY <1>1, <1>6 DEF Alter
<1>7. CASE UNCHANGED vars
  BY <1>1, <1>7 DEF vars
<1>8. QED BY <1>3, <1>4, <1>5, <1>6, <1>7 DEF Next, Finished

(* DriftAccounted: without overlaps and outdated decisions, a column whose *)
(* element is not what the latest discovery saw has an approval, and so    *)
(* has a column that the source dropped, whatever was healed, applied,     *)
(* rejected, refused or rolled back before (RunDiscoveryUseCase,           *)
(* DataObjectService and ApproveDriftUseCase).                             *)
THEOREM DriftIsAccounted == Spec => []DriftAccounted
<1>1. Spec => [](TableInv /\ DecisionInv /\ OrderInv /\ AccountInv)
  BY InitTables, InitDecisions, OrderStart, AccountStarts, TableStep, DecisionStep, OrderStep,
     AccountStep, PTL DEF Spec
<1>2. AccountInv => DriftAccounted
  BY DEF AccountInv
<1>3. QED BY <1>1, <1>2, PTL

-----------------------------------------------------------------------------
(* The discovery runners.                                                  *)

(* The only member of a set of one.                                        *)
LEMMA OnlyOfOne == \A x : Only({x}) = x
  BY DEF Only

(* There are few kinds of value.                                           *)
LEMMA ValuesAreFinite == \A S \in SUBSET Values : IsFiniteSet(S)
<1>1. IsFiniteSet({"int"})
  BY FS_Singleton
<1>2. IsFiniteSet({"int", "long"})
  <2>1. {"int", "long"} = {"int"} \cup {"long"}
    OBVIOUS
  <2>2. QED BY <1>1, <2>1, FS_AddElement
<1>3. IsFiniteSet({"int", "long", "text"})
  <2>1. {"int", "long", "text"} = {"int", "long"} \cup {"text"}
    OBVIOUS
  <2>2. QED BY <1>2, <2>1, FS_AddElement
<1>4. IsFiniteSet({"int", "long", "text", "timestamp"})
  <2>1. {"int", "long", "text", "timestamp"} = {"int", "long", "text"} \cup {"timestamp"}
    OBVIOUS
  <2>2. QED BY <1>3, <2>1, FS_AddElement
<1>5. IsFiniteSet({"int", "long", "text", "timestamp", "decimal"})
  <2>1. {"int", "long", "text", "timestamp", "decimal"}
          = {"int", "long", "text", "timestamp"} \cup {"decimal"}
    OBVIOUS
  <2>2. QED BY <1>4, <2>1, FS_AddElement
<1>6. IsFiniteSet(Logical)
  <2>1. Logical = {"int", "long", "text", "timestamp", "decimal"} \cup {"document"}
    BY DEF Logical
  <2>2. QED BY <1>5, <2>1, FS_AddElement
<1>7. IsFiniteSet(Logical \cup {"absent"})
  BY <1>6, FS_AddElement
<1>8. IsFiniteSet(Values)
  <2>1. Values = (Logical \cup {"absent"}) \cup {"null"}
    BY DEF Values
  <2>2. QED BY <1>7, <2>1, FS_AddElement
<1>9. QED BY <1>8, FS_Subset

(* At most one kind of value: none at all, or exactly one.                 *)
LEMMA NoneOrOne ==
  ASSUME NEW S \in SUBSET Values, ~(Cardinality(S) > 1)
  PROVE  S = {} \/ \E v \in S : S = {v}
<1>1. IsFiniteSet(S)
  BY ValuesAreFinite
<1>2. Cardinality(S) \in Nat
  BY <1>1, FS_CardinalityType
<1>3. Cardinality(S) = 0 \/ Cardinality(S) = 1
  BY <1>2
<1>4. CASE Cardinality(S) = 0
  BY <1>1, <1>4, FS_EmptySet
<1>5. CASE Cardinality(S) = 1
  <2>1. \E x : S = {x}
    BY <1>1, <1>5, FS_Singleton
  <2>2. QED BY <2>1
<1>6. QED BY <1>3, <1>4, <1>5

(* A set that counts one has its only member.                              *)
LEMMA OneHasOne == \A S : Cardinality(S) = 1 => Only(S) \in S
<1> SUFFICES ASSUME NEW S, Cardinality(S) = 1 PROVE Only(S) \in S
  OBVIOUS
<1>1. S # {}
  BY FS_EmptySet
<1>2. QED BY <1>1 DEF Only

(* A value that is there always gets a type from a sampler.                *)
LEMMA SampledTypes ==
  \A v \in Values \ {"absent"} : Bson[v] # Bare /\ Payload[v] # Bare
<1> SUFFICES ASSUME NEW v \in Values \ {"absent"} PROVE Bson[v] # Bare /\ Payload[v] # Bare
  OBVIOUS
<1> DEFINE Known == {"int", "long", "text", "timestamp", "decimal", "document", "null"}
<1>1. v \in Known
  BY DEF Values, Logical
<1>2. Bson[v] \in {"integer", "string", "json"}
  BY <1>1 DEF Bson
<1>3. DOMAIN Bson = Known
  BY DEF Bson
<1>4. Payload[v] \in {"integer", "string", "json", "float"}
  BY <1>1, <1>2, <1>3 DEF Payload
<1>5. QED BY <1>2, <1>4 DEF Bare

(* A collection's column is bare only where a document lacks it, and a     *)
(* sample of one kind decides its type.                                    *)
LEMMA MongoTypes ==
  ASSUME NEW S \in SUBSET Values
  PROVE  /\ Bare \in MongoSample(S) => S \subseteq {"absent"} \/ "absent" \in S
         /\ ~(Cardinality(S) > 1) => \A t, u \in MongoSample(S) : t = u
<1>1. ASSUME Bare \in MongoSample(S), S # {} PROVE "absent" \in S
  <2>1. PICK T \in (SUBSET S) \ {{}} :
           Bare = (CASE T \ {"absent"} = {} -> Bare
                     [] Cardinality(T \ {"absent"}) = 1 -> Bson[Only(T \ {"absent"})]
                     [] OTHER -> "string")
    BY <1>1 DEF MongoSample
  <2>2. CASE T \ {"absent"} = {}
    BY <2>2
  <2>3. CASE T \ {"absent"} # {} /\ Cardinality(T \ {"absent"}) = 1
    <3>1. T \ {"absent"} \in SUBSET Values
      OBVIOUS
    <3>2. Only(T \ {"absent"}) \in Values \ {"absent"}
      BY <2>3, <3>1, OneHasOne
    <3>3. Bare = Bson[Only(T \ {"absent"})]
      BY <2>1, <2>3
    <3>4. QED BY <3>2, <3>3, SampledTypes
  <2>4. CASE T \ {"absent"} # {} /\ Cardinality(T \ {"absent"}) # 1
    <3>1. Bare = "string"
      BY <2>1, <2>4
    <3>2. QED BY <3>1 DEF Bare
  <2>5. QED BY <2>2, <2>3, <2>4
<1>2. ASSUME ~(Cardinality(S) > 1), NEW t \in MongoSample(S), NEW u \in MongoSample(S)
      PROVE  t = u
  <2>1. CASE S = {}
    BY <2>1 DEF MongoSample
  <2>2. CASE \E v \in S : S = {v}
    <3>1. (SUBSET S) \ {{}} = {S} /\ S # {}
      BY <2>2
    <3>2. QED BY <3>1 DEF MongoSample
  <2>3. QED BY <1>2, <2>1, <2>2, NoneOrOne
<1>3. QED BY <1>1, <1>2

(* The same of a REST payload.                                             *)
LEMMA PayloadTypes ==
  ASSUME NEW S \in SUBSET Values
  PROVE  /\ Bare \in PayloadSample(S) => S \subseteq {"absent"} \/ "absent" \in S
         /\ ~(Cardinality(S) > 1) => \A t, u \in PayloadSample(S) : t = u
<1>1. ASSUME Bare \in PayloadSample(S), S # {} PROVE "absent" \in S
  <2>1. \A v \in Values \ {"absent"} : Payload[v] # Bare
    BY SampledTypes
  <2>2. PICK v \in S : Bare = IF v = "absent" THEN Bare ELSE Payload[v]
    BY <1>1 DEF PayloadSample
  <2>3. QED BY <2>1, <2>2
<1>2. ASSUME ~(Cardinality(S) > 1), NEW t \in PayloadSample(S), NEW u \in PayloadSample(S)
      PROVE  t = u
  <2>1. CASE S = {}
    BY <2>1 DEF PayloadSample
  <2>2. CASE \E v \in S : S = {v}
    BY <2>2 DEF PayloadSample
  <2>3. QED BY <1>2, <2>1, <2>2, NoneOrOne
<1>3. QED BY <1>1, <1>2

(* A declared type is always translated.                                   *)
LEMMA DeclaredTypes ==
  \A l \in Logical : Relational[l] # Bare /\ Validator[l] # Bare
<1> SUFFICES ASSUME NEW l \in Logical PROVE Relational[l] # Bare /\ Validator[l] # Bare
  OBVIOUS
<1>1. Relational[l] \in {"integer", "bigint", "string", "datetime", "float", "json"}
  BY DEF Logical, Relational
<1>2. DOMAIN Relational = Logical
  BY DEF Logical, Relational
<1>3. Validator[l] \in {"integer", "bigint", "string", "timestamp", "datetime", "float",
                      "decimal", "json"}
  BY <1>1, <1>2 DEF Validator
<1>4. QED BY <1>1, <1>3 DEF Bare

(* A file's column is bare only where no row has it.                       *)
LEMMA FileTypes ==
  ASSUME NEW S \in SUBSET Values,
         NEW form \in {"parquet", "csv", "json"},
         form = "parquet" => \E l \in Logical : S = {l},
         FileColumn(form, S) = Bare
  PROVE  S \subseteq {"absent"}
<1> DEFINE cells == S \ {"absent", "null"}
           map == IF form = "csv" THEN CsvCell ELSE JsonCell
           types == {map[c] : c \in cells}
<1>1. CASE form = "parquet"
  <2>1. PICK l \in Logical : S = {l}
    BY <1>1
  <2>2. FileColumn(form, S) = Parquet[l]
    BY <1>1, <2>1, OnlyOfOne DEF FileColumn
  <2>3. QED BY <2>2, DeclaredTypes DEF Parquet
<1>2. CASE form # "parquet" /\ ~(S \subseteq {"absent"})
  <2>1. Bare \notin types
    <3>1. \A l \in Logical : CsvCell[l] # Bare
      BY DEF Logical, CsvCell, Bare
    <3>2. \A l \in Logical : JsonCell[l] # Bare
      BY DEF Logical, CsvCell, JsonCell, Bare
    <3>3. cells \subseteq Logical
      BY DEF Values
    <3>4. QED BY <3>1, <3>2, <3>3
  <2>2. FileColumn(form, S) =
          IF Cardinality(types) = 1 THEN Only(types)
          ELSE IF types = {"bigint", "float"} THEN "float"
          ELSE IF form = "csv" THEN "string" ELSE "json"
    BY <1>2 DEF FileColumn
  <2>3. Cardinality(types) = 1 => Only(types) \in types
    BY OneHasOne
  <2> HIDE DEF types
  <2>4. QED BY <2>1, <2>2, <2>3 DEF Bare
<1>3. QED BY <1>1, <1>2

-----------------------------------------------------------------------------
(* A declared column has one kind.                                         *)
OneKind(c) == \E l \in Logical : c.kinds = {l}

(* What an object that the source can hold looks like.                     *)
LEMMA ContentsShape ==
  ASSUME kind \in DOMAIN Contents, NEW o \in Object, NEW c \in Possible(o)
  PROVE  /\ c.kinds \in SUBSET Values
         /\ kind = "database" /\ c.place = "schema" => OneKind(c)
         /\ c.form \in {"validated", "documented", "parquet"} => OneKind(c) /\ c.place = "schema"
         /\ kind = "file_system" => c.form \in {"none", "other", "parquet", "csv", "json"}
<1>1. c = Gone \/ c \in Contents[kind]
  BY DEF Possible
<1>2. CASE c = Gone
  BY <1>2 DEF Gone
<1>3. \A l \in Logical : {l} \in SUBSET Values
  BY DEF Values
<1>4. kind \in {"database", "mongodb", "rest_api", "file_system"}
  BY DEF Contents
<1>5. CASE kind = "database" /\ c \in Contents[kind]
  <2>1. c \in [place : {"schema", "default"}, form : {"table"}, kinds : {{l} : l \in Logical}]
    BY <1>5 DEF Contents
  <2>2. QED BY <1>3, <1>5, <2>1 DEF OneKind
<1>6. CASE kind = "mongodb" /\ c \in Contents[kind]
  <2>1. \/ c \in [place : {"schema"}, form : {"validated"}, kinds : {{l} : l \in Logical}]
        \/ c \in [place : {"schema"}, form : {"documents"}, kinds : SUBSET Values]
    BY <1>6 DEF Contents
  <2>2. QED BY <1>3, <1>6, <2>1 DEF OneKind
<1>7. CASE kind = "rest_api" /\ c \in Contents[kind]
  <2>1. \/ c \in [place : {"schema"}, form : {"documented"}, kinds : {{l} : l \in Logical}]
        \/ c \in [place : {"schema"}, form : {"undocumented"}, kinds : SUBSET Values]
    BY <1>7 DEF Contents
  <2>2. QED BY <1>3, <1>7, <2>1 DEF OneKind
<1>8. CASE kind = "file_system" /\ c \in Contents[kind]
  <2>1. \/ c \in [place : {"schema"}, form : {"parquet"}, kinds : {{l} : l \in Logical}]
        \/ c \in [place : {"schema"}, form : {"csv", "json"}, kinds : SUBSET Values]
        \/ c \in [place : {"schema"}, form : {"other"}, kinds : {{}}]
    BY <1>8 DEF Contents
  <2>2. QED BY <1>3, <1>8, <2>1 DEF OneKind
<1>9. QED BY <1>1, <1>2, <1>4, <1>5, <1>6, <1>7, <1>8

(* A database's columns are never typed by a document.                     *)
LEMMA ContentsForms ==
  \A o \in Object : \A c \in Possible(o) :
     c.form = "documented" => kind # "database"
<1> SUFFICES ASSUME NEW o \in Object, NEW c \in Possible(o), c.form = "documented",
                    kind = "database"
             PROVE  FALSE
  OBVIOUS
<1>1. c # Gone
  BY DEF Gone
<1>2. c \in [place : {"schema", "default"}, form : {"table"}, kinds : {{l} : l \in Logical}]
  BY <1>1 DEF Possible, Contents
<1>3. QED BY <1>2

(* The type that reading a declaration gives.                              *)
DeclaredType(c) ==
  IF c.place # "schema" THEN Bare
  ELSE IF kind = "database" THEN Relational[Only(c.kinds)] ELSE Validator[Only(c.kinds)]

(* The snapshot s is what its method reads from the contents c.            *)
ReadFrom(s, c) ==
  /\ s.origin = c
  /\ \/ /\ s.method = "declared" /\ s.type = DeclaredType(c)
        /\ c.place = "schema" => OneKind(c)
     \/ /\ s.method = "sampled" /\ kind = "mongodb"
        /\ s.type \in MongoSample(c.kinds)
     \/ /\ s.method = "sampled" /\ kind = "rest_api"
        /\ s.type \in PayloadSample(c.kinds)
     \/ /\ s.method = "first rows" /\ s.type = FileColumn(c.form, c.kinds)
        /\ kind = "file_system" /\ c.form \in {"parquet", "csv", "json"}

(* A snapshot was read from something that the object held.                *)
IsReading(s, o) == s = Unseen \/ \E c \in Possible(o) : ReadFrom(s, c)

(* Every snapshot, and every stored one, is a reading.                     *)
ScanInv ==
  /\ kind \in DOMAIN Contents
  /\ DOMAIN held = Object /\ DOMAIN now = Object
  /\ \A o \in Object : {held[o], listing[o]} \subseteq Possible(o)
  /\ todo \subseteq Object
  /\ \A o \in Object : IsReading(now[o], o) /\ IsReading(last[o], o)

(* What differs between two readings is what the property asks.            *)
LEMMA ScanInvImplies == ScanInv => DriftHasAReason
<1> SUFFICES ASSUME ScanInv, NEW o \in Object
             PROVE  LET before == last[o]
                        after == now[o]
                        several == Cardinality(after.origin.kinds) > 1
                        columnless == \/ after.origin.kinds \subseteq {"absent"}
                                      \/ "absent" \in after.origin.kinds /\ after.method = "sampled"
                                      \/ after.origin.place # "schema"
                    IN  /\ before # Unseen /\ after # Unseen /\ before.type # after.type =>
                             \/ before.origin # after.origin
                             \/ before.method # after.method
                             \/ after.method = "sampled" /\ several
                        /\ after.type = Bare => columnless
  BY DEF DriftHasAReason
<1> DEFINE after == now[o]
           before == last[o]
<1>1. CASE after = Unseen
  <2>1. after.type = "unseen"
    BY <1>1 DEF Unseen, Snap
  <2>2. QED BY <1>1, <2>1 DEF Bare
<1>2. CASE after # Unseen
  <2>1. PICK c \in Possible(o) : ReadFrom(after, c)
    BY <1>2 DEF ScanInv, IsReading
  <2>2. after.origin = c
    BY <2>1 DEF ReadFrom
  <2>3. /\ c.kinds \in SUBSET Values
        /\ c.form = "parquet" => OneKind(c)
    BY ContentsShape DEF ScanInv
  <2> HIDE DEF after, before
  <2>4. ASSUME after.type = Bare
        PROVE  \/ c.kinds \subseteq {"absent"}
               \/ "absent" \in c.kinds /\ after.method = "sampled"
               \/ c.place # "schema"
    <3>1. CASE after.type = DeclaredType(c) /\ c.place = "schema" /\ OneKind(c)
      <4>1. PICK l \in Logical : c.kinds = {l}
        BY <3>1 DEF OneKind
      <4>2. DeclaredType(c) \in {Relational[l], Validator[l]}
        BY <3>1, <4>1, OnlyOfOne DEF DeclaredType
      <4>3. QED BY <2>4, <3>1, <4>2, DeclaredTypes
    <3>2. CASE /\ after.method = "sampled"
               /\ after.type \in MongoSample(c.kinds) \/ after.type \in PayloadSample(c.kinds)
      BY <2>3, <2>4, <3>2, MongoTypes, PayloadTypes
    <3>3. CASE after.type = FileColumn(c.form, c.kinds) /\ c.form \in {"parquet", "csv", "json"}
      BY <2>3, <2>4, <3>3, FileTypes DEF OneKind
    <3>4. QED BY <2>1, <3>1, <3>2, <3>3 DEF ReadFrom
  <2>5. ASSUME before # Unseen, before.origin = c, before.method = after.method,
               ~(after.method = "sampled" /\ Cardinality(c.kinds) > 1)
        PROVE  before.type = after.type
    <3>1. PICK d \in Possible(o) : ReadFrom(before, d)
      BY <2>5 DEF ScanInv, IsReading, before
    <3>2. ReadFrom(before, c)
      BY <2>5, <3>1 DEF ReadFrom
    <3>3. CASE after.method # "sampled"
      BY <2>1, <2>5, <3>2, <3>3 DEF ReadFrom
    <3>4. CASE after.method = "sampled"
      <4>1. ~(Cardinality(c.kinds) > 1)
        BY <2>5, <3>4
      <4>2. \/ {after.type, before.type} \subseteq MongoSample(c.kinds)
            \/ {after.type, before.type} \subseteq PayloadSample(c.kinds)
        BY <2>1, <2>5, <3>2, <3>4 DEF ReadFrom
      <4>3. QED BY <2>3, <4>1, <4>2, MongoTypes, PayloadTypes
    <3>5. QED BY <3>3, <3>4
  <2>6. QED BY <1>2, <2>2, <2>4, <2>5 DEF after, before
<1>3. QED BY <1>1, <1>2

(* No scan has recorded anything.                                          *)
LEMMA ScanStarts == ScanInit => ScanInv
  BY DEF ScanInit, ScanInv, IsReading, Possible

(* The reading of an object depends on its contents and the kind alone.    *)
LEMMA ReadingsStay ==
  ASSUME ScanInv, kind' = kind,
         DOMAIN held' = Object, DOMAIN now' = Object, todo' \subseteq Object,
         \A o \in Object : {held'[o], listing'[o]} \subseteq Possible(o),
         \A o \in Object : IsReading(now'[o], o) /\ IsReading(last'[o], o)
  PROVE  ScanInv'
<1>1. \A o : Possible(o)' = Possible(o)
  BY DEF Possible
<1>2. \A c : DeclaredType(c)' = DeclaredType(c)
  BY DEF DeclaredType
<1>3. ASSUME NEW s, NEW c PROVE ReadFrom(s, c)' <=> ReadFrom(s, c)
  <2>1. MongoSample(c.kinds)' = MongoSample(c.kinds)
    OBVIOUS
  <2>2. QED BY <1>2 DEF ReadFrom
<1>4. QED BY <1>1, <1>3 DEF ScanInv, IsReading

(* A listing is what the source held when it was made.                     *)
LEMMA ListReads == ASSUME ScanInv, List PROVE ScanInv'
<1> PICK answered \in BOOLEAN :
      LET documented == {o \in Object : answered /\ held[o].form = "documented"}
      IN  /\ todo' = CASE kind = "database" -> IF answered THEN Tables ELSE {}
                       [] kind = "mongodb" -> There
                       [] kind = "rest_api" -> Object \ documented
                       [] kind = "file_system" -> IF answered THEN There ELSE {}
          /\ now' = [o \in Object |-> IF o \in documented THEN Described(o) ELSE Unseen]
  BY DEF List
<1>1. todo' \subseteq Object
  <2>1. Tables \subseteq Object /\ There \subseteq Object
    BY DEF Tables, There
  <2>2. kind \in {"database", "mongodb", "rest_api", "file_system"}
    BY DEF ScanInv, Contents
  <2>3. QED BY <2>1, <2>2
<1>2. ASSUME NEW o \in Object PROVE IsReading(now'[o], o)
  <2>1. CASE now'[o] = Unseen
    BY <2>1 DEF IsReading
  <2>2. CASE now'[o] # Unseen
    <3>1. now'[o] = Described(o) /\ held[o].form = "documented"
      BY <2>2
    <3>2. held[o] \in Possible(o) /\ kind \in DOMAIN Contents
      BY DEF ScanInv
    <3>3. OneKind(held[o]) /\ held[o].place = "schema"
      BY <3>1, <3>2, ContentsShape
    <3>4. kind # "database"
      BY <3>1, <3>2, ContentsForms
    <3>5. /\ now'[o].origin = held[o] /\ now'[o].method = "declared"
          /\ now'[o].type = Validator[Only(held[o].kinds)]
      BY <3>1 DEF Described, Snap, OpenApi
    <3>6. ReadFrom(now'[o], held[o])
      BY <3>3, <3>4, <3>5 DEF ReadFrom, DeclaredType
    <3>7. QED BY <3>2, <3>6 DEF IsReading
  <2>3. QED BY <2>1, <2>2
<1>3. QED BY <1>1, <1>2, ReadingsStay DEF List, ScanInv

(* A reading is of contents the source had since the scan began.           *)
LEMMA ReflectReads == ASSUME ScanInv, NEW o \in Object, Reflect(o) PROVE ScanInv'
<1>1. kind \in {"database", "mongodb", "rest_api", "file_system"}
  BY DEF ScanInv, Contents
<1>2. held[o] \in Possible(o) /\ listing[o] \in Possible(o) /\ kind \in DOMAIN Contents
  BY DEF ScanInv
<1>3. PICK s : /\ \/ kind = "database" /\ s \in ReflectTable(o)
                  \/ kind = "mongodb" /\ s \in ReflectCollection(o)
                  \/ kind = "rest_api" /\ s \in SampleResource(o)
                  \/ kind = "file_system" /\ s \in InspectFile(o)
               /\ now' = [now EXCEPT ![o] = s]
  BY <1>1 DEF Reflect
<1>4. IsReading(s, o)
  <2>1. CASE s = Unseen
    BY <2>1 DEF IsReading
  <2>2. CASE kind = "database" /\ s \in ReflectTable(o)
    <3>1. /\ s.origin = held[o] /\ s.method = "declared"
          /\ s.type = IF held[o].place = "schema" THEN Relational[Only(held[o].kinds)] ELSE Bare
      BY <2>2 DEF ReflectTable, Snap
    <3>2. held[o].place = "schema" => OneKind(held[o])
      BY <1>2, <2>2, ContentsShape
    <3>3. ReadFrom(s, held[o])
      BY <2>2, <3>1, <3>2 DEF ReadFrom, DeclaredType
    <3>4. QED BY <1>2, <3>3 DEF IsReading
  <2>3. CASE kind = "mongodb" /\ s \in ReflectCollection(o)
    <3>1. CASE listing[o].form = "validated"
      <4>1. s.origin = listing[o] /\ s.method = "declared" /\ s.type = Validator[Only(listing[o].kinds)]
        BY <2>3, <3>1 DEF ReflectCollection, Validated, Snap
      <4>2. OneKind(listing[o]) /\ listing[o].place = "schema"
        BY <1>2, <3>1, ContentsShape
      <4>3. ReadFrom(s, listing[o])
        BY <2>3, <4>1, <4>2 DEF ReadFrom, DeclaredType
      <4>4. QED BY <1>2, <4>3 DEF IsReading
    <3>2. CASE listing[o].form # "validated"
      <4>1. PICK t \in MongoSample(held[o].kinds) : s = Snap(t, "sampled", held[o])
        BY <2>3, <3>2 DEF ReflectCollection
      <4>2. s.origin = held[o] /\ s.method = "sampled" /\ s.type = t
        BY <4>1 DEF Snap
      <4>3. ReadFrom(s, held[o])
        BY <2>3, <4>2 DEF ReadFrom
      <4>4. QED BY <1>2, <4>3 DEF IsReading
    <3>3. QED BY <3>1, <3>2
  <2>4. CASE kind = "rest_api" /\ s \in SampleResource(o) /\ s # Unseen
    <3>1. PICK t \in PayloadSample(held[o].kinds) : s = Snap(t, "sampled", held[o])
      BY <2>4 DEF SampleResource
    <3>2. s.origin = held[o] /\ s.method = "sampled" /\ s.type = t
      BY <3>1 DEF Snap
    <3>3. ReadFrom(s, held[o])
      BY <2>4, <3>2 DEF ReadFrom
    <3>4. QED BY <1>2, <3>3 DEF IsReading
  <2>5. CASE kind = "file_system" /\ s \in InspectFile(o) /\ s # Unseen
    <3>1. /\ s = Snap(FileColumn(held[o].form, held[o].kinds), "first rows", held[o])
          /\ held[o].form \notin {"none", "other"}
      BY <2>5 DEF InspectFile
    <3>2. /\ s.origin = held[o] /\ s.method = "first rows"
          /\ s.type = FileColumn(held[o].form, held[o].kinds)
      BY <3>1 DEF Snap
    <3>3. held[o].form \in {"parquet", "csv", "json"}
      BY <1>2, <2>5, <3>1, ContentsShape
    <3>4. ReadFrom(s, held[o])
      BY <2>5, <3>2, <3>3 DEF ReadFrom
    <3>5. QED BY <1>2, <3>4 DEF IsReading
  <2>6. QED BY <1>3, <2>1, <2>2, <2>3, <2>4, <2>5
<1>5. QED BY <1>3, <1>4, ReadingsStay DEF Reflect, ScanInv

(* Every step.                                                             *)
LEMMA ScanStep == ScanInv /\ [ScanNext]_scanVars => ScanInv'
<1> SUFFICES ASSUME ScanInv, [ScanNext]_scanVars PROVE ScanInv'
  OBVIOUS
<1>1. CASE List
  BY <1>1, ListReads
<1>2. CASE ScanRaises
  <2>1. \A o \in Object : IsReading(now'[o], o)
    BY <1>2 DEF ScanRaises, IsReading
  <2>2. QED BY <1>2, <2>1, ReadingsStay DEF ScanRaises, ScanInv
<1>3. CASE RecordSnapshots
  <2>1. \A o \in Object : IsReading(now'[o], o) /\ IsReading(last'[o], o)
    BY <1>3 DEF RecordSnapshots, IsReading, ScanInv
  <2>2. QED BY <1>3, <2>1, ReadingsStay DEF RecordSnapshots, ScanInv
<1>4. ASSUME NEW o \in Object, Rewrite(o) PROVE ScanInv'
  BY <1>4, ReadingsStay DEF Rewrite, ScanInv
<1>5. ASSUME NEW o \in Object, Reflect(o) PROVE ScanInv'
  BY <1>5, ReflectReads
<1>6. CASE UNCHANGED scanVars
  BY <1>6, ReadingsStay DEF scanVars, ScanInv
<1>7. QED BY <1>1, <1>2, <1>3, <1>4, <1>5, <1>6 DEF ScanNext

(* For every set of objects and every history of the source: a type that a *)
(* discovery reports to have drifted did drift, or was read in another     *)
(* way, or was sampled from several kinds of values; and a column without  *)
(* a type lies outside what the runner could read (the four discovery      *)
(* runners).                                                               *)
THEOREM DriftAlwaysHasAReason == ScanSpec => []DriftHasAReason
<1>1. ScanSpec => []ScanInv
  BY ScanStarts, ScanStep, PTL DEF ScanSpec
<1>2. QED BY <1>1, ScanInvImplies, PTL
================================================================================
