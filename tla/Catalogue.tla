----------------------------- MODULE Catalogue -----------------------------
(***************************************************************************)
(* The administrators' catalogue of document types and the tickets that    *)
(* name them by their text: a type is looked up when a ticket is created   *)
(* or edited, and its lookup, its checks and the write that follows are    *)
(* statements of their own.                                                *)
(***************************************************************************)
EXTENDS Naturals, FiniteSets

CONSTANTS TypeValue,   \* names of document types
          Builtin,     \* those mapFlow knows without the catalogue
          Doc,         \* tickets
          Row,         \* rows of option_item that may come to be
          NoText       \* of a ticket that does not exist, or a free row

ASSUME CatalogueAssumption == /\ Builtin \subseteq TypeValue /\ NoText \notin TypeValue
                              /\ IsFiniteSet(Doc)

VARIABLES rowOf,    \* rowOf[i]: a row of kind documentType: value, flow, active
          spent,    \* ids used up
          doc,      \* doc[d]: type, flow, whether its code is minted, whether editable
          orders,   \* requests between their checks and their write
          raced     \* tickets whose creation or edit overlapped a deletion

catalogueVars == <<rowOf, spent, doc, orders, raced>>

CatalogueFlow == {"General", "Contract"}
Missing == [value |-> NoText, flow |-> "General", active |-> FALSE]
NoDoc == [type |-> NoText, flow |-> "General", coded |-> FALSE, open |-> FALSE]

\* mapFlow: the built-in types of this model are of the General flow.
MapFlow(v) == IF v \in Builtin THEN {"General"} ELSE {}

Listed(v) == {i \in Row : rowOf[i].value = v /\ v # NoText}
FlowForDocType(v) == {rowOf[i].flow : i \in {j \in Listed(v) : rowOf[j].active}}
IsDocTypeHidden(v) == \E i \in Listed(v) : ~rowOf[i].active

\* The flow of a type, as the set of at most one; empty where resolve() throws.
Resolve(v) == IF FlowForDocType(v) # {} THEN FlowForDocType(v)
              ELSE IF IsDocTypeHidden(v) THEN {} ELSE MapFlow(v)

CatalogueInit == /\ rowOf = [i \in Row |-> Missing] /\ spent = {}
                 /\ doc = [d \in Doc |-> NoDoc]
                 /\ orders = {} /\ raced = {}

Order(kind, d, i, v, f) == [kind |-> kind, doc |-> d, row |-> i, value |-> v, flow |-> f]
Begin(o) == orders' = orders \cup {o}
Done(o) == orders' = orders \ {o}

\* AddDocumentType: no such type yet ...
AddBegin(v, f, i) ==
  /\ Listed(v) = {} /\ i \notin spent
  /\ Begin(Order("add", NoText, i, v, f))
  /\ spent' = spent \cup {i}
  /\ UNCHANGED <<rowOf, doc, raced>>

\* ... and the unique index (kind, value) decides between two of them.
AddCommit(o) ==
  /\ o.kind = "add"
  /\ rowOf' = IF Listed(o.value) # {} THEN rowOf
              ELSE [rowOf EXCEPT ![o.row] = [value |-> o.value, flow |-> o.flow,
                                             active |-> TRUE]]
  /\ Done(o)
  /\ UNCHANGED <<spent, doc, raced>>

SetDocTypeActive(i, active) ==
  /\ rowOf[i] # Missing
  /\ rowOf' = [rowOf EXCEPT ![i].active = active]
  /\ UNCHANGED <<spent, doc, orders, raced>>

UsageCount(v) == Cardinality({d \in Doc : doc[d].type = v})

\* Fault: a type in use may be deleted.
DeleteAnyBegin(i) == /\ rowOf[i] # Missing
                     /\ Begin(Order("delete", NoText, i, rowOf[i].value, rowOf[i].flow))
                     /\ UNCHANGED <<rowOf, spent, doc, raced>>

\* DeleteDocType: the row is there and no ticket uses it ...
DeleteBegin(i) == /\ rowOf[i] # Missing
                  /\ UsageCount(rowOf[i].value) = 0
                  /\ Begin(Order("delete", NoText, i, rowOf[i].value, rowOf[i].flow))
                  /\ UNCHANGED <<rowOf, spent, doc, raced>>

\* ... and some time later it is deleted; writes under way have missed that.
DeleteCommit(o) ==
  /\ o.kind = "delete"
  /\ rowOf' = [rowOf EXCEPT ![o.row] = Missing]
  /\ Done(o)
  /\ raced' = raced \cup {q.doc : q \in {p \in orders : p.value = o.value
                                                       /\ p.kind \in {"create", "edit"}}}
  /\ UNCHANGED <<spent, doc>>

DeletionUnderWay(v) == \E o \in orders : o.kind = "delete" /\ o.value = v
Race(d, v) == raced' = IF DeletionUnderWay(v) THEN raced \cup {d} ELSE raced

\* CreateTicket and CreateFromExisting resolve the flow, then insert.
CreateBegin(d, v) ==
  /\ doc[d] = NoDoc /\ \A o \in orders : o.doc # d
  /\ \E f \in Resolve(v) : Begin(Order("create", d, NoText, v, f))
  /\ UNCHANGED <<rowOf, spent, doc, raced>>

CreateCommit(o) ==
  /\ o.kind = "create"
  /\ doc' = [doc EXCEPT ![o.doc] = [type |-> o.value, flow |-> o.flow,
                                    coded |-> FALSE, open |-> TRUE]]
  /\ Race(o.doc, o.value)
  /\ Done(o)
  /\ UNCHANGED <<rowOf, spent>>

\* UpdateFields resolves the flow of the type on the form, its old one or another.
EditTypeBegin(d, v) ==
  /\ doc[d].open /\ \A o \in orders : o.doc # d
  /\ \E f \in Resolve(v) : Begin(Order("edit", d, NoText, v, f))
  /\ UNCHANGED <<rowOf, spent, doc, raced>>

\* Fault: the flow stays what it was when the type changes.
KeepFlow(o) == doc[o.doc].flow

\* The flow follows the type until the code is minted.
FlowAfterEdit(o) == IF doc[o.doc].coded THEN doc[o.doc].flow ELSE o.flow

EditTypeCommit(o) ==
  /\ o.kind = "edit"
  /\ IF doc[o.doc].open /\ (doc[o.doc].coded => o.flow = doc[o.doc].flow)
       THEN /\ doc' = [doc EXCEPT ![o.doc].type = o.value,
                                  ![o.doc].flow = FlowAfterEdit(o)]
            /\ Race(o.doc, o.value)
       ELSE UNCHANGED <<doc, raced>>
  /\ Done(o)
  /\ UNCHANGED <<rowOf, spent>>

\* Taken in, a ticket has a code and is closed to edits until it comes back.
TakenIn(d) == /\ doc[d].open
              /\ doc' = [doc EXCEPT ![d].open = FALSE, ![d].coded = TRUE]
              /\ UNCHANGED <<rowOf, spent, orders, raced>>
ComesBack(d) == /\ doc[d].coded /\ ~doc[d].open
                /\ doc' = [doc EXCEPT ![d].open = TRUE]
                /\ UNCHANGED <<rowOf, spent, orders, raced>>

CatalogueNext ==
  \/ \E v \in TypeValue, f \in CatalogueFlow, i \in Row : AddBegin(v, f, i)
  \/ \E i \in Row : DeleteBegin(i) \/ \E active \in BOOLEAN : SetDocTypeActive(i, active)
  \/ \E o \in orders : \/ AddCommit(o) \/ DeleteCommit(o)
                       \/ CreateCommit(o) \/ EditTypeCommit(o)
  \/ \E d \in Doc : \/ TakenIn(d) \/ ComesBack(d)
                    \/ \E v \in TypeValue : CreateBegin(d, v) \/ EditTypeBegin(d, v)

CatalogueSpec == CatalogueInit /\ [][CatalogueNext]_catalogueVars
-----------------------------------------------------------------------------
\* A ticket and the catalogue disagree on the flow of a type an administrator
\* added only when the type was deleted while that ticket was being written:
\* hiding, adding, deleting and adding again with another flow do not do it.
FlowAgrees ==
  \A d \in Doc, i \in Row :
    doc[d].type \notin Builtin /\ d \notin raced /\ i \in Listed(doc[d].type)
      => rowOf[i].flow = doc[d].flow

\* A type in use is not deleted: "hồ sơ cũ lưu text nên xoá loại đang dùng sẽ mồ
\* côi dữ liệu", but for a ticket written while the deletion was under way.
NoOrphans ==
  \A d \in Doc : doc[d].type \notin Builtin \cup {NoText} /\ d \notin raced
                   => Listed(doc[d].type) # {}
=============================================================================
