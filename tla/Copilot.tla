------------------------------ MODULE Copilot ------------------------------
(***************************************************************************)
(* The compliance copilot (apps/copilot): the chunker of its knowledge     *)
(* base, where a text is a sequence of characters, Blank among them; and   *)
(* its conversations, where a document's chunks are stored by one commit.  *)
(* Embedding and generating are calls of an external service, which may    *)
(* fail; each row is a commit of its own.                                  *)
(***************************************************************************)
EXTENDS Access, Lists, Sequences

CONSTANTS
  Blank,
  People,      \* users
  Companies,   \* tenants
  TenantOf,    \* the tenant of each user; Nobody for the Master Admin
  Documents,   \* ids of KnowledgeDocument rows
  Talks,       \* ids of CopilotConversation rows
  Asks,        \* requests that may run at once
  TopK,        \* how many chunks are retrieved
  MaxAnswers,  \* bound: messages of a conversation
  Nobody

ASSUME CopilotAssumption ==
  /\ TenantOf \in [People -> Companies \cup {Nobody}]
  /\ TopK \in Nat /\ MaxAnswers \in Nat

VARIABLES
  role,       \* the role of each user
  shown,      \* the role each user's browser goes by
  documents,  \* KnowledgeDocument
  embedded,   \* documents whose chunks are stored
  talks,      \* CopilotConversation: its owner and messages
  asks        \* what each request still has to do

copilotVars == <<role, shown, documents, embedded, talks, asks>>

(* The Master Admin has no tenant, everyone else has one.                  *)
RolesOf(u) == IF TenantOf[u] = Nobody THEN {"MASTER_ADMIN"} ELSE Roles \ {"MASTER_ADMIN"}

Document == [tenant : Companies \cup {Nobody}, category : Categories]

(* "asker" is history: the role the question was asked with.               *)
Message == [from : {"user", "assistant"}, asker : Roles, chunks : SUBSET Documents]

Talk == [owner : People, messages : Seq(Message)]

ASSUME NobodyAssumption == Nobody \notin Companies \cup Document \cup Talk

NoAsk == [op |-> "idle"]

Asking == [op : {"retrieve"}, talk : Talks, role : Roles]
     \cup [op : {"question", "answer"}, talk : Talks, role : Roles, chunks : SUBSET Documents]

CopilotTypeOK ==
  /\ role \in [People -> Roles]
  /\ shown \in [People -> Roles]
  /\ documents \in [Documents -> Document \cup {Nobody}]
  /\ embedded \subseteq Documents
  /\ talks \in [Talks -> Talk \cup {Nobody}]
  /\ asks \in [Asks -> Asking \cup {NoAsk}]

Greater(a, b) == IF a < b THEN b ELSE a

Lesser(a, b) == IF a < b THEN a ELSE b

(* Python's text.strip().                                                  *)
Strip(text) ==
  LET inked == {i \in DOMAIN text : text[i] # Blank}
  IN  IF inked = {} THEN <<>>
      ELSE SubSeq(text, CHOOSE i \in inked : \A j \in inked : i <= j,
                        CHOOSE i \in inked : \A j \in inked : i >= j)

(* Mutant: the overlap widens the step.                                    *)
StepApart(size, overlap) == Greater(1, size + overlap)

Step(size, overlap) == Greater(1, size - overlap)

(* text[i : i + size]                                                      *)
Window(text, start, size) == SubSeq(text, start + 1, Lesser(start + size, Len(text)))

(* chunk_text, for a positive size: a window at every step, those that are *)
(* blank left out.                                                         *)
ChunkText(text, size, overlap) ==
  LET t       == Strip(text)
      windows == [k \in 1..((Len(t) + Step(size, overlap) - 1) \div Step(size, overlap)) |->
                    Window(t, (k - 1) * Step(size, overlap), size)]
      kept    == InOrder({k \in DOMAIN windows :
                            \E i \in DOMAIN windows[k] : windows[k][i] # Blank})
  IN  [h \in DOMAIN kept |-> windows[kept[h]]]

-----------------------------------------------------------------------------
(* The knowledge base *)

(* ingest_document's first insert, by an operator: no view calls it.       *)
Ingest(d) ==
  /\ documents[d] = Nobody
  /\ \E document \in Document : documents' = [documents EXCEPT ![d] = document]
  /\ UNCHANGED <<role, shown, embedded, talks, asks>>

(* Its chunks, once they are embedded, with the document's tenant and      *)
(* category; or never, when embedding failed.                              *)
Embed(d) ==
  /\ documents[d] # Nobody /\ d \notin embedded
  /\ embedded' = embedded \cup {d}
  /\ UNCHANGED <<role, shown, documents, talks, asks>>

(* Mutant: the tenant is not filtered by.                                  *)
FoundAnywhere(u, categories) == {d \in embedded : documents[d].category \in categories}

(* What retrieve searches.  Its tenant_id__in=[None, tenant_id] never      *)
(* matches a NULL.                                                         *)
Found(u, categories) ==
  {d \in embedded :
     /\ documents[d].category \in categories
     /\ documents[d].tenant \in {TenantOf[u]} \ {Nobody}}

(* The documents the TopK chunks nearest to the query are of: any of those *)
(* searched.                                                               *)
Nearest(found) == {set \in SUBSET found : Cardinality(set) <= TopK}

-----------------------------------------------------------------------------
(* Questions *)

Proceed(p, ask) == asks' = [asks EXCEPT ![p] = ask]

Say(t, message) ==
  talks' = [talks EXCEPT ![t] = [owner |-> talks[t].owner,
                                 messages |-> Append(talks[t].messages, message)]]

(* ask's own conversation, or a new one.                                   *)
BeginAsk(p, u) ==
  /\ asks[p] = NoAsk
  /\ \E t \in Talks :
       /\ \/ /\ talks[t] = Nobody
             /\ talks' = [talks EXCEPT ![t] = [owner |-> u, messages |-> <<>>]]
          \/ talks[t] # Nobody /\ talks[t].owner = u /\ UNCHANGED talks
       /\ Proceed(p, [op |-> "retrieve", talk |-> t, role |-> role[u]])
  /\ UNCHANGED <<role, shown, documents, embedded>>

Retrieve(p) ==
  LET a == asks[p]
  IN /\ a.op = "retrieve"
     /\ \E set \in Nearest(Found(talks[a.talk].owner, AllowedCategories(a.role))) :
          Proceed(p, [op |-> "question", talk |-> a.talk, role |-> a.role, chunks |-> set])
     /\ UNCHANGED <<role, shown, documents, embedded, talks>>

(* The question is kept before it is put to the model, ...                 *)
SaveQuestion(p) ==
  LET a == asks[p]
  IN /\ a.op = "question" /\ Len(talks[a.talk].messages) < MaxAnswers
     /\ Say(a.talk, [from |-> "user", asker |-> a.role, chunks |-> {}])
     /\ Proceed(p, [op |-> "answer", talk |-> a.talk, role |-> a.role, chunks |-> a.chunks])
     /\ UNCHANGED <<role, shown, documents, embedded>>

(* ... and the answer with the chunks it was drawn from.                   *)
SaveAnswer(p) ==
  LET a == asks[p]
  IN /\ a.op = "answer" /\ Len(talks[a.talk].messages) < MaxAnswers
     /\ Say(a.talk, [from |-> "assistant", asker |-> a.role, chunks |-> a.chunks])
     /\ Proceed(p, NoAsk)
     /\ UNCHANGED <<role, shown, documents, embedded>>

(* The service fails, or the process dies.                                 *)
LoseAsk(p) ==
  /\ asks[p] # NoAsk
  /\ Proceed(p, NoAsk)
  /\ UNCHANGED <<role, shown, documents, embedded, talks>>

-----------------------------------------------------------------------------
(* Roles *)

(* An operator changes a user's role.                                      *)
Assign(u) ==
  /\ \E r \in RolesOf(u) : role' = [role EXCEPT ![u] = r]
  /\ UNCHANGED <<shown, documents, embedded, talks, asks>>

(* The browser asks /auth/me/, and keeps what it is told until it is       *)
(* loaded again.                                                           *)
LoadMe(u) ==
  /\ shown' = [shown EXCEPT ![u] = role[u]]
  /\ UNCHANGED <<role, documents, embedded, talks, asks>>

CopilotInit ==
  /\ role \in [People -> Roles] /\ \A u \in People : role[u] \in RolesOf(u)
  /\ shown = role
  /\ documents = [d \in Documents |-> Nobody] /\ embedded = {}
  /\ talks = [t \in Talks |-> Nobody]
  /\ asks = [p \in Asks |-> NoAsk]

CopilotNext ==
  \/ \E d \in Documents : Ingest(d) \/ Embed(d)
  \/ \E p \in Asks, u \in People : BeginAsk(p, u)
  \/ \E p \in Asks : Retrieve(p) \/ SaveQuestion(p) \/ SaveAnswer(p) \/ LoseAsk(p)
  \/ \E u \in People : Assign(u) \/ LoadMe(u)

CopilotSpec == CopilotInit /\ [][CopilotNext]_copilotVars

-----------------------------------------------------------------------------
(* Properties *)

(* What an answer was drawn from is of no other tenant, and of a rulebook  *)
(* or of a department whose API lets in the role the question was asked    *)
(* with: the copilot is no way around the wall, for the Master Admin of no *)
(* tenant either (copilot/services.py:76-91).                              *)
AnswersWalled ==
  \A t \in Talks : talks[t] # Nobody =>
    \A i \in DOMAIN talks[t].messages :
      LET m == talks[t].messages[i]
      IN \A d \in m.chunks :
           /\ documents[d].tenant \in {TenantOf[talks[t].owner], Nobody}
           /\ \/ documents[d].category \in Rulebooks
              \/ HasRole(m.asker, DepartmentOf[documents[d].category])

(* A browser that goes by the user's present role offers every department  *)
(* whose API lets them in, and no other (nav.ts:18-31).                    *)
PagesServed ==
  \A u \in People : shown[u] = role[u] =>
    \A d \in Departments : d \in NavForRole(shown[u]) <=> HasRole(role[u], d)

(* The walls the API keeps are those the copilot and the browser keep.     *)
WallHolds == AnswersWalled /\ PagesServed
==============================================================================
