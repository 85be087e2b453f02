------------------------- MODULE ImageLifecycleProofs -------------------------
(***************************************************************************)
(* Proofs about ImageLifecycle, for every number of clients, bikes, files  *)
(* and requests: types (TypeCorrect), that a PUT never brings back an      *)
(* image (PutsKeepImages), and that broken images and stranded files come  *)
(* from failures only (ImagesBreakOnlyByFailure, FilesStrandOnlyByFailure).*)
(***************************************************************************)
EXTENDS ImageLifecycle, TLAPS

\* A request that has loaded a row, one that is about to insert one, and one that has
\* put a file in the directory which no row names yet.
Loaded(c) == pc[c] \in {"store", "drop", "commit"} /\ job[c] # "post"
Posting(c) == pc[c] = "commit" /\ job[c] = "post"
Uploaded(c) == pc[c] \in {"drop", "commit"} /\ job[c] = "upload"
Replacing(c) == pc[c] = "commit" /\ job[c] \in {"upload", "clear", "delete"}

\* What a request is, and holds as its image, at each point of its code.
Phases ==
    \A c \in Clients :
        /\ pc[c] = "load" => job[c] # "post"
        /\ pc[c] = "store" => job[c] = "upload"
        /\ pc[c] = "drop" => job[c] \in {"upload", "clear", "delete"}
        /\ pc[c] = "commit" /\ job[c] = "put" => image[c] = snap[c].image
        /\ pc[c] \in {"drop", "commit"} /\ job[c] = "clear" => image[c] = NoImage
        /\ Posting(c) => image[c] \in PostImages

\* An id is handed out once, so that a row which still has the version a request has
\* loaded is the row it has loaded.
Versions ==
    /\ \A b \in Bikes : rows[b] # NoRow => b \in born
    /\ \A c \in Clients : Loaded(c) \/ Posting(c) => bike[c] \in born
    /\ \A c \in Clients : Posting(c) => rows[bike[c]] = NoRow
    /\ \A c, d \in Clients : Posting(c) /\ c # d /\ (Loaded(d) \/ Posting(d)) => bike[c] # bike[d]
    /\ \A c \in Clients : Loaded(c) /\ rows[bike[c]] # NoRow =>
           /\ snap[c].version <= rows[bike[c]].version
           /\ snap[c].version = rows[bike[c]].version => snap[c] = rows[bike[c]]

\* Every file in play belongs to one bike; one that an upload has stored is named by
\* nothing else; and what a replacement has dropped is gone, or counted as stray.
Owned ==
    /\ \A b \in Bikes : rows[b] # NoRow /\ rows[b].image \in Files =>
           rows[b].image \in named /\ owner[rows[b].image] = b
    /\ \A c \in Clients : Loaded(c) /\ snap[c].image \in Files =>
           snap[c].image \in named /\ owner[snap[c].image] = bike[c]
    /\ \A c \in Clients : Uploaded(c) =>
           /\ image[c] \in disk /\ owner[image[c]] = bike[c]
           /\ \A b \in Bikes : rows[b] # NoRow => rows[b].image # image[c]
           /\ \A d \in Clients : Loaded(d) => snap[d].image # image[c]
           /\ \A d \in Clients \ {c} : Uploaded(d) => image[d] # image[c]
    /\ \A c \in Clients : Replacing(c) => snap[c].image \notin disk \ strays

------------------------------------------------------------------------------
(* Types *)

LEMMA StoredFiles == \A url : Stored(url) \subseteq Files /\ (url \in Files => Stored(url) = {url})
BY DEF Stored

LEMMA InitTypeOK == Init => TypeOK
<1> SUFFICES ASSUME Init PROVE TypeOK
  OBVIOUS
<1> DEFINE seedFiles == {f \in Files : \E b \in DOMAIN SeedImage : SeedImage[b] = f}
<1>1. (CHOOSE b \in DOMAIN SeedImage : TRUE) \in Bikes
  BY SeedImageAssumption, Zenon
<1>2. \A f \in seedFiles : (CHOOSE b \in DOMAIN SeedImage : SeedImage[b] = f) \in Bikes
  BY SeedImageAssumption, Zenon
<1>3. rows \in [Bikes -> Row \cup {NoRow}]
  BY SeedImageAssumption, SMT DEF Init, Row
<1>4. owner \in [Files -> Bikes \cup {NoRow}]
  BY <1>2, Zenon DEF Init
<1>5. bike \in [Clients -> Bikes]
  BY <1>1, Zenon DEF Init
<1>6. snap \in [Clients -> Row] /\ image \in [Clients -> Images]
  BY SMT DEF Init, Row, Images
<1>7. /\ pc \in [Clients -> {"idle", "load", "store", "drop", "commit"}]
      /\ job \in [Clients -> Jobs]
      /\ issued \in 0..MaxRequests
  BY ImageAssumption, SMT DEF Init, Jobs
<1>8. /\ born \subseteq Bikes /\ disk \subseteq named /\ named \subseteq Files
      /\ strays \subseteq Files /\ victims \subseteq Files
  BY SeedImageAssumption DEF Init
<1> QED BY <1>3, <1>4, <1>5, <1>6, <1>7, <1>8 DEF TypeOK

LEMMA FailsTypeOK == ASSUME TypeOK, NEW c \in Clients, Fails(c) PROVE TypeOK'
<1>1. pc' \in [Clients -> {"idle", "load", "store", "drop", "commit"}]
  BY SMT DEF TypeOK, Fails, End
<1>2. strays' \subseteq Files /\ victims' \subseteq Files
  BY StoredFiles, SMT DEF TypeOK, Fails, DroppedBy
<1> QED BY <1>1, <1>2 DEF TypeOK, Fails, request

LEMMA CommittedTypeOK ==
    ASSUME TypeOK, NEW c \in Clients, NEW row \in Row \cup {NoRow}, Committed(c, row)
    PROVE  TypeOK'
<1>1. /\ pc' \in [Clients -> {"idle", "load", "store", "drop", "commit"}]
      /\ rows' \in [Bikes -> Row \cup {NoRow}]
  BY SMT DEF TypeOK, Committed, End
<1> QED BY <1>1 DEF TypeOK, Committed, request, history

LEMMA StepTypeOK == TypeOK /\ [Next]_vars => TypeOK'
<1> SUFFICES ASSUME TypeOK, [Next]_vars PROVE TypeOK'
  OBVIOUS
<1>1. CASE UNCHANGED vars
  BY <1>1 DEF vars, TypeOK
<1>2. ASSUME NEW c \in Clients, Serve(c) PROVE TypeOK'
  <2>1. CASE Begin(c)
    BY <2>1, ImageAssumption, SMT DEF TypeOK, Begin, Jobs, history
  <2>2. CASE BeginPost(c)
    BY <2>2, ImageAssumption, SMT DEF TypeOK, BeginPost, Jobs, history
  <2>3. CASE Load(c)
    <3>1. CASE rows[bike[c]] = NoRow
      BY <2>3, <3>1, FailsTypeOK DEF Load
    <3>2. CASE rows[bike[c]] # NoRow
      <4>1. rows[bike[c]] \in Row /\ rows[bike[c]].image \in Images
        BY <3>2 DEF TypeOK, Row
      <4> QED BY <2>3, <3>2, <4>1, SMT DEF TypeOK, Load, Images, request, history
    <3> QED BY <3>1, <3>2
  <2>4. CASE RejectFile(c) \/ Conflict(c) \/ Crash(c)
    BY <2>4, FailsTypeOK DEF RejectFile, Conflict, Crash
  <2>5. CASE StoreFile(c)
    BY <2>5, SMT DEF TypeOK, StoreFile, Images, request
  <2>6. CASE BreakFile(c)
    BY <2>6, SMT DEF TypeOK, BreakFile, End, request
  <2>7. CASE DropFile(c)
    BY <2>7, StoredFiles, SMT DEF TypeOK, DropFile, request
  <2>8. CASE CommitPost(c)
    <3>1. [image |-> image[c], version |-> 0] \in Row
      BY SMT DEF TypeOK, Row
    <3> QED BY <2>8, <3>1, CommittedTypeOK DEF CommitPost
  <2>9. CASE CommitEdit(c)
    <3>1. [image |-> image[c], version |-> snap[c].version + 1] \in Row
      BY SMT DEF TypeOK, Row
    <3> QED BY <2>9, <3>1, CommittedTypeOK DEF CommitEdit
  <2>10. CASE CommitClean(c)
    BY <2>10, SMT DEF TypeOK, CommitClean, End, request, history
  <2>11. CASE CommitDelete(c)
    BY <2>11, CommittedTypeOK DEF CommitDelete
  <2> QED BY <1>2, <2>1, <2>2, <2>3, <2>4, <2>5, <2>6, <2>7, <2>8, <2>9, <2>10, <2>11 DEF Serve
<1> QED BY <1>1, <1>2 DEF Next, Quiet

\* In every behaviour rows, directory and locals hold values of their types (TypeOK of
\* ImageLifecycle): whatever fails, only files storeFile has named are ever on disk.
THEOREM TypeCorrect == Spec => []TypeOK
BY InitTypeOK, StepTypeOK, PTL DEF Spec

------------------------------------------------------------------------------
(* What a step does *)

\* No request touches the locals of another.
LEMMA OthersUntouched ==
    ASSUME TypeOK, NEW c \in Clients, Serve(c), NEW d \in Clients \ {c}
    PROVE  /\ pc'[d] = pc[d] /\ job'[d] = job[d] /\ bike'[d] = bike[d]
           /\ snap'[d] = snap[d] /\ image'[d] = image[d]
<1>1. CASE Begin(c) \/ BeginPost(c)
  BY <1>1 DEF TypeOK, Begin, BeginPost
<1>2. CASE Load(c)
  BY <1>2 DEF TypeOK, Load, Fails, End, request
<1>3. CASE RejectFile(c) \/ Conflict(c) \/ Crash(c)
  BY <1>3 DEF TypeOK, RejectFile, Conflict, Crash, Fails, End, request
<1>4. CASE StoreFile(c) \/ BreakFile(c) \/ DropFile(c)
  BY <1>4 DEF TypeOK, StoreFile, BreakFile, DropFile, End, request
<1>5. CASE CommitPost(c) \/ CommitEdit(c) \/ CommitClean(c) \/ CommitDelete(c)
  BY <1>5 DEF TypeOK, CommitPost, CommitEdit, CommitClean, CommitDelete, Committed, End, request
<1> QED BY <1>1, <1>2, <1>3, <1>4, <1>5 DEF Serve

\* The requests that change no row and no id: they fail, or commit a clean entity.
LEMMA EndsIdle ==
    ASSUME TypeOK, NEW c \in Clients,
           RejectFile(c) \/ Conflict(c) \/ Crash(c) \/ BreakFile(c) \/ CommitPost(c)
               \/ CommitEdit(c) \/ CommitClean(c) \/ CommitDelete(c)
    PROVE  pc'[c] = "idle"
BY DEF TypeOK, RejectFile, Conflict, Crash, BreakFile, CommitPost, CommitEdit, CommitClean,
       CommitDelete, Committed, Fails, End

LEMMA StepPhases ==
    ASSUME TypeOK, Phases, NEW c \in Clients, Serve(c)
    PROVE  Phases'
<1>1. \A d \in Clients \ {c} :
          /\ pc'[d] = pc[d] /\ job'[d] = job[d]
          /\ snap'[d] = snap[d] /\ image'[d] = image[d]
  BY OthersUntouched
<1>2. SUFFICES /\ pc'[c] = "load" => job'[c] # "post"
               /\ pc'[c] = "store" => job'[c] = "upload"
               /\ pc'[c] = "drop" => job'[c] \in {"upload", "clear", "delete"}
               /\ pc'[c] = "commit" /\ job'[c] = "put" => image'[c] = snap'[c].image
               /\ pc'[c] \in {"drop", "commit"} /\ job'[c] = "clear" => image'[c] = NoImage
               /\ pc'[c] = "commit" /\ job'[c] = "post" => image'[c] \in PostImages
  BY <1>1 DEF Phases, Posting
<1>3. CASE pc'[c] = "idle"
  BY <1>3
<1>4. CASE Begin(c) \/ BeginPost(c)
  BY <1>4, SMT DEF TypeOK, Begin, BeginPost, Jobs
<1>5. CASE Load(c) /\ rows[bike[c]] # NoRow
  <2>1. /\ snap'[c] = rows[bike[c]] /\ job'[c] = job[c]
        /\ image'[c] = IF job[c] = "clear" THEN NoImage ELSE rows[bike[c]].image
        /\ pc'[c] = CASE job[c] = "upload" -> "store"
                      [] job[c] = "put" -> "commit"
                      [] OTHER -> "drop"
        /\ job[c] \in Jobs \ {"post"}
    BY <1>5, SMT DEF TypeOK, Phases, Load, request
  <2>2. CASE job[c] = "upload"
    BY <2>1, <2>2
  <2>3. CASE job[c] = "put"
    BY <2>1, <2>3
  <2>4. CASE job[c] \in {"clear", "delete"}
    BY <2>1, <2>4
  <2> QED BY <2>1, <2>2, <2>3, <2>4 DEF Jobs
<1>6. CASE Load(c) /\ rows[bike[c]] = NoRow
  BY <1>6 DEF TypeOK, Load, Fails, End
<1>7. CASE StoreFile(c) \/ DropFile(c)
  BY <1>7, SMT DEF TypeOK, Phases, StoreFile, DropFile, request
<1> QED BY <1>3, <1>4, <1>5, <1>6, <1>7, EndsIdle DEF Serve

LEMMA StepVersions ==
    ASSUME TypeOK, Phases, Versions, NEW c \in Clients, Serve(c)
    PROVE  Versions'
<1>1. \A d \in Clients \ {c} :
          /\ pc'[d] = pc[d] /\ job'[d] = job[d] /\ bike'[d] = bike[d] /\ snap'[d] = snap[d]
          /\ Loaded(d)' = Loaded(d) /\ Posting(d)' = Posting(d)
  BY OthersUntouched DEF Loaded, Posting
<1>2. CASE UNCHANGED <<rows, born>> /\ pc'[c] \in {"idle", "load"}
  BY <1>1, <1>2 DEF Versions, Loaded, Posting
<1>3. CASE Begin(c)
  BY <1>2, <1>3 DEF TypeOK, Begin
<1>4. CASE BeginPost(c)
  BY <1>1, <1>4, SMT DEF TypeOK, Versions, BeginPost, Loaded, Posting
<1>5. CASE Load(c)
  <2>1. CASE rows[bike[c]] = NoRow
    BY <1>2, <1>5, <2>1 DEF TypeOK, Load, Fails, End
  <2>2. CASE rows[bike[c]] # NoRow
    <3>1. /\ UNCHANGED <<rows, born, bike, job>> /\ snap'[c] = rows[bike[c]]
          /\ job'[c] # "post"
      BY <1>5, <2>2, SMT DEF TypeOK, Phases, Load, request
    <3>2. rows[bike[c]].version \in Nat
      BY <2>2, SMT DEF TypeOK, Row
    <3> QED BY <1>1, <2>2, <3>1, <3>2, SMT DEF TypeOK, Versions, Loaded, Posting
  <2> QED BY <2>1, <2>2
<1>6. CASE RejectFile(c) \/ Conflict(c) \/ Crash(c) \/ BreakFile(c) \/ CommitClean(c)
  BY <1>2, <1>6, EndsIdle
     DEF RejectFile, Conflict, Crash, BreakFile, CommitClean, Fails
<1>7. CASE StoreFile(c) \/ DropFile(c)
  <2>1. /\ UNCHANGED <<rows, born, bike, snap, job>> /\ Loaded(c) /\ ~Posting(c)'
        /\ job[c] # "post"
    BY <1>7, SMT DEF TypeOK, Phases, StoreFile, DropFile, Loaded, Posting, request
  <2> QED BY <1>1, <2>1 DEF Versions
<1>8. CASE CommitPost(c)
  <2>1. /\ rows' = [rows EXCEPT ![bike[c]] = [image |-> image[c], version |-> 0]]
        /\ UNCHANGED <<born, bike, snap, job>> /\ Posting(c) /\ pc'[c] = "idle"
    BY <1>8, EndsIdle DEF CommitPost, Committed, Posting, request
  <2> QED BY <1>1, <2>1 DEF TypeOK, Versions, Loaded, Posting
<1>9. CASE CommitEdit(c)
  <2>1. /\ rows' = [rows EXCEPT ![bike[c]] =
                        [image |-> image[c], version |-> snap[c].version + 1]]
        /\ rows[bike[c]] # NoRow /\ rows[bike[c]].version = snap[c].version
        /\ UNCHANGED <<born, bike, snap, job>> /\ pc'[c] = "idle" /\ Loaded(c)
    BY <1>9, EndsIdle DEF CommitEdit, Committed, Current, MayWrite, MustWrite, Loaded, request
  <2>2. \A d \in Clients : snap[d].version \in Nat
    BY DEF TypeOK, Row
  <2> QED BY <1>1, <2>1, <2>2, SMT DEF TypeOK, Versions, Loaded, Posting
<1>10. CASE CommitDelete(c)
  <2>1. /\ rows' = [rows EXCEPT ![bike[c]] = NoRow]
        /\ UNCHANGED <<born, bike, snap, job>> /\ pc'[c] = "idle"
    BY <1>10, EndsIdle DEF CommitDelete, Committed, request
  <2> QED BY <1>1, <2>1 DEF TypeOK, Versions, Loaded, Posting
<1> QED BY <1>3, <1>4, <1>5, <1>6, <1>7, <1>8, <1>9, <1>10 DEF Serve

LEMMA StepOwned ==
    ASSUME PostImages \cap Files = {}, TypeOK, Phases, Versions, Owned, NEW c \in Clients, Serve(c)
    PROVE  Owned'
<1> USE ImageAssumption
<1>1. \A d \in Clients \ {c} :
          /\ pc'[d] = pc[d] /\ job'[d] = job[d] /\ bike'[d] = bike[d] /\ snap'[d] = snap[d]
          /\ image'[d] = image[d] /\ Loaded(d)' = Loaded(d) /\ Uploaded(d)' = Uploaded(d)
          /\ Replacing(d)' = Replacing(d)
  BY OthersUntouched DEF Loaded, Uploaded, Replacing
<1>2. \A d \in Clients : Uploaded(d) => Loaded(d) /\ image[d] \in disk
  BY DEF Owned, Uploaded, Loaded
<1>3. \A b \in Bikes : rows[b] # NoRow => rows[b].image \in Images
  BY DEF TypeOK, Row
<1>4. CASE /\ UNCHANGED <<rows, disk, named, owner>> /\ pc'[c] \in {"idle", "load"}
           /\ strays \subseteq strays'
  BY <1>1, <1>4 DEF Owned, Loaded, Uploaded, Replacing
<1>5. CASE Begin(c)
  BY <1>4, <1>5 DEF TypeOK, Begin, history
<1>6. CASE BeginPost(c)
  <2>1. /\ UNCHANGED <<rows, disk, named, owner, strays>>
        /\ ~Loaded(c)' /\ ~Uploaded(c)' /\ ~Replacing(c)'
    BY <1>6, SMT DEF TypeOK, BeginPost, Loaded, Uploaded, Replacing, history
  <2> QED BY <1>1, <2>1 DEF Owned
<1>7. CASE Load(c)
  <2>1. CASE rows[bike[c]] = NoRow
    BY <1>4, <1>7, <2>1 DEF TypeOK, Load, Fails, End
  <2>2. CASE rows[bike[c]] # NoRow
    <3>1. /\ UNCHANGED <<rows, disk, named, owner, strays, bike, job>>
          /\ snap'[c] = rows[bike[c]] /\ bike[c] \in Bikes
      BY <1>7, <2>2, SMT DEF TypeOK, Load, request, history
    <3>2. pc'[c] = CASE job[c] = "upload" -> "store"
                     [] job[c] = "put" -> "commit"
                     [] OTHER -> "drop"
      BY <1>7, <2>2, SMT DEF TypeOK, Load
    <3>3. ~Uploaded(c)'
      BY <3>1, <3>2 DEF Uploaded
    <3>4. ~Replacing(c)'
      <4>1. CASE job[c] = "upload"
        BY <3>2, <4>1 DEF Replacing
      <4>2. CASE job[c] = "put"
        BY <3>1, <4>2 DEF Replacing
      <4>3. CASE job[c] \notin {"upload", "put"}
        BY <3>2, <4>3 DEF Replacing
      <4> QED BY <4>1, <4>2, <4>3
    <3> QED BY <1>1, <2>2, <3>1, <3>3, <3>4 DEF Owned
  <2> QED BY <2>1, <2>2
<1>8. CASE RejectFile(c) \/ Conflict(c) \/ Crash(c) \/ CommitClean(c)
  <2>1. UNCHANGED <<rows, disk, named, owner>> /\ strays \subseteq strays'
    BY <1>8 DEF RejectFile, Conflict, Crash, CommitClean, Fails, history
  <2> QED BY <1>4, <1>8, <2>1, EndsIdle
<1>9. CASE StoreFile(c)
  <2>1. PICK f \in Files \ named :
            /\ named' = named \cup {f} /\ disk' = disk \cup {f}
            /\ image' = [image EXCEPT ![c] = f] /\ owner' = [owner EXCEPT ![f] = bike[c]]
    BY <1>9 DEF StoreFile
  <2>2. /\ UNCHANGED <<rows, bike, job, snap, strays>> /\ Loaded(c) /\ Loaded(c)'
        /\ image'[c] = f /\ Uploaded(c)' /\ ~Replacing(c)'
    BY <1>9, <2>1, SMT DEF TypeOK, Phases, StoreFile, Loaded, Uploaded, Replacing, request
  <2>3. \A b \in Bikes : rows[b] # NoRow => rows[b].image # f
    BY <2>1 DEF Owned
  <2>4. \A d \in Clients : Loaded(d) => snap[d].image # f
    BY <2>1 DEF Owned
  <2>5. \A d \in Clients : Uploaded(d) => image[d] # f
    BY <1>2, <2>1 DEF TypeOK
  <2>6. \A g \in Files \ {f} : owner'[g] = owner[g]
    BY <2>1 DEF TypeOK
  <2>7. owner'[f] = bike[c]
    BY <2>1 DEF TypeOK
  <2>8. \A d \in Clients : Loaded(d)' <=> Loaded(d)
    BY <1>1, <2>2
  <2>9. \A b \in Bikes : rows'[b] # NoRow /\ rows'[b].image \in Files =>
            rows'[b].image \in named' /\ owner'[rows'[b].image] = b
    BY <2>1, <2>2, <2>3, <2>6 DEF Owned
  <2>10. \A d \in Clients : Loaded(d)' /\ snap'[d].image \in Files =>
            snap'[d].image \in named' /\ owner'[snap'[d].image] = bike'[d]
    BY <2>1, <2>2, <2>4, <2>6, <2>8 DEF Owned
  <2>11. ASSUME NEW d \in Clients, Uploaded(d)'
         PROVE  /\ image'[d] \in disk' /\ owner'[image'[d]] = bike'[d]
                /\ \A b \in Bikes : rows'[b] # NoRow => rows'[b].image # image'[d]
                /\ \A e \in Clients : Loaded(e)' => snap'[e].image # image'[d]
                /\ \A e \in Clients \ {d} : Uploaded(e)' => image'[e] # image'[d]
    <3>1. CASE d = c
      BY <1>1, <2>1, <2>2, <2>3, <2>4, <2>5, <2>7, <2>8, <3>1
    <3>2. CASE d # c
      <4>1. Uploaded(d) /\ image'[d] = image[d] /\ image[d] # f /\ image[d] \in Files
        BY <1>1, <1>2, <2>5, <2>11, <3>2 DEF TypeOK
      <4> QED BY <1>1, <2>1, <2>2, <2>6, <2>8, <4>1 DEF Owned
    <3> QED BY <3>1, <3>2
  <2>12. \A d \in Clients : Replacing(d)' => snap'[d].image \notin disk' \ strays'
    BY <1>1, <2>1, <2>2, <2>4 DEF Owned, Replacing, Loaded
  <2> QED BY <2>9, <2>10, <2>11, <2>12 DEF Owned
<1>10. CASE BreakFile(c)
  <2>1. PICK f \in Files \ named :
            /\ named' = named \cup {f} /\ disk' = disk \cup {f} /\ strays' = strays \cup {f}
            /\ owner' = [owner EXCEPT ![f] = bike[c]]
    BY <1>10 DEF BreakFile
  <2>2. /\ UNCHANGED <<rows, bike, job, snap, image>>
        /\ ~Loaded(c)' /\ ~Uploaded(c)' /\ ~Replacing(c)'
    BY <1>10, EndsIdle DEF BreakFile, Loaded, Uploaded, Replacing, request
  <2>3. \A g \in Files \ {f} : owner'[g] = owner[g]
    BY <2>1 DEF TypeOK
  <2>4. \A d \in Clients : Uploaded(d) => image[d] \in Files \ {f}
    BY <1>2, <2>1 DEF TypeOK
  <2> QED BY <1>1, <2>1, <2>2, <2>3, <2>4 DEF Owned
<1>11. CASE DropFile(c)
  <2>1. /\ UNCHANGED <<rows, named, owner, bike, job, snap, image>>
        /\ Loaded(c) /\ Loaded(c)' /\ (Uploaded(c)' = Uploaded(c))
    BY <1>11, SMT DEF TypeOK, Phases, DropFile, Loaded, Uploaded, request
  <2>2. /\ disk \ disk' \subseteq Stored(snap[c].image) /\ disk' \subseteq disk
        /\ strays \subseteq strays' /\ Stored(snap[c].image) \cap (disk' \ strays') = {}
    BY <1>11 DEF DropFile
  <2>3. \A d \in Clients : Uploaded(d) => image[d] \in disk'
    BY <1>2, <2>1, <2>2 DEF Owned, Stored
  <2>4. \A d \in Clients : Replacing(d)' => snap'[d].image \notin disk' \ strays'
    BY <1>1, <2>1, <2>2 DEF TypeOK, Owned, Stored
  <2> QED BY <1>1, <2>1, <2>3, <2>4 DEF Owned
<1>12. CASE CommitPost(c)
  <2>1. /\ rows' = [rows EXCEPT ![bike[c]] = [image |-> image[c], version |-> 0]]
        /\ UNCHANGED <<disk, named, owner, strays, bike, snap, image>>
        /\ image[c] \notin Files
        /\ ~Loaded(c)' /\ ~Uploaded(c)' /\ ~Replacing(c)'
    BY <1>12, EndsIdle DEF CommitPost, Committed, Phases, Posting, Loaded, Uploaded,
       Replacing, request, history
  <2>2. \A d \in Clients : Uploaded(d) => image[d] \in Files
    BY <1>2 DEF TypeOK
  <2> QED BY <1>1, <2>1, <2>2 DEF TypeOK, Owned
<1>13. CASE CommitEdit(c)
  <2>1. /\ rows' = [rows EXCEPT ![bike[c]] =
                        [image |-> image[c], version |-> snap[c].version + 1]]
        /\ rows[bike[c]] # NoRow /\ rows[bike[c]].version = snap[c].version
        /\ UNCHANGED <<disk, named, owner, strays, bike, snap, image>>
        /\ ~Loaded(c)' /\ ~Uploaded(c)' /\ ~Replacing(c)'
    BY <1>13, EndsIdle DEF CommitEdit, Committed, Current, Loaded, Uploaded, Replacing,
       request, history
  <2>2. snap[c] = rows[bike[c]]
    BY <1>13, <2>1 DEF CommitEdit, MayWrite, MustWrite, Versions, Loaded
  <2>3. \/ Uploaded(c)
        \/ image[c] = snap[c].image
        \/ image[c] = NoImage
    BY <1>13 DEF CommitEdit, MayWrite, MustWrite, Phases, Uploaded
  <2>4. image[c] \in Files => image[c] \in named /\ owner[image[c]] = bike[c]
    <3>1. CASE Uploaded(c)
      BY <3>1 DEF TypeOK, Owned
    <3>2. CASE image[c] = snap[c].image
      BY <2>1, <2>2, <3>2 DEF TypeOK, Owned
    <3> QED BY <2>3, <3>1, <3>2
  <2>5. \A d \in Clients \ {c} : Uploaded(d) => image[c] # image[d]
    <3>1. CASE Uploaded(c)
      BY <3>1 DEF Owned
    <3>2. CASE image[c] = snap[c].image
      BY <2>1, <2>2, <3>2 DEF TypeOK, Owned
    <3>3. CASE image[c] = NoImage
      BY <1>2, <3>3 DEF TypeOK
    <3> QED BY <2>3, <3>1, <3>2, <3>3
  <2> QED BY <1>1, <2>1, <2>4, <2>5 DEF TypeOK, Owned
<1>14. CASE CommitDelete(c)
  <2>1. /\ rows' = [rows EXCEPT ![bike[c]] = NoRow]
        /\ UNCHANGED <<disk, named, owner, strays, bike, snap, image>>
        /\ ~Loaded(c)' /\ ~Uploaded(c)' /\ ~Replacing(c)'
    BY <1>14, EndsIdle DEF CommitDelete, Committed, Loaded, Uploaded, Replacing,
       request, history
  <2> QED BY <1>1, <2>1 DEF TypeOK, Owned
<1> QED BY <1>5, <1>6, <1>7, <1>8, <1>9, <1>10, <1>11, <1>12, <1>13, <1>14 DEF Serve

------------------------------------------------------------------------------
(* A PUT and the image it raced *)

LEMMA InitPhases == Init => Phases /\ Versions
<1> SUFFICES ASSUME Init PROVE Phases /\ Versions
  OBVIOUS
<1>1. \A c \in Clients : pc[c] = "idle"
  BY DEF Init
<1>2. \A b \in Bikes : rows[b] # NoRow => b \in born
  BY DEF Init
<1> QED BY <1>1, <1>2 DEF Phases, Versions, Loaded, Posting

LEMMA StutterPhases == ASSUME Phases, Versions, UNCHANGED vars PROVE Phases' /\ Versions'
<1>1. Phases'
  BY DEF Phases, Posting, vars
<1>2. Versions'
  BY DEF Versions, Loaded, Posting, vars
<1> QED BY <1>1, <1>2

LEMMA PhasesHold == Spec => [](TypeOK /\ Phases /\ Versions)
<1>1. Init => TypeOK /\ Phases /\ Versions
  BY InitTypeOK, InitPhases
<1>2. TypeOK /\ Phases /\ Versions /\ [Next]_vars => (TypeOK /\ Phases /\ Versions)'
  BY StepTypeOK, StepPhases, StepVersions, StutterPhases DEF Next, Quiet
<1> QED BY <1>1, <1>2, PTL DEF Spec

LEMMA StepKeepsImage ==
    ASSUME TypeOK, Phases, Versions, [Next]_vars, NEW c \in Clients,
           job[c] = "put", pc[c] = "commit", pc'[c] = "idle", rows'[bike[c]] # NoRow
    PROVE  rows'[bike[c]].image = rows[bike[c]].image
<1>1. CASE UNCHANGED vars
  BY <1>1 DEF vars
<1>2. ASSUME NEW d \in Clients, Serve(d), d # c
      PROVE  rows'[bike[c]].image = rows[bike[c]].image
  <2>1. pc'[c] = pc[c]
    BY <1>2, OthersUntouched
  <2> QED BY <2>1
<1>3. CASE Serve(c)
  <2>1. UNCHANGED rows \/ CommitEdit(c)
    BY <1>3 DEF Serve, Begin, BeginPost, Load, RejectFile, StoreFile, BreakFile, DropFile,
       CommitPost, CommitClean, CommitDelete, Conflict, Crash, Fails
  <2>2. CASE CommitEdit(c)
    <3>1. snap[c] = rows[bike[c]]
      BY <2>2 DEF CommitEdit, Current, Versions, Loaded
    <3>2. rows'[bike[c]].image = image[c]
      BY <2>2 DEF TypeOK, CommitEdit, Committed
    <3> QED BY <3>1, <3>2 DEF Phases
  <2> QED BY <2>1, <2>2
<1> QED BY <1>1, <1>2, <1>3 DEF Next, Quiet

\* In every behaviour a PUT that answers leaves the image of its bike as it finds it at
\* its commit (PutKeepsImage of ImageLifecycle): whatever uploads and clears it raced,
\* the column it writes back is the committed one, or its version check has failed.
THEOREM PutsKeepImages == Spec => PutKeepsImage
<1>1. TypeOK /\ Phases /\ Versions /\ [Next]_vars =>
        [\A c \in Clients :
            job[c] = "put" /\ pc[c] = "commit" /\ pc'[c] = "idle" /\ rows'[bike[c]] # NoRow
                => rows'[bike[c]].image = rows[bike[c]].image]_vars
  BY StepKeepsImage
<1> QED BY <1>1, PhasesHold, PTL DEF Spec, PutKeepsImage

------------------------------------------------------------------------------
(* Broken images and stranded files *)

LEMMA InitOwned == Init => Owned
<1> SUFFICES ASSUME Init PROVE Owned
  OBVIOUS
<1>1. \A c \in Clients : pc[c] = "idle"
  BY DEF Init
<1>2. ASSUME NEW b \in Bikes, rows[b] # NoRow, rows[b].image \in Files
      PROVE  rows[b].image \in named /\ owner[rows[b].image] = b
  <2>1. b \in DOMAIN SeedImage /\ rows[b].image = SeedImage[b]
    BY <1>2 DEF Init
  <2>2. PICK f \in Files : f = SeedImage[b]
    BY <1>2, <2>1
  <2>3. \A a \in DOMAIN SeedImage : SeedImage[a] = f => a = b
    BY <2>1, <2>2, SeedImageAssumption
  <2>4. (CHOOSE a \in DOMAIN SeedImage : SeedImage[a] = f) = b
    BY <2>1, <2>2, <2>3, Zenon
  <2>5. f \in named
    BY <2>1, <2>2 DEF Init
  <2>6. owner[f] = CHOOSE a \in DOMAIN SeedImage : SeedImage[a] = f
    BY <2>1, <2>2, Zenon DEF Init
  <2> QED BY <2>1, <2>2, <2>4, <2>5, <2>6
<1> QED BY <1>1, <1>2 DEF Owned, Loaded, Uploaded, Replacing

LEMMA OwnedHold ==
    ASSUME PostImages \cap Files = {}
    PROVE  Spec => [](TypeOK /\ Phases /\ Versions /\ Owned)
<1>1. Init => Owned
  BY InitOwned
<1>2. TypeOK /\ Phases /\ Versions /\ Owned /\ [Next]_vars => Owned'
  <2> SUFFICES ASSUME TypeOK, Phases, Versions, Owned, [Next]_vars PROVE Owned'
    OBVIOUS
  <2>1. CASE UNCHANGED vars
    BY <2>1 DEF Owned, Loaded, Uploaded, Replacing, vars
  <2> QED BY <2>1, StepOwned DEF Next, Quiet
<1> QED BY <1>1, <1>2, PhasesHold, PTL DEF Spec

LEMMA InitImages == Init => BrokenOnlyByFailure /\ StrandedOnlyByFailure
<1> SUFFICES ASSUME Init PROVE BrokenOnlyByFailure /\ StrandedOnlyByFailure
  OBVIOUS
<1>1. \A b \in Bikes : rows[b] # NoRow /\ rows[b].image \in Files => rows[b].image \in disk
  BY DEF Init
<1>2. \A f \in disk : \E b \in Bikes : rows[b] # NoRow /\ rows[b].image = f
  <2> SUFFICES ASSUME NEW f \in disk
               PROVE  \E b \in Bikes : rows[b] # NoRow /\ rows[b].image = f
    OBVIOUS
  <2>1. PICK b \in DOMAIN SeedImage : SeedImage[b] = f
    BY DEF Init
  <2>2. b \in Bikes /\ rows[b] = [image |-> SeedImage[b], version |-> 0]
    BY SeedImageAssumption DEF Init
  <2>3. [image |-> SeedImage[b], version |-> 0] \in Row
    BY SeedImageAssumption, SMT DEF Row
  <2> QED BY <2>1, <2>2, <2>3, ImageAssumption
<1> QED BY <1>1, <1>2 DEF BrokenOnlyByFailure, StrandedOnlyByFailure, Stored

LEMMA StepBroken ==
    ASSUME PostImages \cap Files = {}, TypeOK, Phases, Versions, Owned, BrokenOnlyByFailure,
           NEW c \in Clients, Serve(c)
    PROVE  BrokenOnlyByFailure'
<1> USE ImageAssumption
<1>1. SUFFICES ASSUME NEW b \in Bikes, rows'[b] # NoRow, rows'[b].image \in Files \ disk'
               PROVE  \/ rows'[b].image \in victims'
                      \/ \E d \in Clients : bike'[d] = b /\ rows'[b].image \in DroppedBy(d)'
  BY DEF BrokenOnlyByFailure, Stored
<1>2. \A d \in Clients \ {c} : bike'[d] = bike[d] /\ DroppedBy(d)' = DroppedBy(d)
  BY OthersUntouched DEF DroppedBy
<1>3. \A f \in Files \ disk : rows[b] # NoRow /\ rows[b].image = f =>
          f \in victims \/ \E d \in Clients : bike[d] = b /\ f \in DroppedBy(d)
  BY DEF BrokenOnlyByFailure, Stored
\* The steps that leave the row of b alone, and delete nothing.
<1>4. CASE /\ rows'[b] = rows[b] /\ disk \subseteq disk' /\ victims \subseteq victims'
           /\ DroppedBy(c) \subseteq victims' \/ (bike'[c] = bike[c] /\ DroppedBy(c) \subseteq DroppedBy(c)')
  BY <1>1, <1>2, <1>3, <1>4
<1>5. CASE Begin(c) \/ BeginPost(c)
  <2>1. DroppedBy(c) = {} /\ UNCHANGED <<rows, disk, victims>>
    BY <1>5 DEF Begin, BeginPost, DroppedBy, history
  <2> QED BY <1>4, <2>1
<1>6. CASE Load(c) \/ RejectFile(c) \/ StoreFile(c) \/ BreakFile(c)
  <2>1. DroppedBy(c) = {} /\ UNCHANGED rows /\ disk \subseteq disk' /\ victims \subseteq victims'
    BY <1>6 DEF Load, RejectFile, StoreFile, BreakFile, Fails, DroppedBy, history
  <2> QED BY <1>4, <2>1
<1>7. CASE Conflict(c) \/ Crash(c)
  <2>1. DroppedBy(c) \subseteq victims' /\ UNCHANGED <<rows, disk>> /\ victims \subseteq victims'
    BY <1>7 DEF Conflict, Crash, Fails
  <2> QED BY <1>4, <2>1
<1>8. CASE DropFile(c)
  <2>1. /\ UNCHANGED <<rows, victims, bike, job, snap>> /\ disk \ disk' \subseteq Stored(snap[c].image)
        /\ DroppedBy(c) = {} /\ DroppedBy(c)' = Stored(snap[c].image) /\ Loaded(c)
    BY <1>8, SMT DEF TypeOK, Phases, DropFile, DroppedBy, Loaded, request
  <2>2. CASE rows[b].image \in disk
    <3>1. rows[b].image = snap[c].image /\ rows[b].image \in DroppedBy(c)'
      BY <1>1, <2>1, <2>2 DEF Stored
    <3>2. bike'[c] = b
      BY <1>1, <2>1, <3>1 DEF Owned
    <3> QED BY <2>1, <3>1, <3>2
  <2>3. CASE rows[b].image \notin disk
    BY <1>1, <1>2, <1>3, <2>1, <2>3
  <2> QED BY <2>2, <2>3
<1>9. CASE CommitClean(c)
  <2>1. DroppedBy(c) = {}
    BY <1>9 DEF CommitClean, MustWrite, DroppedBy, Stored
  <2> QED BY <1>4, <1>9, <2>1 DEF CommitClean, history
<1>10. CASE CommitPost(c)
  <2>1. /\ rows' = [rows EXCEPT ![bike[c]] = [image |-> image[c], version |-> 0]]
        /\ UNCHANGED <<disk, victims>> /\ image[c] \notin Files /\ DroppedBy(c) = {}
    BY <1>10 DEF CommitPost, Committed, Phases, Posting, DroppedBy, history
  <2>2. b # bike[c]
    BY <1>1, <2>1 DEF TypeOK
  <2> QED BY <1>4, <2>1, <2>2 DEF TypeOK
\* A commit that replaces an image forgets what it has dropped, which its row named.
<1>11. CASE CommitEdit(c) \/ CommitDelete(c)
  <2>1. /\ UNCHANGED <<disk, victims>> /\ Loaded(c) /\ snap[c] = rows[bike[c]]
        /\ \A a \in Bikes \ {bike[c]} : rows'[a] = rows[a]
    BY <1>11 DEF TypeOK, Versions, CommitEdit, CommitDelete, Committed, Current, MayWrite,
       MustWrite, Loaded, history
  <2>2. CASE b # bike[c]
    <3>1. rows[b].image \notin DroppedBy(c)
      <4>1. rows[b].image \in Files => owner[rows[b].image] = b
        BY <1>1, <2>1, <2>2 DEF Owned
      <4>2. DroppedBy(c) \subseteq {f \in Files : f = snap[c].image}
        BY DEF DroppedBy, Stored
      <4> QED BY <2>1, <2>2, <4>1, <4>2 DEF Owned
    <3> QED BY <1>1, <1>2, <1>3, <2>1, <2>2, <3>1
  <2>3. CASE b = bike[c]
    <3>1. CommitEdit(c) /\ rows'[b].image = image[c]
      BY <1>1, <1>11, <2>3 DEF TypeOK, CommitEdit, CommitDelete, Committed
    <3>2. job[c] = "put"
      <4>1. CASE job[c] = "upload"
        <5>1. image[c] \in disk
          BY <3>1, <4>1 DEF Owned, Uploaded, CommitEdit
        <5> QED BY <1>1, <2>1, <3>1, <5>1
      <4>2. CASE job[c] = "clear"
        BY <1>1, <3>1, <4>2 DEF Phases, CommitEdit
      <4> QED BY <3>1, <4>1, <4>2 DEF CommitEdit, MayWrite, MustWrite
    <3>3. rows[b] # NoRow /\ rows[b].image = image[c] /\ DroppedBy(c) = {}
      BY <2>1, <2>3, <3>1, <3>2 DEF Phases, CommitEdit, Current, DroppedBy
    <3> QED BY <1>1, <1>2, <1>3, <2>1, <3>1, <3>3
  <2> QED BY <2>2, <2>3
<1> QED BY <1>5, <1>6, <1>7, <1>8, <1>9, <1>10, <1>11 DEF Serve

LEMMA StepStranded ==
    ASSUME PostImages \cap Files = {}, TypeOK, Phases, Versions, Owned, StrandedOnlyByFailure,
           NEW c \in Clients, Serve(c)
    PROVE  StrandedOnlyByFailure'
<1> USE ImageAssumption
<1>1. SUFFICES ASSUME NEW f \in disk' \ strays'
               PROVE  \/ \E b \in Bikes : rows'[b] # NoRow /\ rows'[b].image = f
                      \/ \E d \in Clients : f \in StoredBy(d)'
  BY DEF StrandedOnlyByFailure
<1>2. \A d \in Clients \ {c} : StoredBy(d)' = StoredBy(d)
  BY OthersUntouched DEF StoredBy
<1>3. f \in disk \ strays =>
          \/ \E b \in Bikes : rows[b] # NoRow /\ rows[b].image = f
          \/ \E d \in Clients : f \in StoredBy(d)
  BY DEF StrandedOnlyByFailure
<1>4. CASE /\ f \in disk \ strays /\ UNCHANGED rows
           /\ f \notin StoredBy(c) \/ f \in StoredBy(c)'
  BY <1>2, <1>3, <1>4
<1>5. CASE Begin(c) \/ BeginPost(c)
  <2>1. StoredBy(c) = {} /\ UNCHANGED <<rows, disk, strays>>
    BY <1>5 DEF Begin, BeginPost, StoredBy, history
  <2> QED BY <1>1, <1>4, <2>1
<1>6. CASE Load(c) \/ RejectFile(c)
  <2>1. StoredBy(c) = {} /\ UNCHANGED <<rows, disk>> /\ strays \subseteq strays'
    BY <1>6 DEF Load, RejectFile, Fails, StoredBy, history
  <2> QED BY <1>1, <1>4, <2>1
<1>7. CASE StoreFile(c)
  <2>1. PICK g \in Files \ named : disk' = disk \cup {g} /\ image' = [image EXCEPT ![c] = g]
    BY <1>7 DEF StoreFile
  <2>2. StoredBy(c) = {} /\ StoredBy(c)' = {g} /\ UNCHANGED <<rows, strays>>
    BY <1>7, <2>1, SMT DEF TypeOK, Phases, StoreFile, StoredBy, request
  <2> QED BY <1>1, <1>2, <1>3, <2>1, <2>2
<1>8. CASE BreakFile(c)
  <2>1. StoredBy(c) = {} /\ UNCHANGED rows /\ disk' \ strays' \subseteq disk \ strays
    BY <1>8 DEF BreakFile, StoredBy
  <2> QED BY <1>1, <1>4, <2>1
<1>9. CASE DropFile(c)
  <2>1. /\ StoredBy(c)' = StoredBy(c) /\ UNCHANGED rows
        /\ disk' \subseteq disk /\ strays \subseteq strays'
    BY <1>9, SMT DEF TypeOK, DropFile, StoredBy, request
  <2> QED BY <1>1, <1>4, <2>1
<1>10. CASE Conflict(c) \/ Crash(c)
  <2>1. UNCHANGED <<rows, disk>> /\ strays' = strays \cup (StoredBy(c) \cap disk)
    BY <1>10 DEF Conflict, Crash, Fails
  <2> QED BY <1>1, <1>4, <2>1
<1>11. CASE CommitClean(c)
  <2>1. StoredBy(c) = {} /\ UNCHANGED <<rows, disk, strays>>
    BY <1>11 DEF CommitClean, MustWrite, StoredBy, history
  <2> QED BY <1>1, <1>4, <2>1
<1>12. CASE CommitPost(c)
  <2>1. /\ rows[bike[c]] = NoRow /\ UNCHANGED <<disk, strays>> /\ StoredBy(c) = {}
        /\ \A a \in Bikes \ {bike[c]} : rows'[a] = rows[a]
    BY <1>12 DEF TypeOK, Versions, Posting, CommitPost, Committed, StoredBy, history
  <2> QED BY <1>1, <1>2, <1>3, <2>1
<1>13. CASE CommitEdit(c) \/ CommitDelete(c)
  <2>1. /\ UNCHANGED <<disk, strays>> /\ snap[c] = rows[bike[c]]
        /\ \A a \in Bikes \ {bike[c]} : rows'[a] = rows[a]
    BY <1>13 DEF TypeOK, Versions, CommitEdit, CommitDelete, Committed, Current, MayWrite,
       MustWrite, Loaded, history
  <2>2. bike[c] \in Bikes
    BY DEF TypeOK
  <2>3. CASE job[c] = "put"
    <3>1. rows'[bike[c]] = [image |-> snap[c].image, version |-> snap[c].version + 1]
      BY <1>13, <2>3 DEF TypeOK, Phases, CommitEdit, CommitDelete, Committed
    <3>2. rows'[bike[c]] \in Row
      BY <3>1, SMT DEF TypeOK, Row
    <3>3. StoredBy(c) = {}
      BY <2>3 DEF StoredBy
    <3> QED BY <1>1, <1>2, <1>3, <2>1, <2>2, <3>1, <3>2, <3>3
  <2>4. CASE job[c] # "put"
    <3>1. Replacing(c)
      BY <1>13, <2>4 DEF CommitEdit, CommitDelete, MayWrite, MustWrite, Replacing
    <3>2. f # rows[bike[c]].image
      BY <1>1, <2>1, <3>1 DEF Owned
    <3>3. CASE f \in StoredBy(c)
      <4>1. CommitEdit(c) /\ f = image[c]
        BY <1>13, <3>3 DEF CommitDelete, StoredBy
      <4>2. rows'[bike[c]] = [image |-> f, version |-> snap[c].version + 1]
        BY <4>1 DEF TypeOK, CommitEdit, Committed
      <4>3. rows'[bike[c]] \in Row
        BY <4>1, <4>2, SMT DEF TypeOK, Row
      <4> QED BY <2>2, <4>2, <4>3
    <3>4. CASE f \notin StoredBy(c)
      BY <1>1, <1>2, <1>3, <2>1, <3>2, <3>4
    <3> QED BY <3>3, <3>4
  <2> QED BY <2>3, <2>4
<1> QED BY <1>5, <1>6, <1>7, <1>8, <1>9, <1>10, <1>11, <1>12, <1>13 DEF Serve

\* In every behaviour in which POST bodies carry no image path of this API, a row names a
\* missing file only while the request that deleted it has not ended, or after that request
\* failed (BrokenOnlyByFailure of ImageLifecycle).  Run shared shows the hypothesis is needed.
THEOREM ImagesBreakOnlyByFailure ==
    ASSUME PostImages \cap Files = {}
    PROVE  Spec => []BrokenOnlyByFailure
<1>1. TypeOK /\ Phases /\ Versions /\ Owned /\ BrokenOnlyByFailure /\ [Next]_vars
        => BrokenOnlyByFailure'
  <2>1. BrokenOnlyByFailure /\ UNCHANGED vars => BrokenOnlyByFailure'
    BY DEF BrokenOnlyByFailure, DroppedBy, vars
  <2> QED BY <2>1, StepBroken DEF Next, Quiet
<1> QED BY <1>1, InitImages, OwnedHold, PTL DEF Spec

\* Under the same hypothesis, a file that no row names is on disk only while its upload is
\* under way, or because a request failed or the directory refused a deletion
\* (StrandedOnlyByFailure of ImageLifecycle).
THEOREM FilesStrandOnlyByFailure ==
    ASSUME PostImages \cap Files = {}
    PROVE  Spec => []StrandedOnlyByFailure
<1>1. TypeOK /\ Phases /\ Versions /\ Owned /\ StrandedOnlyByFailure /\ [Next]_vars
        => StrandedOnlyByFailure'
  <2>1. StrandedOnlyByFailure /\ UNCHANGED vars => StrandedOnlyByFailure'
    BY DEF StrandedOnlyByFailure, StoredBy, vars
  <2> QED BY <2>1, StepStranded DEF Next, Quiet
<1> QED BY <1>1, InitImages, OwnedHold, PTL DEF Spec
=============================================================================
