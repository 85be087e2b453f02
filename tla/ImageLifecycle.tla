---------------------------- MODULE ImageLifecycle ----------------------------
(***************************************************************************)
(* The image of a motorcycle: a column of its row, and a file that the     *)
(* column may name.  updateImage, removeImage, delete, update and create   *)
(* of MotorcycleService over the row, and storeFile and deleteFile of      *)
(* FileStorageServiceImpl over the directory.                              *)
(*                                                                         *)
(* The directory knows no transactions: a file is there once it is copied  *)
(* and gone once it is deleted, whatever becomes of the row.  The row's    *)
(* write is checked against the version it loaded, and applied at commit.  *)
(***************************************************************************)
EXTENDS Naturals

CONSTANTS
    Clients,      \* request threads
    Bikes,        \* ids
    Files,        \* names storeFile generates; each is a fresh UUID
    Hosted,       \* image URLs that point somewhere else
    NoImage,      \* a null image_url
    NoRow,        \* no such motorcycle
    SeedImage,    \* the image_url of the bikes there are at the start, by id
    PostImages,   \* the image_url values that POST requests carry
    MaxRequests   \* bound: requests served in one behaviour

Images == Files \cup Hosted \cup {NoImage}
Row == [image : Images, version : Nat]
Jobs == {"post", "put", "delete", "upload", "clear"}

ASSUME ImageAssumption ==
    /\ Files \cap Hosted = {}
    /\ NoImage \notin Files \cup Hosted
    /\ NoRow \notin Row
    /\ PostImages \subseteq Images
    /\ MaxRequests \in Nat
ASSUME SeedImageAssumption ==
    /\ DOMAIN SeedImage \subseteq Bikes
    /\ DOMAIN SeedImage # {}
    /\ \A b \in DOMAIN SeedImage : SeedImage[b] \in Images
    /\ \A a, b \in DOMAIN SeedImage : SeedImage[a] = SeedImage[b] /\ SeedImage[a] \in Files => a = b

VARIABLES
    rows,      \* committed rows, by id
    born,      \* ids handed out so far
    disk,      \* files in the storage directory
    named,     \* file names generated so far
    issued,    \* requests sent so far
    pc, job, bike,
    snap,      \* the row a request loaded
    image,     \* image_url of its managed entity
    owner,     \* the bike each file was uploaded for (history)
    strays,    \* files a failure left behind: stored by a request that then
               \* failed, or not deleted because the directory refused (history)
    victims    \* files deleted by a request that then failed (history)

vars == <<rows, born, disk, named, issued, pc, job, bike, snap, image, owner, strays, victims>>
history == <<owner, strays, victims>>
request == <<job, bike, issued>>

Anything(url) == {url}  \* mutants: whatever the URL is, it is taken for ours; or never
Nothing(url) == {}

\* The file an image URL of this API names, if it is one: nothing else is deleted.
Stored(url) == {url} \cap Files

\* What a request has put in the directory, and taken from it, before its commit.
StoredBy(c) == IF job[c] = "upload" /\ pc[c] \in {"drop", "commit"} THEN {image[c]} ELSE {}
DroppedBy(c) ==
    IF job[c] \in {"upload", "clear", "delete"} /\ pc[c] = "commit"
    THEN Stored(snap[c].image) ELSE {}

End(c) == pc' = [pc EXCEPT ![c] = "idle"]

\* The request fails: its row write is rolled back, its file operations are not.
Fails(c) ==
    /\ End(c)
    /\ strays' = strays \cup (StoredBy(c) \cap disk)
    /\ victims' = victims \cup DroppedBy(c)
    /\ UNCHANGED <<rows, born, disk, named, request, snap, image, owner>>

Begin(c) ==
    /\ pc[c] = "idle"
    /\ issued < MaxRequests
    /\ issued' = issued + 1
    /\ \E j \in Jobs \ {"post"}, b \in Bikes :
        /\ job' = [job EXCEPT ![c] = j]
        /\ bike' = [bike EXCEPT ![c] = b]
    /\ pc' = [pc EXCEPT ![c] = "load"]
    /\ UNCHANGED <<rows, born, disk, named, snap, image, history>>

\* A create takes the URL as the body gives it: nothing to load, nothing to drop.
BeginPost(c) ==
    /\ pc[c] = "idle"
    /\ issued < MaxRequests
    /\ issued' = issued + 1
    /\ job' = [job EXCEPT ![c] = "post"]
    /\ \E b \in Bikes \ born :
        /\ bike' = [bike EXCEPT ![c] = b]
        /\ born' = born \cup {b}
    /\ \E url \in PostImages : image' = [image EXCEPT ![c] = url]
    /\ pc' = [pc EXCEPT ![c] = "commit"]
    /\ UNCHANGED <<rows, disk, named, snap, history>>

\* requireById, and the 404.
Load(c) ==
    /\ pc[c] = "load"
    /\ IF rows[bike[c]] = NoRow
       THEN Fails(c)
       ELSE /\ snap' = [snap EXCEPT ![c] = rows[bike[c]]]
            /\ image' = [image EXCEPT ![c] = IF job[c] = "clear" THEN NoImage
                                             ELSE rows[bike[c]].image]
            /\ pc' = [pc EXCEPT ![c] = CASE job[c] = "upload" -> "store"
                                         [] job[c] = "put" -> "commit"
                                         [] OTHER -> "drop"]
            /\ UNCHANGED <<rows, born, disk, named, request, history>>

\* storeFile: the upload is refused before anything happens, ...
RejectFile(c) == pc[c] = "store" /\ Fails(c)

\* ... or copied under a fresh name, before the row is touched, ...
StoreFile(c) ==
    /\ pc[c] = "store"
    /\ \E f \in Files \ named :
        /\ named' = named \cup {f}
        /\ disk' = disk \cup {f}
        /\ image' = [image EXCEPT ![c] = f]
        /\ owner' = [owner EXCEPT ![f] = bike[c]]
    /\ pc' = [pc EXCEPT ![c] = "drop"]
    /\ UNCHANGED <<rows, born, request, snap, strays, victims>>

\* ... or the copy breaks off, with part of the file already written.
BreakFile(c) ==
    /\ pc[c] = "store"
    /\ \E f \in Files \ named :
        /\ named' = named \cup {f}
        /\ disk' = disk \cup {f}
        /\ strays' = strays \cup {f}
        /\ owner' = [owner EXCEPT ![f] = bike[c]]
    /\ End(c)
    /\ UNCHANGED <<rows, born, request, snap, image, victims>>

\* deleteFile on what the loaded row named.  It reports failure and never throws.
DropFile(c) ==
    /\ pc[c] = "drop"
    /\ \/ disk' = disk \ Stored(snap[c].image) /\ UNCHANGED strays
       \/ /\ Stored(snap[c].image) \cap disk # {}
          /\ strays' = strays \cup Stored(snap[c].image)
          /\ UNCHANGED disk
    /\ pc' = [pc EXCEPT ![c] = "commit"]
    /\ UNCHANGED <<rows, born, named, request, snap, image, owner, victims>>

StillThere(c) == rows[bike[c]] # NoRow  \* mutant: no version in the where clause

\* The version check of the update or delete statement.
Current(c) == rows[bike[c]] # NoRow /\ rows[bike[c]].version = snap[c].version

Committed(c, row) ==
    /\ rows' = [rows EXCEPT ![bike[c]] = row]
    /\ End(c)
    /\ UNCHANGED <<born, disk, named, request, snap, image, history>>

CommitPost(c) ==
    /\ pc[c] = "commit" /\ job[c] = "post"
    /\ Committed(c, [image |-> image[c], version |-> 0])

\* A clear of a bike that has no image leaves the entity clean, and so may an edit.
MustWrite(c) == job[c] \in {"upload", "delete"} \/ (job[c] = "clear" /\ snap[c].image # NoImage)
MayWrite(c) == job[c] = "put" \/ MustWrite(c)

\* A write of the row, an upload, a clear or an edit: every column goes back as it
\* was loaded or set, the image with the rest.
CommitEdit(c) ==
    /\ pc[c] = "commit" /\ job[c] # "delete"
    /\ MayWrite(c)
    /\ Current(c)
    /\ Committed(c, [image |-> image[c], version |-> snap[c].version + 1])

\* A clean entity: no statement is sent, no version looked at.
CommitClean(c) ==
    /\ pc[c] = "commit" /\ job[c] # "post"
    /\ ~MustWrite(c)
    /\ End(c)
    /\ UNCHANGED <<rows, born, disk, named, request, snap, image, history>>

CommitDelete(c) ==
    /\ pc[c] = "commit" /\ job[c] = "delete"
    /\ Current(c)
    /\ Committed(c, NoRow)

\* The version check finds no row: 409.
Conflict(c) ==
    /\ pc[c] = "commit"
    /\ MayWrite(c)
    /\ ~Current(c)
    /\ Fails(c)

\* A timeout, a lost connection or the end of the process, anywhere on the way.
Crash(c) == pc[c] # "idle" /\ Fails(c)

Init ==
    LET seeded(b) == b \in DOMAIN SeedImage
        seedFiles == {f \in Files : \E b \in DOMAIN SeedImage : SeedImage[b] = f}
    IN  /\ rows = [b \in Bikes |-> IF seeded(b) THEN [image |-> SeedImage[b], version |-> 0]
                                   ELSE NoRow]
        /\ born = DOMAIN SeedImage
        /\ disk = seedFiles
        /\ named = seedFiles
        /\ issued = 0
        /\ pc = [c \in Clients |-> "idle"]
        /\ job = [c \in Clients |-> "put"]
        /\ bike = [c \in Clients |-> CHOOSE b \in DOMAIN SeedImage : TRUE]
        /\ snap = [c \in Clients |-> [image |-> NoImage, version |-> 0]]
        /\ image = [c \in Clients |-> NoImage]
        /\ owner = [f \in Files |-> IF f \in seedFiles
                                    THEN CHOOSE b \in DOMAIN SeedImage : SeedImage[b] = f
                                    ELSE NoRow]
        /\ strays = {}
        /\ victims = {}

Quiet ==
    /\ issued = MaxRequests
    /\ \A c \in Clients : pc[c] = "idle"
    /\ UNCHANGED vars

Serve(c) ==
    \/ Begin(c) \/ BeginPost(c) \/ Load(c)
    \/ RejectFile(c) \/ StoreFile(c) \/ BreakFile(c) \/ DropFile(c)
    \/ CommitPost(c) \/ CommitEdit(c) \/ CommitClean(c) \/ CommitDelete(c)
    \/ Conflict(c) \/ Crash(c)

Next == (\E c \in Clients : Serve(c)) \/ Quiet

Spec == Init /\ [][Next]_vars

------------------------------------------------------------------------------
(* Properties *)

\* Rows, directory and locals hold values of their types.
TypeOK ==
    /\ rows \in [Bikes -> Row \cup {NoRow}]
    /\ born \subseteq Bikes
    /\ disk \subseteq named /\ named \subseteq Files
    /\ issued \in 0..MaxRequests
    /\ pc \in [Clients -> {"idle", "load", "store", "drop", "commit"}]
    /\ job \in [Clients -> Jobs]
    /\ bike \in [Clients -> Bikes]
    /\ snap \in [Clients -> Row]
    /\ image \in [Clients -> Images]
    /\ owner \in [Files -> Bikes \cup {NoRow}]
    /\ strays \subseteq Files
    /\ victims \subseteq Files

\* A row names a file that is not there only while the request that deleted the file
\* is on its way to its commit, or after that request failed: the price the comment in
\* updateImage accepts, and no other way to a broken image.
BrokenOnlyByFailure ==
    \A b \in Bikes : rows[b] # NoRow =>
        \A f \in Stored(rows[b].image) \ disk :
            f \in victims \/ \E c \in Clients : bike[c] = b /\ f \in DroppedBy(c)

\* A file no row names is on disk only while its upload is under way, or because some
\* request failed or the directory refused a deletion: racing uploads, edits and
\* deletes that succeed leave nothing behind.
StrandedOnlyByFailure ==
    \A f \in disk \ strays :
        \/ \E b \in Bikes : rows[b] # NoRow /\ rows[b].image = f
        \/ \E c \in Clients : f \in StoredBy(c)

\* The image is owned by the two /image endpoints: a PUT writes the column back with
\* the rest of the row, and must never bring back an image it raced.
PutKeepsImage ==
    [][\A c \in Clients :
          job[c] = "put" /\ pc[c] = "commit" /\ pc'[c] = "idle" /\ rows'[bike[c]] # NoRow
              => rows'[bike[c]].image = rows[bike[c]].image]_vars

\* What storedFileNameOf says its callers must not do: no request deletes a file that
\* was stored for another motorcycle.
OnlyOwnFilesDeleted ==
    [][\A c \in Clients, f \in disk \ disk' :
          pc[c] = "drop" /\ pc'[c] = "commit" => owner[f] = bike[c]]_vars
==============================================================================
