--------------------------- MODULE OfflineSync_proofs ---------------------------
(***************************************************************************)
(* Why no photo is sent or linked twice and nothing that was stored         *)
(* disappears.                                                              *)
(*                                                                          *)
(* Every list of photos, wherever it is kept, speaks of files that exist    *)
(* and show the photo, and calls linked only what is evidence (Sound).  As  *)
(* long as the inspector lets each synchronisation end, the lists that can  *)
(* still reach the server remember the file under which a photo became      *)
(* evidence (Remembers), and carry what the page last stored (Faithful):    *)
(* the device and the running copy always, the page when nothing runs.      *)
(***************************************************************************)
EXTENDS OfflineSync, FiniteSetTheorems, TLAPS

\* The visits that are submitted or withdrawn after all are spelt out everywhere.
USE DEF Received, Withdrawn

PhotoLists == [Photos -> PhotoRecords]

Sound(photos, fs, ev, n) ==
  \A p \in Photos :
    /\ photos[p].file \in 0..Len(fs)
    /\ photos[p].file # NoFile => fs[photos[p].file].photo = p
    /\ photos[p].state # "absent" => p <= n
    /\ photos[p].state = "linked" => photos[p].file \in ev

Truthful(d, fs, ev, n, v) == Sound(d.photos, fs, ev, n) /\ (d.visit => v \in Received)

AllTruthful ==
  /\ device # None => Truthful(device, files, evidence, shots, visit)
  /\ Truthful(page.draft, files, evidence, shots, visit)
  /\ page.list # None => Sound(page.list, files, evidence, shots)
  /\ \A s \in Syncs : Truthful(syncs[s].copy, files, evidence, shots, visit)

FilesShown == \A f \in DOMAIN files : files[f].photo <= shots

Remembers(photos, fs, ev) ==
  \A f \in ev : photos[fs[f].photo].state = "absent" \/ photos[fs[f].photo].file = f

Faithful(d, fs, ev, stored) ==
  /\ Remembers(d.photos, fs, ev)
  /\ d.findings = stored.findings
  /\ stored.photos \subseteq Taken(d.photos)

\* Who is at work when nothing was done beside a synchronisation.
Alone ==
  /\ ~page.open => page = Closed
  /\ \A s \in Running : page.open => page.sync = s
  /\ \A s, t \in Running : s = t
  /\ Running # {} => page.list = None
  /\ device = None => ~page.open /\ Running = {}

Kept ==
  /\ device # None => Faithful(device, files, evidence, intended)
  /\ \A s \in Running : Faithful(syncs[s].copy, files, evidence, intended)
  /\ Running = {} =>
       /\ Remembers(page.draft.photos, files, evidence)
       /\ page.list # None => Remembers(page.list, files, evidence)

Delivered ==
  /\ visit \in Received /\ ~amended => written = intended.findings
  /\ device = None /\ ~discarded => visit \in Received /\ intended.photos \subseteq OnServer

Once == \A f, g \in evidence : files[f].photo = files[g].photo => f = g

Orderly == Alone /\ Kept /\ Delivered /\ Once

Inv ==
  /\ TypeOK
  /\ AllTruthful
  /\ FilesShown
  /\ Undisturbed => Orderly

----------------------------------------------------------------------------
(* Lists of photos.                                                         *)

LEMMA SoundGrows ==
  ASSUME NEW photos \in PhotoLists, NEW fs \in Seq(FileRecords), NEW gs \in Seq(FileRecords),
         NEW ev, NEW ew, NEW n \in Nat, NEW m \in Nat,
         Sound(photos, fs, ev, n), Len(fs) <= Len(gs),
         \A f \in 1..Len(fs) : gs[f].photo = fs[f].photo, ev \subseteq ew, n <= m
  PROVE  Sound(photos, gs, ew, m)
<1> SUFFICES ASSUME NEW p \in Photos
             PROVE /\ photos[p].file \in 0..Len(gs)
                   /\ photos[p].file # NoFile => gs[photos[p].file].photo = p
                   /\ photos[p].state # "absent" => p <= m
                   /\ photos[p].state = "linked" => photos[p].file \in ew
  BY DEF Sound
<1>1. /\ photos[p].file \in 0..Len(fs)
      /\ photos[p].file # NoFile => fs[photos[p].file].photo = p
      /\ photos[p].state # "absent" => p <= n
      /\ photos[p].state = "linked" => photos[p].file \in ev
  BY DEF Sound
<1>2. p \in Nat /\ Len(fs) \in Nat /\ Len(gs) \in Nat
  BY OfflineAssumption DEF Photos
<1>3. photos[p].file # NoFile => photos[p].file \in 1..Len(fs)
  BY <1>1, <1>2 DEF NoFile
<1> QED BY <1>1, <1>2, <1>3

LEMMA SoundSet ==
  ASSUME NEW photos \in PhotoLists, NEW fs, NEW ev, NEW n, NEW p \in Photos,
         NEW photo \in PhotoRecords, Sound(photos, fs, ev, n),
         photo.file \in 0..Len(fs), photo.file # NoFile => fs[photo.file].photo = p,
         photo.state # "absent" => p <= n, photo.state = "linked" => photo.file \in ev
  PROVE  /\ [photos EXCEPT ![p] = photo] \in PhotoLists
         /\ Sound([photos EXCEPT ![p] = photo], fs, ev, n)
BY DEF Sound, PhotoLists

LEMMA EmptySound ==
  ASSUME NEW fs \in Seq(FileRecords), NEW ev \in SUBSET DOMAIN fs, NEW n, NEW v
  PROVE  /\ Empty \in Drafts /\ NoPhoto \in PhotoRecords
         /\ Truthful(Empty, fs, ev, n, v) /\ Remembers(Empty.photos, fs, ev)
<1>1. Empty \in Drafts /\ NoPhoto \in PhotoRecords
  BY DEF Empty, Drafts, NoPhoto, PhotoRecords, NoFile
<1>2. Len(fs) \in Nat
  OBVIOUS
<1>3. \A p \in Photos : Empty.photos[p].state = "absent" /\ Empty.photos[p].file = NoFile
  BY DEF Empty, NoPhoto
<1>4. Sound(Empty.photos, fs, ev, n)
  BY <1>2, <1>3 DEF Sound, NoFile
<1>5. ASSUME NEW f \in ev PROVE Empty.photos[fs[f].photo].state = "absent"
  <2>1. fs[f] \in FileRecords
    OBVIOUS
  <2>2. fs[f].photo \in Photos
    BY <2>1 DEF FileRecords
  <2> QED BY <1>3, <2>2
<1>6. Empty.visit = FALSE
  BY DEF Empty
<1> QED BY <1>1, <1>4, <1>5, <1>6 DEF Truthful, Remembers

(* The file under which a photo became evidence. *)

LEMMA RemembersGrows ==
  ASSUME NEW photos, NEW fs \in Seq(FileRecords), NEW gs \in Seq(FileRecords),
         NEW ev \in SUBSET DOMAIN fs, \A f \in 1..Len(fs) : gs[f].photo = fs[f].photo,
         Remembers(photos, fs, ev)
  PROVE  Remembers(photos, gs, ev)
BY DEF Remembers

LEMMA RemembersSet ==
  ASSUME NEW photos \in PhotoLists, NEW fs \in Seq(FileRecords), NEW ev \in SUBSET DOMAIN fs,
         NEW p \in Photos, NEW photo, Remembers(photos, fs, ev),
         \A f \in ev : fs[f].photo = p => photo.state = "absent" \/ photo.file = f
  PROVE  Remembers([photos EXCEPT ![p] = photo], fs, ev)
<1> SUFFICES ASSUME NEW f \in ev
             PROVE \/ [photos EXCEPT ![p] = photo][fs[f].photo].state = "absent"
                   \/ [photos EXCEPT ![p] = photo][fs[f].photo].file = f
  BY DEF Remembers
<1>1. fs[f] \in FileRecords
  OBVIOUS
<1>2. fs[f].photo \in Photos
  BY <1>1 DEF FileRecords
<1>3. CASE fs[f].photo = p
  BY <1>2, <1>3 DEF PhotoLists
<1>4. CASE fs[f].photo # p
  BY <1>2, <1>4 DEF PhotoLists, Remembers
<1> QED BY <1>3, <1>4

LEMMA RemembersLink ==
  ASSUME NEW photos, NEW fs, NEW ev, NEW f, Remembers(photos, fs, ev),
         photos[fs[f].photo].file = f
  PROVE  Remembers(photos, fs, ev \cup {f})
BY DEF Remembers

----------------------------------------------------------------------------
(* Types.                                                                   *)

LEMMA PersistEffect ==
  ASSUME TypeOK, NEW s \in Syncs, NEW p \in Photos, NEW photo \in PhotoRecords,
         Persist(s, p, photo)
  PROVE  /\ syncs' \in [Syncs -> SyncRecords] /\ device' \in Drafts
         /\ device' = syncs'[s].copy
         /\ syncs'[s].step = syncs[s].step
         /\ syncs'[s].copy.photos = [syncs[s].copy.photos EXCEPT ![p] = photo]
         /\ syncs'[s].copy.findings = syncs[s].copy.findings
         /\ syncs'[s].copy.visit = syncs[s].copy.visit
         /\ \A t \in Syncs \ {s} : syncs'[t] = syncs[t]
<1>1. syncs \in [Syncs -> SyncRecords] /\ p \in Nat
  BY OfflineAssumption DEF TypeOK, Photos
<1>2. syncs[s] \in SyncRecords
  BY <1>1
<1>3. syncs[s].copy \in Drafts
  BY <1>2 DEF SyncRecords
<1>4. syncs[s].copy.photos \in PhotoLists
  BY <1>3 DEF Drafts, PhotoLists
<1> DEFINE photos == [syncs[s].copy.photos EXCEPT ![p] = photo]
           copy == [syncs[s].copy EXCEPT !.photos = photos]
           r == [syncs[s] EXCEPT !.at = p, !.copy = copy]
<1>5. photos \in [Photos -> PhotoRecords]
  BY <1>4 DEF PhotoLists
<1>6. copy \in Drafts
  BY <1>3, <1>5 DEF Drafts
<1>7. r \in SyncRecords
  BY <1>1, <1>2, <1>6 DEF SyncRecords
<1>8. syncs' = [syncs EXCEPT ![s] = r]
  BY <1>1, <1>2, <1>3 DEF Persist, SyncRecords, Drafts
<1>9. syncs'[s] = r /\ \A t \in Syncs \ {s} : syncs'[t] = syncs[t]
  BY <1>1, <1>8
<1>10. r.copy = copy /\ r.step = syncs[s].step
  BY <1>2 DEF SyncRecords
<1>11. copy.photos = photos /\ copy.findings = syncs[s].copy.findings
       /\ copy.visit = syncs[s].copy.visit
  BY <1>3 DEF Drafts
<1> HIDE DEF r, copy, photos
<1>12. syncs' \in [Syncs -> SyncRecords]
  BY <1>1, <1>7, <1>8
<1>13. device' = syncs'[s].copy
  BY DEF Persist
<1> QED BY <1>6, <1>9, <1>10, <1>11, <1>12, <1>13 DEF photos

LEMMA IdleEffect ==
  ASSUME TypeOK, NEW s \in Syncs, syncs' = [syncs EXCEPT ![s] = Idle]
  PROVE  /\ syncs' \in [Syncs -> SyncRecords]
         /\ syncs'[s] = Idle /\ \A t \in Syncs \ {s} : syncs'[t] = syncs[t]
         /\ Running' = Running \ {s}
<1>1. Idle \in SyncRecords
  BY EmptySound DEF Idle, SyncRecords, TypeOK
<1>2. syncs \in [Syncs -> SyncRecords]
  BY DEF TypeOK
<1>3. syncs'[s] = Idle /\ \A t \in Syncs \ {s} : syncs'[t] = syncs[t]
  BY <1>2
<1>4. Idle.step = "idle"
  BY DEF Idle
<1>5. Running' = Running \ {s}
  BY <1>3, <1>4 DEF Running
<1> QED BY <1>1, <1>2, <1>3, <1>5

LEMMA ReturnTypes ==
  ASSUME TypeOK, NEW s \in Syncs, Return(s)
  PROVE  device' \in Drafts /\ page' \in PageRecords /\ syncs' \in [Syncs -> SyncRecords]
<1>1. syncs[s] \in SyncRecords
  BY DEF TypeOK
<1>2. syncs[s].copy \in Drafts
  BY <1>1 DEF SyncRecords
<1>3. page \in PageRecords
  BY DEF TypeOK
<1>4. [page EXCEPT !.draft = syncs[s].copy, !.unsaved = FALSE, !.sync = None] \in PageRecords
  BY <1>2, <1>3 DEF PageRecords
<1>5. syncs' \in [Syncs -> SyncRecords]
  BY IdleEffect DEF Return
<1> QED BY <1>2, <1>3, <1>4, <1>5 DEF Return

LEMMA UploadEffect ==
  ASSUME TypeOK, NEW p \in Photos, NEW scan \in {"scanning", "clean", "rejected"},
         Upload(p, scan)
  PROVE  /\ files' \in Seq(FileRecords)
         /\ Len(files') = Len(files) + 1
         /\ \A f \in 1..Len(files) : files'[f] = files[f]
         /\ files'[NewFile].photo = p
         /\ NewFile = Len(files) + 1
         /\ evidence \subseteq DOMAIN files'
<1>1. files \in Seq(FileRecords) /\ [photo |-> p, scan |-> scan] \in FileRecords
  BY DEF TypeOK, FileRecords
<1>2. evidence \subseteq 1..Len(files)
  BY <1>1 DEF TypeOK
<1> QED BY <1>1, <1>2 DEF Upload, NewFile

LEMMA ClosedTypes == TypeOK => Closed \in PageRecords /\ Idle \in SyncRecords
<1> SUFFICES ASSUME TypeOK PROVE Closed \in PageRecords /\ Idle \in SyncRecords
  OBVIOUS
<1>1. Empty \in Drafts
  BY EmptySound DEF TypeOK
<1> QED BY <1>1 DEF Closed, Idle, PageRecords, SyncRecords

LEMMA LinkEffect ==
  ASSUME TypeOK, AllTruthful, NEW s \in Syncs, NEW p \in First(ToLink(s))
  PROVE  /\ p \in Photos /\ syncs[s].copy.photos[p].file \in DOMAIN files
         /\ files[syncs[s].copy.photos[p].file].photo = p
         /\ files[syncs[s].copy.photos[p].file] \in FileRecords
         /\ syncs[s].copy.photos[p].state \notin {"absent", "linked", "rejected"}
<1>1. p \in Photos /\ syncs[s].copy.photos[p].file # NoFile
      /\ syncs[s].copy.photos[p].state \notin {"absent", "linked", "rejected"}
  BY DEF First, ToLink
<1>2. Sound(syncs[s].copy.photos, files, evidence, shots)
  BY DEF AllTruthful, Truthful
<1>3. /\ syncs[s].copy.photos[p].file \in 0..Len(files)
      /\ files[syncs[s].copy.photos[p].file].photo = p
  BY <1>1, <1>2 DEF Sound
<1>4. files \in Seq(FileRecords)
  BY DEF TypeOK
<1>5. syncs[s].copy.photos[p].file \in DOMAIN files
  BY <1>1, <1>3, <1>4 DEF NoFile
<1> QED BY <1>1, <1>3, <1>4, <1>5

LEMMA PageTypes ==
  ASSUME TypeOK, OpenPage \/ LeavePage \/ Type \/ SetPhotos \/ Autosave \/ Discard \/ Reload
  PROVE  TypeOK'
<1>1. page \in PageRecords /\ Closed \in PageRecords /\ device \in Drafts \cup {None}
      /\ Idle \in SyncRecords
  BY ClosedTypes DEF TypeOK
<1>2. page.draft \in Drafts
  BY <1>1 DEF PageRecords
<1>3. beside \in Nat /\ MaxBeside \in Nat
  BY OfflineAssumption DEF TypeOK
<1>4. Beside => beside' \in Nat
  BY <1>3 DEF Beside, Besides
<1>5. CASE OpenPage
  <2>1. device \in Drafts
    BY <1>1, <1>5 DEF OpenPage
  <2>2. page' \in PageRecords
    BY <1>1, <1>5, <2>1 DEF OpenPage, PageRecords
  <2> QED BY <1>4, <1>5, <2>2 DEF OpenPage, Unchanged, server, TypeOK
<1>6. CASE LeavePage
  BY <1>1, <1>6 DEF LeavePage, Unchanged, server, history, TypeOK
<1>7. CASE Type
  <2>1. page.draft.findings + 1 \in Nat
    BY <1>2 DEF Drafts
  <2>2. [page.draft EXCEPT !.findings = page.draft.findings + 1] \in Drafts
    BY <1>2, <2>1 DEF Drafts
  <2>3. page' = [page EXCEPT !.draft = [page.draft EXCEPT !.findings = page.draft.findings + 1],
                             !.unsaved = TRUE]
    BY <1>1, <1>2, <1>7 DEF Type, PageRecords, Drafts
  <2>4. page' \in PageRecords
    BY <1>1, <2>2, <2>3 DEF PageRecords
  <2> QED BY <1>4, <1>7, <2>4 DEF Type, Unchanged, server, TypeOK
<1>8. CASE SetPhotos
  <2>1. page.list \in [Photos -> PhotoRecords]
    BY <1>1, <1>8 DEF SetPhotos, PageRecords
  <2>2. [page.draft EXCEPT !.photos = page.list] \in Drafts
    BY <1>2, <2>1 DEF Drafts
  <2>3. page' = [page EXCEPT !.draft = [page.draft EXCEPT !.photos = page.list],
                             !.list = None, !.unsaved = TRUE]
    BY <1>1, <1>2, <1>8 DEF SetPhotos, PageRecords, Drafts
  <2>4. page' \in PageRecords
    BY <1>1, <2>2, <2>3 DEF PageRecords
  <2> QED BY <1>4, <1>8, <2>4 DEF SetPhotos, Unchanged, server, TypeOK
<1>9. Stored => intended' \in [findings : Nat, photos : SUBSET Photos] /\ amended' \in BOOLEAN
  <2>1. page.draft.findings \in Nat /\ amended \in BOOLEAN
    BY <1>2 DEF Drafts, TypeOK
  <2> QED BY <2>1 DEF Stored, Taken
<1>10. CASE Autosave
  <2>1. page' \in PageRecords
    BY <1>1, <1>10 DEF Autosave, PageRecords
  <2>2. device' \in Drafts
    BY <1>2, <1>10 DEF Autosave
  <2> QED BY <1>4, <1>9, <1>10, <2>1, <2>2 DEF Autosave, Unchanged, server, TypeOK
<1>11. CASE Discard
  BY <1>1, <1>4, <1>11 DEF Discard, Unchanged, server, TypeOK
<1>12. CASE Reload
  BY <1>1, <1>12 DEF Reload, server, history, TypeOK
<1> QED BY <1>5, <1>6, <1>7, <1>8, <1>10, <1>11, <1>12

LEMMA ListTypes ==
  ASSUME TypeOK, NEW p \in Photos, AddPhoto(p) \/ RemovePhoto(p)
  PROVE  TypeOK'
<1>1. page \in PageRecords /\ NoPhoto \in PhotoRecords
  BY EmptySound DEF TypeOK
<1>2. page.draft.photos \in [Photos -> PhotoRecords]
  BY <1>1 DEF PageRecords, Drafts
<1>3. beside' \in Nat
  BY OfflineAssumption DEF AddPhoto, RemovePhoto, Beside, Besides, TypeOK
<1>4. CASE AddPhoto(p)
  <2>1. [state |-> "pending", file |-> NoFile] \in PhotoRecords
    BY DEF PhotoRecords, NoFile
  <2>2. page' \in PageRecords
    BY <1>1, <1>2, <1>4, <2>1 DEF AddPhoto, PageRecords
  <2>3. shots' \in 0..PhotoCount
    BY <1>4, OfflineAssumption DEF AddPhoto, Photos
  <2> QED BY <1>3, <1>4, <2>2, <2>3 DEF AddPhoto, Unchanged, server, TypeOK
<1>5. CASE RemovePhoto(p)
  <2>1. page' \in PageRecords
    BY <1>1, <1>2, <1>5 DEF RemovePhoto, PageRecords
  <2> QED BY <1>3, <1>5, <2>1 DEF RemovePhoto, Unchanged, server, TypeOK
<1> QED BY <1>4, <1>5

LEMMA StartEffect ==
  ASSUME TypeOK, NEW s \in Syncs, NEW d \in Drafts, syncs' = [syncs EXCEPT ![s] = Started(d)]
  PROVE  /\ syncs' \in [Syncs -> SyncRecords]
         /\ syncs'[s].copy = d /\ syncs'[s].step = "uploading"
         /\ \A t \in Syncs \ {s} : syncs'[t] = syncs[t]
         /\ Running' = Running \cup {s}
<1>1. Started(d) \in SyncRecords /\ Started(d).copy = d /\ Started(d).step = "uploading"
  BY DEF Started, SyncRecords
<1>2. syncs \in [Syncs -> SyncRecords]
  BY DEF TypeOK
<1>3. syncs'[s] = Started(d) /\ \A t \in Syncs \ {s} : syncs'[t] = syncs[t]
  BY <1>2
<1>4. Running' = Running \cup {s}
  BY <1>1, <1>3 DEF Running
<1> QED BY <1>1, <1>2, <1>3, <1>4

LEMMA UploadsDoneEffect ==
  ASSUME TypeOK, NEW s \in Syncs, UploadsDone(s)
  PROVE  /\ syncs' \in [Syncs -> SyncRecords]
         /\ syncs'[s].copy = syncs[s].copy /\ syncs'[s].step = "linking"
         /\ \A t \in Syncs \ {s} : syncs'[t] = syncs[t]
<1>1. syncs \in [Syncs -> SyncRecords] /\ syncs[s] \in SyncRecords
  BY DEF TypeOK
<1> DEFINE r == [syncs[s] EXCEPT !.at = 0, !.step = "linking"]
<1>2. r \in SyncRecords /\ r.copy = syncs[s].copy /\ r.step = "linking"
  BY <1>1 DEF SyncRecords
<1>3. syncs' = [syncs EXCEPT ![s] = r]
  BY <1>1 DEF UploadsDone, SyncRecords
<1> HIDE DEF r
<1> QED BY <1>1, <1>2, <1>3

LEMMA SubmitEffect ==
  ASSUME TypeOK, NEW s \in Syncs, Submit(s)
  PROVE  /\ syncs' \in [Syncs -> SyncRecords] /\ device' \in Drafts
         /\ device' = syncs'[s].copy /\ syncs'[s].step = "relinking"
         /\ syncs'[s].copy.photos = syncs[s].copy.photos
         /\ syncs'[s].copy.findings = syncs[s].copy.findings
         /\ \A t \in Syncs \ {s} : syncs'[t] = syncs[t]
         /\ syncs[s].step # "idle"
<1>1. syncs \in [Syncs -> SyncRecords] /\ syncs[s] \in SyncRecords
  BY DEF TypeOK
<1>2. syncs[s].copy \in Drafts
  BY <1>1 DEF SyncRecords
<1> DEFINE c == [syncs[s].copy EXCEPT !.visit = TRUE]
           r == [syncs[s] EXCEPT !.step = "relinking", !.at = 0, !.copy = c]
<1>3. c \in Drafts /\ c.photos = syncs[s].copy.photos /\ c.findings = syncs[s].copy.findings
  BY <1>2 DEF Drafts
<1>4. r \in SyncRecords /\ r.copy = c /\ r.step = "relinking"
  BY <1>1, <1>3 DEF SyncRecords
<1>5. syncs' = [syncs EXCEPT ![s] = r]
  BY <1>1, <1>2 DEF Submit, SyncRecords, Drafts
<1>6. device' = syncs'[s].copy /\ syncs[s].step # "idle"
  BY DEF Submit, Submits
<1> HIDE DEF r, c
<1> QED BY <1>1, <1>3, <1>4, <1>5, <1>6

LEMMA SubmissionTypes ==
  ASSUME TypeOK, NEW s \in Syncs, Submission(syncs[s].copy.findings)
  PROVE  visit' = "submitted" /\ written' \in Nat /\ visit \notin Withdrawn
         /\ written' = IF visit = "submitted" THEN written ELSE syncs[s].copy.findings
<1>1. syncs[s].copy.findings \in Nat /\ written \in Nat
  BY DEF TypeOK, SyncRecords, Drafts
<1> QED BY <1>1 DEF Submission

LEMMA LinkTypes ==
  ASSUME TypeOK, NEW f \in DOMAIN files, Link(f)
  PROVE  evidence' \subseteq DOMAIN files
BY DEF Link, TypeOK

LEMMA StartTypes ==
  ASSUME TypeOK, NEW s \in Syncs, SyncFromPage(s) \/ SyncFromList(s)
  PROVE  TypeOK'
<1>1. page \in PageRecords /\ device \in Drafts \cup {None}
  BY DEF TypeOK
<1>2. page.draft \in Drafts
  BY <1>1 DEF PageRecords
<1>3. beside' \in Nat
  BY OfflineAssumption DEF SyncFromPage, SyncFromList, Beside, Besides, TypeOK
<1>4. CASE SyncFromPage(s)
  <2>1. syncs' \in [Syncs -> SyncRecords]
    BY <1>2, <1>4, StartEffect DEF SyncFromPage
  <2>2. page' \in PageRecords /\ device' \in Drafts
    BY <1>1, <1>2, <1>4 DEF SyncFromPage, PageRecords
  <2>3. page.draft.findings \in Nat /\ amended \in BOOLEAN
    BY <1>2 DEF Drafts, TypeOK
  <2>4. intended' \in [findings : Nat, photos : SUBSET Photos] /\ amended' \in BOOLEAN
    BY <1>4, <2>3 DEF SyncFromPage, Stored, Taken
  <2> QED BY <1>3, <1>4, <2>1, <2>2, <2>4 DEF SyncFromPage, Unchanged, server, TypeOK
<1>5. CASE SyncFromList(s)
  <2>1. device \in Drafts
    BY <1>1, <1>5 DEF SyncFromList
  <2>2. syncs' \in [Syncs -> SyncRecords]
    BY <1>5, <2>1, StartEffect DEF SyncFromList
  <2> QED BY <1>3, <1>5, <2>2 DEF SyncFromList, Unchanged, server, TypeOK
<1> QED BY <1>4, <1>5

LEMMA LinkedTypes ==
  ASSUME NEW f \in Nat, NEW scan
  PROVE  [state |-> LinkedAs(scan), file |-> f] \in PhotoRecords
BY DEF LinkedAs, PhotoRecords

LEMMA UploadTypes ==
  ASSUME TypeOK, NEW s \in Syncs, UploadPhoto(s)
  PROVE  TypeOK'
<1>1. PICK p \in First(ToUpload(s)) :
     \/ /\ p \notin bytes
        /\ Persist(s, p, [state |-> "rejected", file |-> NoFile])
        /\ UNCHANGED files
     \/ /\ p \in bytes /\ Len(files) < MaxFiles
        /\ Upload(p, "scanning")
        /\ Persist(s, p, [state |-> "uploaded", file |-> NewFile])
     \/ /\ p \in bytes /\ Len(files) < MaxFiles
        /\ Upload(p, "rejected")
        /\ Persist(s, p, [state |-> "rejected", file |-> NewFile])
  BY DEF UploadPhoto
<1>2. p \in Photos /\ NewFile \in Nat /\ NoFile \in Nat
  BY DEF First, ToUpload, NewFile, NoFile, TypeOK
<1>3. /\ [state |-> "rejected", file |-> NoFile] \in PhotoRecords
      /\ [state |-> "uploaded", file |-> NewFile] \in PhotoRecords
      /\ [state |-> "rejected", file |-> NewFile] \in PhotoRecords
  BY <1>2 DEF PhotoRecords
<1>4. syncs' \in [Syncs -> SyncRecords] /\ device' \in Drafts
  BY <1>1, <1>2, <1>3, PersistEffect
<1>5. files' \in Seq(FileRecords) /\ evidence \subseteq DOMAIN files'
  BY <1>1, <1>2, UploadEffect DEF TypeOK
<1> QED BY <1>4, <1>5 DEF UploadPhoto, history, TypeOK

LEMMA LinkPhotoTypes ==
  ASSUME TypeOK, AllTruthful, NEW s \in Syncs, LinkPhoto(s)
  PROVE  TypeOK'
<1>1. PICK p \in First(ToLink(s)) :
       LET f == syncs[s].copy.photos[p].file IN
       /\ Link(f)
       /\ Persist(s, p, [state |-> LinkedAs(files[f].scan), file |-> f])
  BY DEF LinkPhoto
<1> DEFINE f == syncs[s].copy.photos[p].file
<1>2. p \in Photos /\ f \in DOMAIN files
  BY LinkEffect
<1>3. f \in Nat
  BY <1>2 DEF TypeOK
<1> HIDE DEF f
<1>4. [state |-> LinkedAs(files[f].scan), file |-> f] \in PhotoRecords
  BY <1>3, LinkedTypes
<1>5. syncs' \in [Syncs -> SyncRecords] /\ device' \in Drafts
  BY <1>1, <1>2, <1>4, PersistEffect DEF f
<1>6. evidence' \subseteq DOMAIN files
  BY <1>1, <1>2, LinkTypes DEF f
<1> QED BY <1>5, <1>6 DEF LinkPhoto, history, TypeOK

LEMMA StepTypes ==
  ASSUME TypeOK, AllTruthful, NEW s \in Syncs,
         UploadsDone(s) \/ Submit(s) \/ SubmissionRefused(s) \/ Finish(s)
  PROVE  TypeOK'
<1>1. CASE UploadsDone(s)
  BY <1>1, UploadsDoneEffect DEF UploadsDone, Unchanged, server, history, TypeOK
<1>2. CASE Submit(s)
  <2>1. Submission(syncs[s].copy.findings)
    BY <1>2 DEF Submit
  <2>2. visit' = "submitted" /\ written' \in Nat
    BY <2>1, SubmissionTypes
  <2>3. syncs' \in [Syncs -> SyncRecords] /\ device' \in Drafts
    BY <1>2, SubmitEffect
  <2> QED BY <1>2, <2>2, <2>3 DEF Submit, history, TypeOK
<1>3. CASE SubmissionRefused(s)
  <2>1. device' \in Drafts /\ page' \in PageRecords /\ syncs' \in [Syncs -> SyncRecords]
    BY <1>3, ReturnTypes DEF SubmissionRefused
  <2> QED BY <1>3, <2>1 DEF SubmissionRefused, Unchanged, server, history, TypeOK
<1>4. CASE Finish(s)
  <2>1. CASE Return(s) /\ UNCHANGED bytes
    <3>1. device' \in Drafts /\ page' \in PageRecords /\ syncs' \in [Syncs -> SyncRecords]
      BY <2>1, ReturnTypes
    <3> QED BY <1>4, <2>1, <3>1 DEF Finish, Unchanged, server, history, TypeOK
  <2>2. CASE /\ device' = None /\ bytes' = {} /\ syncs' = [syncs EXCEPT ![s] = Idle]
             /\ page' = IF page.open /\ page.sync = s THEN Closed ELSE page
    <3>1. page' \in PageRecords /\ syncs' \in [Syncs -> SyncRecords]
      BY <2>2, ClosedTypes, IdleEffect DEF TypeOK
    <3> QED BY <1>4, <2>2, <3>1 DEF Finish, Unchanged, server, history, TypeOK
  <2> QED BY <1>4, <2>1, <2>2 DEF Finish
<1> QED BY <1>1, <1>2, <1>3, <1>4

LEMMA InterruptTypes ==
  ASSUME TypeOK, AllTruthful, NEW s \in Syncs, Interrupt(s)
  PROVE  TypeOK'
<1>1. /\ device' \in Drafts /\ page' \in PageRecords /\ syncs' \in [Syncs -> SyncRecords]
      /\ faults' \in Nat
  BY ReturnTypes DEF Interrupt, TypeOK
<1> DEFINE ServerTyped ==
      /\ visit' \in {"none", "open", "submitted"} \cup Withdrawn /\ written' \in Nat
      /\ files' \in Seq(FileRecords) /\ evidence' \subseteq DOMAIN files'
<1>2. ServerTyped
  <2>1. CASE UNCHANGED server
    BY <2>1 DEF server, TypeOK
  <2>2. ASSUME NEW p \in First(ToUpload(s)), Upload(p, "scanning"),
               UNCHANGED <<visit, written, evidence>>
        PROVE  ServerTyped
    <3>1. p \in Photos
      BY DEF First, ToUpload
    <3> QED BY <2>2, <3>1, UploadEffect DEF TypeOK
  <2>3. ASSUME NEW p \in First(ToLink(s)), Link(syncs[s].copy.photos[p].file),
               UNCHANGED <<visit, written, files>>
        PROVE  ServerTyped
    BY <2>3, LinkEffect, LinkTypes DEF TypeOK
  <2>4. CASE Submission(syncs[s].copy.findings) /\ UNCHANGED <<files, evidence>>
    BY <2>4, SubmissionTypes DEF TypeOK
  <2> QED BY <2>1, <2>2, <2>3, <2>4 DEF Interrupt
<1> QED BY <1>1, <1>2 DEF Interrupt, history, TypeOK

LEMMA ServerTypes ==
  ASSUME TypeOK, (\E f \in 1..MaxFiles : Scan(f)) \/ CancelVisit
  PROVE  TypeOK'
<1>1. ASSUME NEW f \in 1..MaxFiles, Scan(f) PROVE TypeOK'
  <2>1. PICK result \in {"clean", "rejected"} : files' = [files EXCEPT ![f].scan = result]
    BY <1>1 DEF Scan
  <2>2. files \in Seq(FileRecords) /\ f \in DOMAIN files
    BY <1>1 DEF Scan, TypeOK
  <2>3. files[f] \in FileRecords
    BY <2>2
  <2>4. [files[f] EXCEPT !.scan = result] \in FileRecords
    BY <2>3 DEF FileRecords
  <2>5. files' = [files EXCEPT ![f] = [files[f] EXCEPT !.scan = result]]
    BY <2>1, <2>2, <2>3 DEF FileRecords
  <2>6. files' \in Seq(FileRecords) /\ DOMAIN files' = DOMAIN files
    BY <2>2, <2>4, <2>5
  <2> QED BY <1>1, <2>6 DEF Scan, history, TypeOK
<1>2. CASE CancelVisit
  BY <1>2 DEF CancelVisit, history, TypeOK
<1> QED BY <1>1, <1>2

LEMMA Types == TypeOK /\ AllTruthful /\ [Next]_vars => TypeOK'
<1> SUFFICES ASSUME TypeOK, AllTruthful, [Next]_vars PROVE TypeOK'
  OBVIOUS
<1>1. CASE UNCHANGED vars
  BY <1>1 DEF vars, server, history, TypeOK
<1>2. CASE Next
  <2>1. CASE \E s \in Syncs : SyncStep(s) \/ Interrupt(s)
    BY <2>1, UploadTypes, LinkPhotoTypes, StepTypes, InterruptTypes DEF SyncStep
  <2> QED BY <1>2, <2>1, PageTypes, ListTypes, StartTypes, ServerTypes DEF Next, StartSync
<1> QED BY <1>1, <1>2

----------------------------------------------------------------------------
(* The server forgets nothing.                                              *)

Grown ==
  /\ Len(files) <= Len(files')
  /\ \A f \in 1..Len(files) : files'[f].photo = files[f].photo
  /\ evidence \subseteq evidence'
  /\ shots <= shots'
  /\ visit \in Received => visit' \in Received

LEMMA ServerGrows == TypeOK /\ AllTruthful /\ [Next]_vars => Grown
<1> SUFFICES ASSUME TypeOK, AllTruthful, [Next]_vars PROVE Grown
  OBVIOUS
<1>1. Len(files) \in Nat /\ shots \in Nat
  BY OfflineAssumption DEF TypeOK
<1>2. CASE UNCHANGED <<server, shots>>
  BY <1>1, <1>2 DEF server, Grown
<1>3. ASSUME NEW p \in Photos, AddPhoto(p) PROVE Grown
  <2>1. shots' = shots + 1 /\ UNCHANGED server
    BY <1>3 DEF AddPhoto, Unchanged
  <2> QED BY <1>1, <2>1 DEF server, Grown
<1>4. ASSUME NEW p \in Photos, NEW scan \in {"scanning", "clean", "rejected"}, Upload(p, scan),
             UNCHANGED <<shots, visit, evidence>>
      PROVE  Grown
  BY <1>1, <1>4, UploadEffect DEF Grown
<1>5. ASSUME NEW f, Link(f), UNCHANGED <<shots, visit, files>> PROVE Grown
  BY <1>1, <1>5 DEF Link, Grown
<1>6. ASSUME NEW s \in Syncs, Submission(syncs[s].copy.findings), UNCHANGED <<shots, files, evidence>>
      PROVE  Grown
  BY <1>1, <1>6 DEF Submission, Grown
<1>7. ASSUME NEW f \in 1..MaxFiles, Scan(f) PROVE Grown
  <2>1. PICK result \in {"clean", "rejected"} : files' = [files EXCEPT ![f].scan = result]
    BY <1>7 DEF Scan
  <2>2. files \in Seq(FileRecords) /\ f \in DOMAIN files
    BY <1>7 DEF Scan, TypeOK
  <2>3. files[f] \in FileRecords
    BY <2>2
  <2>4. [files[f] EXCEPT !.scan = result] \in FileRecords
        /\ [files[f] EXCEPT !.scan = result].photo = files[f].photo
    BY <2>3 DEF FileRecords
  <2>5. files' = [files EXCEPT ![f] = [files[f] EXCEPT !.scan = result]]
    BY <2>1, <2>2, <2>3 DEF FileRecords
  <2>6. Len(files') = Len(files) /\ \A g \in 1..Len(files) : files'[g].photo = files[g].photo
    BY <2>2, <2>4, <2>5
  <2> QED BY <1>1, <1>7, <2>6 DEF Scan, Grown
<1>8. CASE CancelVisit
  BY <1>1, <1>8 DEF CancelVisit, Grown
<1>9. ASSUME NEW s \in Syncs, UploadPhoto(s) PROVE Grown
  <2>1. CASE UNCHANGED files
    BY <1>2, <1>9, <2>1 DEF UploadPhoto, server
  <2>2. ASSUME NEW p \in First(ToUpload(s)), Upload(p, "scanning") \/ Upload(p, "rejected")
        PROVE  Grown
    <3>1. p \in Photos
      BY DEF First, ToUpload
    <3> QED BY <1>4, <1>9, <2>2, <3>1 DEF UploadPhoto
  <2> QED BY <1>9, <2>1, <2>2 DEF UploadPhoto
<1>10. ASSUME NEW s \in Syncs, Interrupt(s) PROVE Grown
  <2>1. UNCHANGED shots
    BY <1>10 DEF Interrupt
  <2>2. ASSUME NEW p \in First(ToUpload(s)), Upload(p, "scanning"),
               UNCHANGED <<visit, written, evidence>>
        PROVE  Grown
    <3>1. p \in Photos
      BY DEF First, ToUpload
    <3> QED BY <1>4, <2>1, <2>2, <3>1
  <2> QED BY <1>2, <1>5, <1>6, <1>10, <2>1, <2>2 DEF Interrupt, server
<1>11. ASSUME NEW s \in Syncs, SyncStep(s) PROVE Grown
  <2>1. CASE LinkPhoto(s)
    BY <1>5, <2>1 DEF LinkPhoto
  <2>2. CASE Submit(s)
    BY <1>6, <2>2 DEF Submit
  <2>3. CASE UploadsDone(s) \/ SubmissionRefused(s) \/ Finish(s)
    BY <1>2, <2>3 DEF UploadsDone, SubmissionRefused, Finish, Unchanged
  <2> QED BY <1>9, <1>11, <2>1, <2>2, <2>3 DEF SyncStep
<1>12. CASE OpenPage \/ LeavePage \/ Type \/ SetPhotos \/ Autosave \/ Discard \/ Reload
  BY <1>2, <1>12 DEF OpenPage, LeavePage, Type, SetPhotos, Autosave, Discard, Reload, Unchanged
<1>13. ASSUME NEW p \in Photos, RemovePhoto(p) PROVE Grown
  BY <1>2, <1>13 DEF RemovePhoto, Unchanged
<1>14. CASE StartSync
  BY <1>2, <1>14 DEF StartSync, SyncFromPage, SyncFromList, Unchanged
<1>15. CASE UNCHANGED vars
  BY <1>2, <1>15 DEF vars
<1> QED BY <1>3, <1>7, <1>8, <1>10, <1>11, <1>12, <1>13, <1>14, <1>15 DEF Next

\* A draft that does not change stays truthful.
LEMMA StaysTruthful ==
  ASSUME TypeOK, TypeOK', Grown, NEW d \in Drafts, Truthful(d, files, evidence, shots, visit)
  PROVE  Truthful(d, files', evidence', shots', visit')
<1>1. d.photos \in PhotoLists
  BY DEF Drafts, PhotoLists
<1>2. files \in Seq(FileRecords) /\ files' \in Seq(FileRecords) /\ shots \in Nat /\ shots' \in Nat
  BY OfflineAssumption DEF TypeOK
<1>3. Sound(d.photos, files', evidence', shots')
  BY <1>1, <1>2, SoundGrows DEF Truthful, Grown
<1> QED BY <1>3 DEF Truthful, Grown

StillTruthful ==
  /\ device # None => Truthful(device, files', evidence', shots', visit')
  /\ Truthful(page.draft, files', evidence', shots', visit')
  /\ page.list # None => Sound(page.list, files', evidence', shots')
  /\ \A s \in Syncs : Truthful(syncs[s].copy, files', evidence', shots', visit')

LEMMA OldTruthful ==
  ASSUME TypeOK, TypeOK', AllTruthful, Grown PROVE StillTruthful
<1>1. device # None => device \in Drafts
  BY DEF TypeOK
<1>2. page.draft \in Drafts /\ (page.list # None => page.list \in PhotoLists)
  BY DEF TypeOK, PageRecords, PhotoLists
<1>3. \A s \in Syncs : syncs[s].copy \in Drafts
  BY DEF TypeOK, SyncRecords
<1>4. files \in Seq(FileRecords) /\ files' \in Seq(FileRecords) /\ shots \in Nat /\ shots' \in Nat
  BY OfflineAssumption DEF TypeOK
<1>5. page.list # None => Sound(page.list, files', evidence', shots')
  BY <1>2, <1>4, SoundGrows DEF AllTruthful, Grown
<1> QED BY <1>1, <1>2, <1>3, <1>5, StaysTruthful DEF AllTruthful, StillTruthful

LEMMA PageTruth ==
  ASSUME TypeOK, TypeOK', AllTruthful, StillTruthful,
         \/ OpenPage \/ LeavePage \/ Type \/ SetPhotos \/ Autosave \/ Discard \/ Reload
         \/ StartSync
  PROVE  AllTruthful'
<1>1. page \in PageRecords /\ files' \in Seq(FileRecords) /\ evidence' \in SUBSET DOMAIN files'
  BY DEF TypeOK
<1>2. page.draft \in Drafts
  BY <1>1 DEF PageRecords
<1>3. Truthful(Empty, files', evidence', shots', visit')
  BY <1>1, EmptySound
<1>4. Closed.draft = Empty /\ Closed.list = None /\ Idle.copy = Empty
  BY DEF Closed, Idle
<1>5. CASE OpenPage
  <2>1. page'.draft = device /\ page'.list = None
    BY <1>4, <1>5 DEF OpenPage, Closed
  <2> QED BY <1>5, <2>1 DEF OpenPage, Unchanged, StillTruthful, AllTruthful
<1>6. CASE LeavePage
  BY <1>3, <1>4, <1>6 DEF LeavePage, Unchanged, StillTruthful, AllTruthful
<1>7. CASE Type
  <2>1. page'.draft.photos = page.draft.photos /\ page'.draft.visit = page.draft.visit
        /\ page'.list = page.list
    BY <1>1, <1>2, <1>7 DEF Type, PageRecords, Drafts
  <2>2. Truthful(page'.draft, files', evidence', shots', visit')
    BY <2>1 DEF StillTruthful, Truthful
  <2> QED BY <1>7, <2>1, <2>2 DEF Type, Unchanged, StillTruthful, AllTruthful
<1>8. CASE SetPhotos
  <2>1. page'.draft.photos = page.list /\ page'.draft.visit = page.draft.visit
        /\ page'.list = None /\ page.list # None
    BY <1>1, <1>2, <1>8 DEF SetPhotos, PageRecords, Drafts
  <2>2. Truthful(page'.draft, files', evidence', shots', visit')
    BY <2>1 DEF StillTruthful, Truthful
  <2> QED BY <1>8, <2>1, <2>2 DEF SetPhotos, Unchanged, StillTruthful, AllTruthful
<1>9. CASE Autosave
  <2>1. page'.draft = page.draft /\ page'.list = page.list /\ device' = page.draft
    BY <1>1, <1>9 DEF Autosave, PageRecords
  <2> QED BY <1>9, <2>1 DEF Autosave, Unchanged, StillTruthful, AllTruthful
<1>10. CASE Discard
  BY <1>3, <1>4, <1>10 DEF Discard, Unchanged, StillTruthful, AllTruthful
<1>11. CASE Reload
  <2>1. \A s \in Syncs : syncs'[s].copy = Empty
    BY <1>4, <1>11 DEF Reload
  <2> QED BY <1>3, <1>4, <1>11, <2>1 DEF Reload, StillTruthful, AllTruthful
<1>12. ASSUME NEW s \in Syncs, SyncFromPage(s) PROVE AllTruthful'
  <2>1. page'.draft = page.draft /\ page'.list = page.list /\ device' = page.draft
    BY <1>1, <1>12 DEF SyncFromPage, PageRecords
  <2>2. syncs'[s].copy = page.draft /\ \A t \in Syncs \ {s} : syncs'[t] = syncs[t]
    BY <1>2, <1>12, StartEffect DEF SyncFromPage
  <2> QED BY <2>1, <2>2 DEF StillTruthful, AllTruthful
<1>13. ASSUME NEW s \in Syncs, SyncFromList(s) PROVE AllTruthful'
  <2>1. device \in Drafts /\ device # None
    BY <1>13 DEF SyncFromList, TypeOK
  <2>2. syncs'[s].copy = device /\ \A t \in Syncs \ {s} : syncs'[t] = syncs[t]
    BY <1>13, <2>1, StartEffect DEF SyncFromList
  <2> QED BY <1>13, <2>1, <2>2 DEF SyncFromList, Unchanged, StillTruthful, AllTruthful
<1> QED BY <1>5, <1>6, <1>7, <1>8, <1>9, <1>10, <1>11, <1>12, <1>13 DEF StartSync

LEMMA ListTruth ==
  ASSUME TypeOK, TypeOK', AllTruthful, StillTruthful, NEW p \in Photos,
         AddPhoto(p) \/ RemovePhoto(p)
  PROVE  AllTruthful'
<1>1. page \in PageRecords /\ p \in Nat /\ Len(files') \in Nat /\ shots' \in Nat
  BY OfflineAssumption DEF TypeOK, Photos
<1>2. page.draft.photos \in PhotoLists
  BY <1>1 DEF PageRecords, Drafts, PhotoLists
<1>3. Sound(page.draft.photos, files', evidence', shots')
  BY DEF StillTruthful, Truthful
<1>4. CASE AddPhoto(p)
  <2> DEFINE photo == [state |-> "pending", file |-> NoFile]
  <2>1. photo \in PhotoRecords /\ photo.file = NoFile /\ photo.state = "pending" /\ NoFile \in 0..Len(files')
    BY <1>1 DEF PhotoRecords, NoFile
  <2>2. page'.list = [page.draft.photos EXCEPT ![p] = photo] /\ page'.draft = page.draft
    BY <1>1, <1>4 DEF AddPhoto, PageRecords
  <2>3. p <= shots'
    BY <1>1, <1>4 DEF AddPhoto
  <2> HIDE DEF photo
  <2>4. Sound([page.draft.photos EXCEPT ![p] = photo], files', evidence', shots')
    BY <1>2, <1>3, <2>1, <2>3, SoundSet
  <2> QED BY <1>4, <2>2, <2>4 DEF AddPhoto, Unchanged, StillTruthful, AllTruthful
<1>5. CASE RemovePhoto(p)
  <2>1. NoPhoto \in PhotoRecords /\ NoPhoto.file = NoFile /\ NoPhoto.state = "absent" /\ NoFile \in 0..Len(files')
    BY <1>1 DEF PhotoRecords, NoPhoto, NoFile
  <2>2. page'.list = [page.draft.photos EXCEPT ![p] = NoPhoto] /\ page'.draft = page.draft
    BY <1>1, <1>5 DEF RemovePhoto, PageRecords
  <2>4. Sound([page.draft.photos EXCEPT ![p] = NoPhoto], files', evidence', shots')
    BY <1>2, <1>3, <2>1, SoundSet
  <2> QED BY <1>5, <2>2, <2>4 DEF RemovePhoto, Unchanged, StillTruthful, AllTruthful
<1> QED BY <1>4, <1>5

\* A synchronisation stores one photo of its copy.
LEMMA PersistTruth ==
  ASSUME TypeOK, TypeOK', StillTruthful, NEW s \in Syncs, NEW p \in Photos,
         NEW photo \in PhotoRecords, Persist(s, p, photo), UNCHANGED <<page, shots>>,
         syncs[s].copy.photos[p].state # "absent",
         photo.file \in 0..Len(files'), photo.file # NoFile => files'[photo.file].photo = p,
         photo.state = "linked" => photo.file \in evidence'
  PROVE  AllTruthful'
<1>1. /\ device' = syncs'[s].copy
      /\ syncs'[s].copy.photos = [syncs[s].copy.photos EXCEPT ![p] = photo]
      /\ syncs'[s].copy.visit = syncs[s].copy.visit
      /\ \A t \in Syncs \ {s} : syncs'[t] = syncs[t]
  BY PersistEffect
<1>2. syncs[s].copy.photos \in PhotoLists
  BY DEF TypeOK, SyncRecords, Drafts, PhotoLists
<1>3. Truthful(syncs[s].copy, files', evidence', shots', visit')
  BY DEF StillTruthful
<1>4. p <= shots'
  BY <1>3 DEF Truthful, Sound
<1>5. Sound([syncs[s].copy.photos EXCEPT ![p] = photo], files', evidence', shots')
  BY <1>2, <1>3, <1>4, SoundSet DEF Truthful
<1>6. Truthful(syncs'[s].copy, files', evidence', shots', visit')
  BY <1>1, <1>3, <1>5 DEF Truthful
<1> QED BY <1>1, <1>6 DEF StillTruthful, AllTruthful

LEMMA UploadTruth ==
  ASSUME TypeOK, TypeOK', AllTruthful, StillTruthful, NEW s \in Syncs, UploadPhoto(s)
  PROVE  AllTruthful'
<1>1. PICK p \in First(ToUpload(s)) :
     \/ /\ p \notin bytes
        /\ Persist(s, p, [state |-> "rejected", file |-> NoFile])
        /\ UNCHANGED files
     \/ /\ p \in bytes /\ Len(files) < MaxFiles
        /\ Upload(p, "scanning")
        /\ Persist(s, p, [state |-> "uploaded", file |-> NewFile])
     \/ /\ p \in bytes /\ Len(files) < MaxFiles
        /\ Upload(p, "rejected")
        /\ Persist(s, p, [state |-> "rejected", file |-> NewFile])
  BY DEF UploadPhoto
<1>2. p \in Photos /\ NewFile \in Nat /\ NoFile \in 0..Len(files') /\ Len(files) \in Nat
      /\ syncs[s].copy.photos[p].state # "absent"
  BY DEF First, ToUpload, NewFile, NoFile, TypeOK
<1>3. UNCHANGED <<page, shots>>
  BY DEF UploadPhoto
<1>4. CASE Persist(s, p, [state |-> "rejected", file |-> NoFile])
  <2>1. [state |-> "rejected", file |-> NoFile] \in PhotoRecords
    BY DEF PhotoRecords, NoFile
  <2> QED BY <1>2, <1>3, <1>4, <2>1, PersistTruth
<1>5. ASSUME NEW scan \in {"scanning", "rejected"}, NEW state \in {"uploaded", "rejected"},
             Upload(p, scan), Persist(s, p, [state |-> state, file |-> NewFile])
      PROVE  AllTruthful'
  <2>1. [state |-> state, file |-> NewFile] \in PhotoRecords
    BY <1>2 DEF PhotoRecords
  <2>2. NewFile \in 0..Len(files') /\ files'[NewFile].photo = p
    BY <1>2, <1>5, UploadEffect
  <2> QED BY <1>2, <1>3, <1>5, <2>1, <2>2, PersistTruth
<1> QED BY <1>1, <1>4, <1>5

LEMMA LinkTruth ==
  ASSUME TypeOK, TypeOK', AllTruthful, StillTruthful, NEW s \in Syncs, LinkPhoto(s)
  PROVE  AllTruthful'
<1>1. PICK p \in First(ToLink(s)) :
       LET f == syncs[s].copy.photos[p].file IN
       /\ Link(f)
       /\ Persist(s, p, [state |-> LinkedAs(files[f].scan), file |-> f])
  BY DEF LinkPhoto
<1> DEFINE f == syncs[s].copy.photos[p].file
<1>2. p \in Photos /\ f \in DOMAIN files /\ files[f].photo = p /\ syncs[s].copy.photos[p].state # "absent"
  BY LinkEffect
<1>3. f \in Nat /\ f \in 0..Len(files') /\ UNCHANGED <<files, page, shots>>
  BY <1>2 DEF TypeOK, LinkPhoto
<1>4. Link(f) /\ Persist(s, p, [state |-> LinkedAs(files[f].scan), file |-> f])
  BY <1>1
<1> HIDE DEF f
<1>5. [state |-> LinkedAs(files[f].scan), file |-> f] \in PhotoRecords
  BY <1>3, LinkedTypes
<1>6. LinkedAs(files[f].scan) = "linked" => f \in evidence'
  BY <1>4 DEF LinkedAs, Link
<1> QED BY <1>2, <1>3, <1>4, <1>5, <1>6, PersistTruth

LEMMA StepTruth ==
  ASSUME TypeOK, TypeOK', AllTruthful, StillTruthful, NEW s \in Syncs,
         UploadsDone(s) \/ Submit(s) \/ SubmissionRefused(s) \/ Finish(s) \/ Interrupt(s)
  PROVE  AllTruthful'
<1>1. page \in PageRecords /\ files' \in Seq(FileRecords) /\ evidence' \in SUBSET DOMAIN files'
  BY DEF TypeOK
<1>2. Truthful(Empty, files', evidence', shots', visit')
  BY <1>1, EmptySound
<1>3. Closed.draft = Empty /\ Closed.list = None /\ Idle.copy = Empty
  BY DEF Closed, Idle
<1>4. CASE UploadsDone(s)
  <2>1. \A t \in Syncs : syncs'[t].copy = syncs[t].copy
    BY <1>4, UploadsDoneEffect
  <2> QED BY <1>4, <2>1 DEF UploadsDone, Unchanged, StillTruthful, AllTruthful
<1>5. CASE Submit(s)
  <2>1. /\ device' = syncs'[s].copy /\ page' = page
        /\ syncs'[s].copy.photos = syncs[s].copy.photos
        /\ \A t \in Syncs \ {s} : syncs'[t] = syncs[t]
    BY <1>5, SubmitEffect DEF Submit
  <2>2. visit' = "submitted"
    BY <1>5, SubmissionTypes DEF Submit
  <2>3. Truthful(syncs'[s].copy, files', evidence', shots', visit')
    BY <2>1, <2>2 DEF StillTruthful, Truthful
  <2> QED BY <2>1, <2>3 DEF StillTruthful, AllTruthful
<1>6. CASE Return(s)
  <2>1. \A t \in Syncs : syncs'[t].copy = syncs[t].copy \/ syncs'[t].copy = Empty
    BY <1>3, <1>6, IdleEffect DEF Return
  <2>2. \/ page' = page
        \/ page'.draft = syncs[s].copy /\ page'.list = page.list
    BY <1>1, <1>6 DEF Return, PageRecords
  <2> QED BY <1>2, <1>6, <2>1, <2>2 DEF Return, StillTruthful, AllTruthful
<1>7. CASE /\ device' = None /\ syncs' = [syncs EXCEPT ![s] = Idle]
           /\ page' = IF page.open /\ page.sync = s THEN Closed ELSE page
  <2>1. \A t \in Syncs : syncs'[t].copy = syncs[t].copy \/ syncs'[t].copy = Empty
    BY <1>3, <1>7, IdleEffect
  <2> QED BY <1>2, <1>3, <1>7, <2>1 DEF StillTruthful, AllTruthful
<1> QED BY <1>4, <1>5, <1>6, <1>7 DEF SubmissionRefused, Finish, Interrupt

LEMMA TruthKept ==
  TypeOK /\ TypeOK' /\ AllTruthful /\ Grown /\ [Next]_vars => AllTruthful'
<1> SUFFICES ASSUME TypeOK, TypeOK', AllTruthful, Grown, [Next]_vars PROVE AllTruthful'
  OBVIOUS
<1>1. StillTruthful
  BY OldTruthful
<1>2. CASE UNCHANGED <<device, page, syncs>>
  BY <1>1, <1>2 DEF StillTruthful, AllTruthful
<1>3. CASE UNCHANGED vars
  BY <1>2, <1>3 DEF vars
<1>4. CASE (\E f \in 1..MaxFiles : Scan(f)) \/ CancelVisit
  BY <1>2, <1>4 DEF Scan, CancelVisit
<1>5. CASE \E s \in Syncs : SyncStep(s) \/ Interrupt(s)
  BY <1>1, <1>5, UploadTruth, LinkTruth, StepTruth DEF SyncStep
<1> QED BY <1>1, <1>3, <1>4, <1>5, PageTruth, ListTruth DEF Next

LEMMA ShownKept ==
  TypeOK /\ TypeOK' /\ AllTruthful /\ FilesShown /\ Grown /\ [Next]_vars => FilesShown'
<1> SUFFICES ASSUME TypeOK, TypeOK', AllTruthful, FilesShown, Grown, [Next]_vars PROVE FilesShown'
  OBVIOUS
<1>1. shots \in Nat /\ shots' \in Nat /\ shots <= shots' /\ files \in Seq(FileRecords)
      /\ files' \in Seq(FileRecords) /\ \A q \in Photos : q \in Nat
  BY OfflineAssumption DEF TypeOK, Grown, Photos
<1>2. \A f \in 1..Len(files) : files[f].photo \in Nat /\ files[f].photo <= shots
                               /\ files'[f].photo = files[f].photo
  <2>1. ASSUME NEW f \in 1..Len(files)
        PROVE  files[f].photo \in Nat /\ f \in DOMAIN files
    <3>1. files[f] \in FileRecords /\ f \in DOMAIN files
      BY <1>1
    <3>2. files[f].photo \in Photos
      BY <3>1 DEF FileRecords
    <3> QED BY <1>1, <3>1, <3>2
  <2> QED BY <2>1 DEF FilesShown, Grown
<1>3. CASE Len(files') = Len(files)
  BY <1>1, <1>2, <1>3 DEF FilesShown
<1>4. ASSUME NEW s \in Syncs, NEW p \in First(ToUpload(s)), NEW scan \in {"scanning", "rejected"},
             Upload(p, scan)
      PROVE  FilesShown'
  <2>1. p \in Photos /\ syncs[s].copy.photos[p].state # "absent"
    BY DEF First, ToUpload
  <2>2. p <= shots
    BY <2>1 DEF AllTruthful, Truthful, Sound
  <2>3. Len(files') = Len(files) + 1 /\ files'[Len(files) + 1].photo = p
    BY <1>4, <2>1, UploadEffect DEF NewFile
  <2>4. ASSUME NEW f \in DOMAIN files' PROVE files'[f].photo <= shots'
    <3>1. f \in 1..Len(files) \/ f = Len(files) + 1
      BY <1>1, <2>3
    <3> QED BY <1>1, <1>2, <2>1, <2>2, <2>3, <3>1
  <2> QED BY <2>4 DEF FilesShown
<1>5. CASE UNCHANGED files
  BY <1>3, <1>5
<1>6. ASSUME NEW f \in 1..MaxFiles, Scan(f) PROVE FilesShown'
  BY <1>1, <1>3, <1>6 DEF Scan
<1>7. ASSUME NEW s \in Syncs, SyncStep(s) \/ Interrupt(s) PROVE FilesShown'
  BY <1>4, <1>5, <1>7 DEF SyncStep, Interrupt, UploadPhoto, UploadsDone, LinkPhoto, Submit,
     SubmissionRefused, Finish, Unchanged, server
<1>8. CASE \/ OpenPage \/ LeavePage \/ Type \/ SetPhotos \/ Autosave \/ Discard \/ Reload
           \/ StartSync \/ CancelVisit \/ UNCHANGED vars
  BY <1>5, <1>8 DEF OpenPage, LeavePage, Type, SetPhotos, Autosave, Discard, Reload, StartSync,
     SyncFromPage, SyncFromList, CancelVisit, Unchanged, server, vars
<1>9. ASSUME NEW p \in Photos, AddPhoto(p) \/ RemovePhoto(p) PROVE FilesShown'
  BY <1>5, <1>9 DEF AddPhoto, RemovePhoto, Unchanged, server
<1> QED BY <1>6, <1>7, <1>8, <1>9 DEF Next

----------------------------------------------------------------------------
(* The inspector, when nothing runs.                                        *)

LEMMA NothingBeside ==
  ASSUME TypeOK, NEW busy, Besides(busy), beside' = 0
  PROVE  beside = 0 /\ ~busy
BY DEF Besides, TypeOK

\* Only the page changes.
LEMMA PageOrder ==
  ASSUME Orderly, UNCHANGED <<device, syncs, server, intended, amended, discarded>>,
         ~page'.open => page' = Closed,
         Running # {} => page' = Closed,
         device = None => ~page'.open,
         Running = {} =>
           /\ Remembers(page'.draft.photos, files, evidence)
           /\ page'.list # None => Remembers(page'.list, files, evidence)
  PROVE  Orderly'
<1>1. Running' = Running /\ OnServer' = OnServer
  BY DEF Running, OnServer, server
<1>2. UNCHANGED <<files, evidence, visit, written>>
  BY DEF server
<1>3. Closed.list = None /\ ~Closed.open
  BY DEF Closed
<1>4. Alone'
  BY <1>1, <1>3 DEF Orderly, Alone
<1>5. Kept'
  BY <1>1, <1>2 DEF Orderly, Kept
<1>6. Delivered' /\ Once'
  BY <1>1, <1>2 DEF Orderly, Delivered, Once
<1> QED BY <1>4, <1>5, <1>6 DEF Orderly

LEMMA PageOnly ==
  ASSUME TypeOK, FilesShown, Undisturbed => Orderly, Undisturbed',
         \/ OpenPage \/ LeavePage \/ Type \/ SetPhotos
         \/ \E p \in Photos : AddPhoto(p) \/ RemovePhoto(p)
  PROVE  Orderly'
<1>1. page \in PageRecords /\ files \in Seq(FileRecords) /\ evidence \in SUBSET DOMAIN files
  BY DEF TypeOK
<1>2. page.draft \in Drafts
  BY <1>1 DEF PageRecords
<1>3. page.draft.photos \in PhotoLists
  BY <1>2 DEF Drafts, PhotoLists
<1>4. Beside => beside = 0 /\ Running = {}
  BY NothingBeside DEF Beside, Undisturbed
<1>5. Closed.draft = Empty /\ Closed.list = None /\ ~Closed.open
  BY DEF Closed
<1>6. Remembers(Empty.photos, files, evidence)
  BY <1>1, EmptySound
<1>7. Orderly /\ Running = {} =>
        /\ device # None => Remembers(device.photos, files, evidence)
        /\ Remembers(page.draft.photos, files, evidence)
        /\ page.list # None => Remembers(page.list, files, evidence)
  BY DEF Orderly, Kept, Faithful
<1>8. Orderly => (device = None => ~page.open)
  BY DEF Orderly, Alone
<1>9. CASE OpenPage
  <2>1. Orderly /\ Running = {} /\ device # None
    BY <1>4, <1>9 DEF OpenPage, Undisturbed
  <2>2. page'.draft = device /\ page'.list = None /\ page'.open
    BY <1>9 DEF OpenPage, Closed
  <2> QED BY <1>7, <1>9, <2>1, <2>2, PageOrder DEF OpenPage, Unchanged
<1>10. CASE LeavePage
  <2>1. Orderly /\ page' = Closed
    BY <1>10 DEF LeavePage, Unchanged, history, Undisturbed
  <2> QED BY <1>5, <1>6, <1>10, <2>1, PageOrder DEF LeavePage, Unchanged, history
<1>11. CASE Type
  <2>1. Orderly /\ Running = {} /\ page.open
    BY <1>4, <1>11 DEF Type, Undisturbed
  <2>2. page'.draft.photos = page.draft.photos /\ page'.list = page.list /\ page'.open
    BY <1>1, <1>2, <1>11, <2>1 DEF Type, PageRecords, Drafts
  <2> QED BY <1>7, <1>8, <1>11, <2>1, <2>2, PageOrder DEF Type, Unchanged
<1>12. CASE SetPhotos
  <2>1. Orderly /\ Running = {} /\ page.open /\ page.list # None
    BY <1>4, <1>12 DEF SetPhotos, Undisturbed
  <2>2. page'.draft.photos = page.list /\ page'.list = None /\ page'.open
    BY <1>1, <1>2, <1>12, <2>1 DEF SetPhotos, PageRecords, Drafts
  <2> QED BY <1>7, <1>8, <1>12, <2>1, <2>2, PageOrder DEF SetPhotos, Unchanged
<1>13. ASSUME NEW p \in Photos, AddPhoto(p) PROVE Orderly'
  <2> DEFINE photo == [state |-> "pending", file |-> NoFile]
  <2>1. Orderly /\ Running = {} /\ page.open
    BY <1>4, <1>13 DEF AddPhoto, Undisturbed
  <2>2. page'.list = [page.draft.photos EXCEPT ![p] = photo] /\ page'.draft = page.draft /\ page'.open
    BY <1>1, <1>13, <2>1 DEF AddPhoto, PageRecords
  <2>3. \A f \in evidence : files[f].photo # p
    <3>1. shots \in Nat /\ p = shots + 1
      BY <1>13, OfflineAssumption DEF AddPhoto, TypeOK
    <3>2. ASSUME NEW f \in evidence PROVE files[f].photo \in Nat /\ files[f].photo <= shots
      <4>1. files[f] \in FileRecords /\ f \in DOMAIN files
        BY <1>1
      <4>2. files[f].photo \in Photos
        BY <4>1 DEF FileRecords
      <4> QED BY <4>1, <4>2, OfflineAssumption DEF Photos, FilesShown
    <3> QED BY <3>1, <3>2
  <2> HIDE DEF photo
  <2>4. Remembers([page.draft.photos EXCEPT ![p] = photo], files, evidence)
    BY <1>1, <1>3, <1>7, <2>1, <2>3, RemembersSet
  <2> QED BY <1>7, <1>8, <1>13, <2>1, <2>2, <2>4, PageOrder DEF AddPhoto, Unchanged
<1>14. ASSUME NEW p \in Photos, RemovePhoto(p) PROVE Orderly'
  <2>1. Orderly /\ Running = {} /\ page.open
    BY <1>4, <1>14 DEF RemovePhoto, Undisturbed
  <2>2. page'.list = [page.draft.photos EXCEPT ![p] = NoPhoto] /\ page'.draft = page.draft /\ page'.open
    BY <1>1, <1>14, <2>1 DEF RemovePhoto, PageRecords
  <2>3. NoPhoto.state = "absent"
    BY DEF NoPhoto
  <2>4. Remembers([page.draft.photos EXCEPT ![p] = NoPhoto], files, evidence)
    BY <1>1, <1>3, <1>7, <2>1, <2>3, RemembersSet
  <2> QED BY <1>7, <1>8, <1>14, <2>1, <2>2, <2>4, PageOrder DEF RemovePhoto, Unchanged
<1> QED BY <1>9, <1>10, <1>11, <1>12, <1>13, <1>14

\* The page stores its draft.
LEMMA StoredFaithful ==
  ASSUME TypeOK, Orderly, Running = {}, Stored, UNCHANGED server
  PROVE  /\ Faithful(page.draft, files', evidence', intended')
         /\ visit' \in Received /\ ~amended' => written' = intended'.findings
<1>1. Remembers(page.draft.photos, files, evidence)
  BY DEF Orderly, Kept
<1>2. intended'.findings = page.draft.findings /\ intended'.photos = Taken(page.draft.photos)
  BY DEF Stored
<1>3. visit \in Received /\ ~amended' => written = page.draft.findings
  BY DEF Stored
<1>4. UNCHANGED <<files, evidence, visit, written>>
  BY DEF server
<1> QED BY <1>1, <1>2, <1>3, <1>4 DEF Faithful

LEMMA PageStores ==
  ASSUME TypeOK, TypeOK', Undisturbed => Orderly, Undisturbed',
         Autosave \/ Discard \/ Reload \/ StartSync
  PROVE  Orderly'
<1>1. page \in PageRecords /\ files \in Seq(FileRecords) /\ evidence \in SUBSET DOMAIN files
      /\ device \in Drafts \cup {None} /\ syncs \in [Syncs -> SyncRecords]
  BY DEF TypeOK
<1>2. page.draft \in Drafts
  BY <1>1 DEF PageRecords
<1>3. \A d \in Drafts : d # None
  BY OfflineAssumption
<1>4. Beside => beside = 0 /\ Running = {}
  BY NothingBeside DEF Beside, Undisturbed
<1>5. Closed.draft = Empty /\ Closed.list = None /\ ~Closed.open /\ Idle.step = "idle"
  BY DEF Closed, Idle
<1>6. Remembers(Empty.photos, files, evidence)
  BY <1>1, EmptySound
<1>7. UNCHANGED server => UNCHANGED <<files, evidence, visit, written>> /\ OnServer' = OnServer
  BY DEF server, OnServer
<1>8. CASE Autosave
  <2>1. Orderly /\ Running = {} /\ page.open /\ UNCHANGED <<server, syncs, discarded>> /\ device' = page.draft
    BY <1>4, <1>8 DEF Autosave, Unchanged, Undisturbed
  <2>2. Faithful(device', files', evidence', intended')
        /\ (visit' \in Received /\ ~amended' => written' = intended'.findings)
    BY <1>8, <2>1, StoredFaithful DEF Autosave
  <2>3. page'.draft = page.draft /\ page'.list = page.list /\ page'.open
    BY <1>1, <1>8, <2>1 DEF Autosave, PageRecords
  <2>4. Running' = {} /\ device' # None
    BY <1>2, <1>3, <2>1 DEF Running
  <2>5. Alone'
    BY <2>3, <2>4 DEF Alone
  <2>6. Kept'
    BY <1>7, <2>1, <2>2, <2>3, <2>4 DEF Orderly, Kept
  <2>7. Delivered' /\ Once'
    BY <1>7, <2>1, <2>2, <2>4 DEF Orderly, Delivered, Once
  <2> QED BY <2>5, <2>6, <2>7 DEF Orderly
<1>9. CASE Discard
  <2>1. Orderly /\ Running = {} /\ UNCHANGED <<server, syncs, intended, amended>> /\ device' = None
        /\ page' = Closed /\ discarded'
    BY <1>4, <1>9 DEF Discard, Unchanged, Undisturbed
  <2>2. Running' = {}
    BY <2>1 DEF Running
  <2>3. Alone' /\ Kept'
    BY <1>5, <1>6, <1>7, <2>1, <2>2 DEF Alone, Kept
  <2>4. Delivered' /\ Once'
    BY <1>7, <2>1 DEF Orderly, Delivered, Once
  <2> QED BY <2>3, <2>4 DEF Orderly
<1>10. CASE Reload
  <2>1. Orderly /\ UNCHANGED <<server, device, intended, amended, discarded>> /\ page' = Closed
    BY <1>10 DEF Reload, history, Undisturbed
  <2>2. Running' = {}
    BY <1>5, <1>10 DEF Reload, Running
  <2>3. Alone'
    BY <1>5, <2>1, <2>2 DEF Alone
  <2>4. Kept'
    BY <1>5, <1>6, <1>7, <2>1, <2>2 DEF Orderly, Kept
  <2>5. Delivered' /\ Once'
    BY <1>7, <2>1 DEF Orderly, Delivered, Once
  <2> QED BY <2>3, <2>4, <2>5 DEF Orderly
<1>11. ASSUME NEW s \in Syncs, SyncFromPage(s) PROVE Orderly'
  <2>1. Orderly /\ Running = {} /\ page.list = None /\ page.open
        /\ UNCHANGED <<server, discarded>> /\ device' = page.draft
    BY <1>11, NothingBeside DEF SyncFromPage, Unchanged, Undisturbed
  <2>2. Faithful(device', files', evidence', intended')
        /\ (visit' \in Received /\ ~amended' => written' = intended'.findings)
    BY <1>11, <2>1, StoredFaithful DEF SyncFromPage
  <2>3. page'.sync = s /\ page'.list = None /\ page'.open
    BY <1>1, <1>11, <2>1 DEF SyncFromPage, PageRecords
  <2>4. syncs'[s].copy = page.draft /\ Running' = {s} /\ device' # None
    BY <1>2, <1>3, <1>11, <2>1, StartEffect DEF SyncFromPage
  <2>5. Alone'
    BY <2>3, <2>4 DEF Alone
  <2>6. Kept'
    BY <2>1, <2>2, <2>4 DEF Kept
  <2>7. Delivered' /\ Once'
    BY <1>7, <2>1, <2>2, <2>4 DEF Orderly, Delivered, Once
  <2> QED BY <2>5, <2>6, <2>7 DEF Orderly
<1>12. ASSUME NEW s \in Syncs, SyncFromList(s) PROVE Orderly'
  <2>1. Orderly /\ Running = {} /\ ~page.open /\ device # None
        /\ UNCHANGED <<server, device, page, intended, amended, discarded>>
    BY <1>4, <1>12 DEF SyncFromList, Unchanged, Undisturbed
  <2>2. syncs'[s].copy = device /\ Running' = {s}
    BY <1>1, <1>12, <2>1, StartEffect DEF SyncFromList
  <2>3. page' = Closed
    BY <2>1 DEF Orderly, Alone
  <2>4. Alone'
    BY <1>5, <2>1, <2>2, <2>3 DEF Alone
  <2>5. Kept'
    BY <1>7, <2>1, <2>2 DEF Orderly, Kept
  <2>6. Delivered' /\ Once'
    BY <1>7, <2>1 DEF Orderly, Delivered, Once
  <2> QED BY <2>4, <2>5, <2>6 DEF Orderly
<1> QED BY <1>8, <1>9, <1>10, <1>11, <1>12 DEF StartSync

----------------------------------------------------------------------------
(* The synchronisation, when nothing is done beside it.                     *)

LEMMA FaithfulGrows ==
  ASSUME TypeOK, TypeOK', Grown, evidence' = evidence, NEW d, NEW stored,
         Faithful(d, files, evidence, stored)
  PROVE  Faithful(d, files', evidence', stored)
<1>1. files \in Seq(FileRecords) /\ files' \in Seq(FileRecords) /\ evidence \in SUBSET DOMAIN files
  BY DEF TypeOK
<1>2. Remembers(d.photos, files', evidence)
  BY <1>1, RemembersGrows DEF Grown, Faithful
<1> QED BY <1>2 DEF Faithful

LEMMA OnceGrows ==
  ASSUME TypeOK, Grown, evidence' = evidence, Once
  PROVE  Once'
<1>1. files \in Seq(FileRecords) /\ evidence \subseteq DOMAIN files
  BY DEF TypeOK
<1>2. \A f \in evidence : files'[f].photo = files[f].photo
  BY <1>1 DEF Grown
<1> QED BY <1>2 DEF Once

LEMMA CopyOrder ==
  ASSUME Orderly, NEW s \in Running, syncs'[s].step # "idle",
         \A t \in Syncs \ {s} : syncs'[t] = syncs[t],
         UNCHANGED <<page, intended, amended, discarded>>,
         device' # None, Faithful(device', files', evidence', intended),
         Faithful(syncs'[s].copy, files', evidence', intended),
         visit' \in Received /\ ~amended => written' = intended.findings, Once'
  PROVE  Orderly'
<1>1. Running = {s}
  BY DEF Orderly, Alone
<1>2. s \in Syncs
  BY DEF Running
<1>3. Running' = {s}
  BY <1>1, <1>2 DEF Running
<1>4. Alone'
  BY <1>1, <1>3 DEF Orderly, Alone
<1>5. Kept' /\ Delivered'
  BY <1>3 DEF Kept, Delivered
<1> QED BY <1>4, <1>5 DEF Orderly

LEMMA ReturnOrder ==
  ASSUME TypeOK, Orderly, NEW s \in Running, Return(s), UNCHANGED <<intended, amended, discarded>>,
         Faithful(syncs[s].copy, files', evidence', intended),
         Remembers(Empty.photos, files', evidence'),
         visit' \in Received /\ ~amended => written' = intended.findings, Once'
  PROVE  Orderly'
<1>1. Running = {s} /\ (~page.open => page = Closed) /\ (page.open => page.sync = s) /\ page.list = None
  BY DEF Orderly, Alone
<1>2. s \in Syncs /\ page \in PageRecords
  BY DEF Running, TypeOK
<1>3. Running' = {}
  BY <1>1, <1>2, IdleEffect DEF Return
<1>4. syncs[s].copy \in Drafts
  BY <1>2 DEF TypeOK, SyncRecords
<1>5. device' = syncs[s].copy /\ device' # None
  BY <1>4, OfflineAssumption DEF Return
<1>6. CASE page.open
  <2>1. page'.draft = syncs[s].copy /\ page'.list = None /\ page'.open
    BY <1>1, <1>2, <1>6 DEF Return, PageRecords
  <2> QED BY <1>3, <1>5, <2>1 DEF Orderly, Alone, Kept, Delivered, Faithful
<1>7. CASE ~page.open
  <2>1. page' = Closed /\ Closed.draft = Empty /\ Closed.list = None /\ ~Closed.open
    BY <1>1, <1>7 DEF Return, Closed
  <2> QED BY <1>3, <1>5, <2>1 DEF Orderly, Alone, Kept, Delivered, Faithful
<1> QED BY <1>6, <1>7

LEMMA UploadOrder ==
  ASSUME TypeOK, TypeOK', AllTruthful, Grown, Orderly, NEW s \in Syncs, UploadPhoto(s)
  PROVE  Orderly'
<1>1. \E p \in First(ToUpload(s)), photo \in PhotoRecords : photo.state # "absent" /\ Persist(s, p, photo)
  <2>1. NoFile \in Nat /\ NewFile \in Nat
    BY DEF NoFile, NewFile, TypeOK
  <2>2. \A f \in Nat :
          /\ [state |-> "rejected", file |-> f] \in PhotoRecords
          /\ [state |-> "uploaded", file |-> f] \in PhotoRecords
    BY DEF PhotoRecords
  <2> QED BY <2>1, <2>2 DEF UploadPhoto
<1>2. PICK p \in First(ToUpload(s)), photo \in PhotoRecords : photo.state # "absent" /\ Persist(s, p, photo)
  BY <1>1
<1>3. p \in Photos /\ syncs[s].copy.photos[p].file = NoFile /\ syncs[s].copy.photos[p].state # "absent"
  BY DEF First, ToUpload
<1>4. s \in Running
  BY DEF UploadPhoto, Running
<1>5. /\ device' \in Drafts /\ device' = syncs'[s].copy /\ syncs'[s].step = syncs[s].step
      /\ syncs'[s].copy.photos = [syncs[s].copy.photos EXCEPT ![p] = photo]
      /\ syncs'[s].copy.findings = syncs[s].copy.findings
      /\ \A t \in Syncs \ {s} : syncs'[t] = syncs[t]
  BY <1>2, <1>3, PersistEffect
<1>6. UNCHANGED <<page, visit, written, evidence, intended, amended, discarded>>
  BY DEF UploadPhoto, history
<1>7. syncs[s].copy.photos \in PhotoLists
  BY DEF TypeOK, SyncRecords, Drafts, PhotoLists
<1>8. Faithful(syncs[s].copy, files, evidence, intended)
  BY <1>4 DEF Orderly, Kept
<1>9. files \in Seq(FileRecords) /\ evidence \in SUBSET DOMAIN files
  BY DEF TypeOK
<1>10. \A f \in evidence : files[f].photo # p
  BY <1>3, <1>8, <1>9 DEF Faithful, Remembers, NoFile
<1>11. Remembers([syncs[s].copy.photos EXCEPT ![p] = photo], files, evidence)
  BY <1>3, <1>7, <1>8, <1>9, <1>10, RemembersSet DEF Faithful
<1>12. intended.photos \subseteq Taken(syncs'[s].copy.photos)
  <2>1. Taken(syncs[s].copy.photos) \subseteq Taken(syncs'[s].copy.photos)
    BY <1>2, <1>5, <1>7 DEF Taken, PhotoLists
  <2> QED BY <1>8, <2>1 DEF Faithful
<1>13. Faithful(syncs'[s].copy, files, evidence, intended)
  BY <1>5, <1>8, <1>11, <1>12 DEF Faithful
<1>14. Faithful(syncs'[s].copy, files', evidence', intended)
  BY <1>6, <1>13, FaithfulGrows
<1>15. Once' /\ syncs'[s].step # "idle" /\ device' # None
  BY <1>4, <1>5, <1>6, OnceGrows, OfflineAssumption DEF Orderly, Running
<1>16. visit' \in Received /\ ~amended => written' = intended.findings
  BY <1>6 DEF Orderly, Delivered
<1> QED BY <1>4, <1>5, <1>6, <1>14, <1>15, <1>16, CopyOrder

\* The link of the file the copy remembers.
LEMMA LinkOnce ==
  ASSUME TypeOK, AllTruthful, Orderly, NEW s \in Running, NEW p \in First(ToLink(s)),
         Link(syncs[s].copy.photos[p].file), files' = files
  PROVE  /\ Once'
         /\ Faithful(syncs[s].copy, files', evidence', intended)
         /\ \A g \in evidence' : files[g].photo = p => syncs[s].copy.photos[p].file = g
<1> DEFINE f == syncs[s].copy.photos[p].file
<1>1. s \in Syncs
  BY DEF Running
<1>2. files[f].photo = p /\ syncs[s].copy.photos[p].state # "absent"
  BY <1>1, LinkEffect
<1>3. Faithful(syncs[s].copy, files, evidence, intended)
  BY DEF Orderly, Kept
<1>4. \A g \in evidence : files[g].photo = p => g = f
  BY <1>2, <1>3 DEF Faithful, Remembers
<1>5. Remembers(syncs[s].copy.photos, files, evidence \cup {f})
  BY <1>2, <1>3, RemembersLink DEF Faithful
<1>6. evidence' = evidence \/ evidence' = evidence \cup {f}
  BY DEF Link
<1> HIDE DEF f
<1>7. Once'
  BY <1>2, <1>4, <1>6 DEF Orderly, Once
<1>8. Faithful(syncs[s].copy, files', evidence', intended)
  BY <1>3, <1>5, <1>6 DEF Faithful
<1>9. \A g \in evidence' : files[g].photo = p => f = g
  BY <1>4, <1>6
<1> QED BY <1>7, <1>8, <1>9 DEF f

LEMMA LinkOrder ==
  ASSUME TypeOK, TypeOK', AllTruthful, Orderly, NEW s \in Syncs, LinkPhoto(s)
  PROVE  Orderly'
<1>1. PICK p \in First(ToLink(s)) :
       LET f == syncs[s].copy.photos[p].file IN
       /\ Link(f)
       /\ Persist(s, p, [state |-> LinkedAs(files[f].scan), file |-> f])
  BY DEF LinkPhoto
<1> DEFINE f == syncs[s].copy.photos[p].file
           photo == [state |-> LinkedAs(files[f].scan), file |-> f]
<1>2. p \in Photos /\ f \in DOMAIN files
  BY LinkEffect
<1>3. f \in Nat
  BY <1>2 DEF TypeOK
<1>4. photo \in PhotoRecords /\ photo.state # "absent" /\ photo.file = f
  BY <1>3, LinkedTypes DEF LinkedAs
<1>5. Link(f) /\ Persist(s, p, photo)
  BY <1>1
<1>6. s \in Running /\ UNCHANGED <<page, visit, written, files, intended, amended, discarded>>
  BY DEF LinkPhoto, Links, Running, history
<1>7. /\ Once'
      /\ Faithful(syncs[s].copy, files', evidence', intended)
      /\ \A g \in evidence' : files[g].photo = p => f = g
  BY <1>5, <1>6, LinkOnce
<1> HIDE DEF f, photo
<1>8. /\ device' \in Drafts /\ device' = syncs'[s].copy /\ syncs'[s].step = syncs[s].step
      /\ syncs'[s].copy.photos = [syncs[s].copy.photos EXCEPT ![p] = photo]
      /\ syncs'[s].copy.findings = syncs[s].copy.findings
      /\ \A t \in Syncs \ {s} : syncs'[t] = syncs[t]
  BY <1>2, <1>4, <1>5, PersistEffect
<1>9. syncs[s].copy.photos \in PhotoLists
  BY DEF TypeOK, SyncRecords, Drafts, PhotoLists
<1>10. files' \in Seq(FileRecords) /\ evidence' \in SUBSET DOMAIN files'
  BY DEF TypeOK
<1>11. Remembers([syncs[s].copy.photos EXCEPT ![p] = photo], files', evidence')
  BY <1>2, <1>4, <1>6, <1>7, <1>9, <1>10, RemembersSet DEF Faithful
<1>12. intended.photos \subseteq Taken(syncs'[s].copy.photos)
  <2>1. Taken(syncs[s].copy.photos) \subseteq Taken(syncs'[s].copy.photos)
    BY <1>4, <1>8, <1>9 DEF Taken, PhotoLists
  <2> QED BY <1>7, <2>1 DEF Faithful
<1>13. Faithful(syncs'[s].copy, files', evidence', intended)
  BY <1>7, <1>8, <1>11, <1>12 DEF Faithful
<1>14. syncs'[s].step # "idle" /\ device' # None
  BY <1>6, <1>8, OfflineAssumption DEF Running
<1>15. visit' \in Received /\ ~amended => written' = intended.findings
  BY <1>6 DEF Orderly, Delivered
<1> QED BY <1>6, <1>7, <1>8, <1>13, <1>14, <1>15, CopyOrder

LEMMA SubmissionOrder ==
  ASSUME TypeOK, Orderly, NEW s \in Running, Submission(syncs[s].copy.findings)
  PROVE  ~amended => written' = intended.findings
<1>1. syncs[s].copy.findings = intended.findings
  BY DEF Orderly, Kept, Faithful
<1> QED BY <1>1 DEF Submission, Orderly, Delivered

LEMMA ConfirmedOnServer ==
  ASSUME TypeOK, AllTruthful, NEW s \in Syncs, Confirmed(syncs[s].copy)
  PROVE  visit \in Received /\ Taken(syncs[s].copy.photos) \subseteq OnServer
<1>1. Truthful(syncs[s].copy, files, evidence, shots, visit)
  BY DEF AllTruthful
<1>2. ASSUME NEW p \in Taken(syncs[s].copy.photos) PROVE p \in OnServer
  <2>1. p \in Photos /\ syncs[s].copy.photos[p].state = "linked"
    BY DEF Taken, Confirmed
  <2>2. /\ syncs[s].copy.photos[p].file \in evidence
        /\ syncs[s].copy.photos[p].file # NoFile => files[syncs[s].copy.photos[p].file].photo = p
    BY <1>1, <2>1 DEF Truthful, Sound
  <2>3. evidence \subseteq 1..Len(files)
    BY DEF TypeOK
  <2>4. syncs[s].copy.photos[p].file # NoFile
    BY <2>2, <2>3 DEF NoFile
  <2> QED BY <2>2, <2>4 DEF OnServer
<1> QED BY <1>1, <1>2 DEF Confirmed, Truthful

LEMMA StepOrder ==
  ASSUME TypeOK, TypeOK', AllTruthful, Grown, Orderly, NEW s \in Syncs, UNCHANGED history,
         UploadsDone(s) \/ Submit(s) \/ SubmissionRefused(s) \/ Finish(s) \/ Interrupt(s)
  PROVE  Orderly'
<1>1. s \in Running
  BY DEF UploadsDone, Submit, SubmissionRefused, Submits, Finish, Interrupt, Running
<1>2. Faithful(syncs[s].copy, files, evidence, intended) /\ device # None
      /\ (device # None => Faithful(device, files, evidence, intended))
  BY <1>1 DEF Orderly, Kept, Alone
<1>3. evidence' = evidence => Faithful(syncs[s].copy, files', evidence', intended) /\ Once'
  BY <1>2, FaithfulGrows, OnceGrows DEF Orderly
<1>4. UNCHANGED <<intended, amended, discarded>>
  BY DEF history
<1>5. visit \in Received /\ ~amended => written = intended.findings
  BY DEF Orderly, Delivered
<1>6. Remembers(Empty.photos, files', evidence')
  BY EmptySound DEF TypeOK
<1>7. CASE UploadsDone(s)
  <2>1. syncs'[s].copy = syncs[s].copy /\ syncs'[s].step # "idle"
        /\ \A t \in Syncs \ {s} : syncs'[t] = syncs[t]
    BY <1>7, UploadsDoneEffect
  <2>2. UNCHANGED <<page, device, visit, written, files, evidence>>
    BY <1>7 DEF UploadsDone, Unchanged, server
  <2> QED BY <1>1, <1>2, <1>3, <1>4, <1>5, <2>1, <2>2, CopyOrder
<1>8. CASE Submit(s)
  <2>1. /\ device' = syncs'[s].copy /\ device' # None /\ syncs'[s].step # "idle"
        /\ syncs'[s].copy.photos = syncs[s].copy.photos
        /\ syncs'[s].copy.findings = syncs[s].copy.findings
        /\ \A t \in Syncs \ {s} : syncs'[t] = syncs[t]
    BY <1>8, SubmitEffect, OfflineAssumption
  <2>2. UNCHANGED <<page, files, evidence>> /\ (~amended => written' = intended.findings)
    BY <1>1, <1>8, SubmissionOrder DEF Submit
  <2>3. Faithful(syncs'[s].copy, files', evidence', intended)
    BY <1>3, <2>1, <2>2 DEF Faithful
  <2> QED BY <1>1, <1>3, <1>4, <2>1, <2>2, <2>3, CopyOrder
<1>9. CASE SubmissionRefused(s)
  <2>1. Return(s) /\ UNCHANGED <<visit, written, files, evidence>>
    BY <1>9 DEF SubmissionRefused, Unchanged, server
  <2> QED BY <1>1, <1>3, <1>4, <1>5, <1>6, <2>1, ReturnOrder
<1>10. CASE Finish(s) /\ Return(s)
  <2>1. Return(s) /\ UNCHANGED <<visit, written, files, evidence>>
    BY <1>10 DEF Finish, Unchanged, server
  <2> QED BY <1>1, <1>3, <1>4, <1>5, <1>6, <2>1, ReturnOrder
<1>11. CASE /\ Confirmed(syncs[s].copy) /\ device' = None
            /\ syncs' = [syncs EXCEPT ![s] = Idle]
            /\ page' = IF page.open /\ page.sync = s THEN Closed ELSE page
            /\ UNCHANGED server
  <2>1. Running = {s} /\ (~page.open => page = Closed) /\ (page.open => page.sync = s)
    BY <1>1 DEF Orderly, Alone
  <2>2. Running' = {}
    BY <1>11, <2>1, IdleEffect
  <2>3. page' = Closed /\ ~Closed.open /\ Closed.list = None /\ Closed.draft = Empty
    BY <1>11, <2>1 DEF Closed
  <2>4. UNCHANGED <<files, evidence, visit, written>>
    BY <1>11 DEF server
  <2>5. visit \in Received /\ Taken(syncs[s].copy.photos) \subseteq OnServer
    BY <1>11, ConfirmedOnServer
  <2>7. visit \in Received /\ intended.photos \subseteq OnServer
    BY <1>2, <2>5 DEF Faithful
  <2>8. OnServer' = OnServer
    BY <2>4 DEF OnServer
  <2>9. Alone' /\ Kept'
    BY <1>6, <1>11, <2>2, <2>3 DEF Alone, Kept
  <2>10. Delivered' /\ Once'
    BY <1>3, <1>4, <1>5, <2>4, <2>7, <2>8 DEF Delivered
  <2> QED BY <2>9, <2>10 DEF Orderly
<1>12. CASE Interrupt(s)
  <2>1. Return(s)
    BY <1>12 DEF Interrupt
  <2>2. CASE UNCHANGED <<visit, written, evidence>>
    BY <1>1, <1>3, <1>4, <1>5, <1>6, <2>1, <2>2, ReturnOrder
  <2>3. ASSUME NEW p \in First(ToLink(s)), Link(syncs[s].copy.photos[p].file),
               UNCHANGED <<visit, written, files>>
        PROVE  Orderly'
    BY <1>1, <1>4, <1>5, <1>6, <2>1, <2>3, LinkOnce, ReturnOrder
  <2>4. CASE Submission(syncs[s].copy.findings) /\ UNCHANGED <<files, evidence>>
    BY <1>1, <1>3, <1>4, <1>6, <2>1, <2>4, SubmissionOrder, ReturnOrder
  <2> QED BY <1>12, <2>2, <2>3, <2>4 DEF Interrupt, server
<1> QED BY <1>7, <1>8, <1>9, <1>10, <1>11, <1>12 DEF Finish, Unchanged

LEMMA ServerOrder ==
  ASSUME TypeOK, TypeOK', Grown, Orderly, UNCHANGED history,
         (\E f \in 1..MaxFiles : Scan(f)) \/ CancelVisit
  PROVE  Orderly'
<1>1. /\ UNCHANGED <<device, page, syncs, written, evidence, intended, amended, discarded>>
      /\ visit' \in Received <=> visit \in Received
  BY DEF Scan, CancelVisit, history
<1>2. \A d, stored : Faithful(d, files, evidence, stored) => Faithful(d, files', evidence', stored)
  BY <1>1, FaithfulGrows
<1>3. files \in Seq(FileRecords) /\ files' \in Seq(FileRecords) /\ evidence \in SUBSET DOMAIN files
  BY DEF TypeOK
<1>4. \A photos : Remembers(photos, files, evidence) => Remembers(photos, files', evidence')
  BY <1>1, <1>3, RemembersGrows DEF Grown
<1>5. Running' = Running
  BY <1>1 DEF Running
<1>6. OnServer' = OnServer
  <2>1. \A f \in evidence : files'[f].photo = files[f].photo
    BY <1>3 DEF Grown
  <2> QED BY <1>1, <2>1 DEF OnServer
<1>7. Alone'
  BY <1>1, <1>5 DEF Orderly, Alone
<1>8. Kept'
  BY <1>1, <1>2, <1>4, <1>5 DEF Orderly, Kept
<1>9. Delivered'
  BY <1>1, <1>6 DEF Orderly, Delivered
<1>10. Once'
  BY <1>1, OnceGrows DEF Orderly
<1> QED BY <1>7, <1>8, <1>9, <1>10 DEF Orderly

----------------------------------------------------------------------------
(* The invariant.                                                           *)

LEMMA InitInv == Init => Inv
<1> SUFFICES ASSUME Init PROVE Inv
  OBVIOUS
<1> USE DEF Init
<1>1. files = <<>> /\ files \in Seq(FileRecords) /\ evidence = {} /\ evidence \in SUBSET DOMAIN files
  OBVIOUS
<1>2. Empty \in Drafts /\ Truthful(Empty, files, evidence, shots, visit)
      /\ Remembers(Empty.photos, files, evidence)
  BY <1>1, EmptySound
<1>3. Idle \in SyncRecords /\ Idle.copy = Empty /\ Idle.step = "idle"
  BY <1>2 DEF Idle, SyncRecords
<1>4. page \in PageRecords /\ page.draft = Empty /\ page.list = None /\ page.open
  BY <1>2 DEF Closed, PageRecords
<1>5. shots \in 0..PhotoCount
  BY OfflineAssumption
<1>6. TypeOK
  BY <1>1, <1>2, <1>3, <1>4, <1>5 DEF TypeOK
<1>7. AllTruthful
  BY <1>2, <1>3, <1>4 DEF AllTruthful
<1>8. FilesShown
  BY <1>1 DEF FilesShown
<1>9. Running = {} /\ device # None
  BY <1>2, <1>3, OfflineAssumption DEF Running
<1>10. Alone /\ Once
  BY <1>1, <1>4, <1>9 DEF Alone, Once
<1>11. Kept
  BY <1>2, <1>4, <1>9 DEF Kept, Faithful, Empty
<1>12. Delivered
  BY <1>9 DEF Delivered
<1> QED BY <1>6, <1>7, <1>8, <1>10, <1>11, <1>12 DEF Inv, Orderly

LEMMA OrderKept ==
  ASSUME TypeOK, TypeOK', AllTruthful, FilesShown, Grown, Undisturbed => Orderly, [Next]_vars,
         Undisturbed'
  PROVE  Orderly'
<1>1. UNCHANGED history => Orderly
  BY DEF history, Undisturbed
<1>2. CASE UNCHANGED vars
  BY <1>1, <1>2 DEF vars, server, history, Orderly, Alone, Kept, Delivered, Once, Running, OnServer
<1>3. ASSUME NEW s \in Syncs, SyncStep(s) \/ Interrupt(s) PROVE Orderly'
  <2>1. UNCHANGED history
    BY <1>3 DEF SyncStep, UploadPhoto, UploadsDone, LinkPhoto, Submit, SubmissionRefused, Finish,
       Interrupt, Unchanged
  <2> QED BY <1>1, <1>3, <2>1, UploadOrder, LinkOrder, StepOrder DEF SyncStep
<1>4. CASE (\E f \in 1..MaxFiles : Scan(f)) \/ CancelVisit
  <2>1. UNCHANGED history
    BY <1>4 DEF Scan, CancelVisit
  <2> QED BY <1>1, <1>4, <2>1, ServerOrder
<1> QED BY <1>2, <1>3, <1>4, PageOnly, PageStores DEF Next

LEMMA NextInv == Inv /\ [Next]_vars => Inv'
<1> SUFFICES ASSUME Inv, [Next]_vars PROVE Inv'
  OBVIOUS
<1>1. TypeOK /\ AllTruthful /\ FilesShown /\ (Undisturbed => Orderly)
  BY DEF Inv
<1>2. TypeOK' /\ Grown
  BY <1>1, Types, ServerGrows
<1>3. AllTruthful' /\ FilesShown'
  BY <1>1, <1>2, TruthKept, ShownKept
<1>4. Undisturbed' => Orderly'
  BY <1>1, <1>2, OrderKept
<1> QED BY <1>2, <1>3, <1>4 DEF Inv

LEMMA Invariant == Spec => []Inv
BY InitInv, NextInv, PTL DEF Spec

\* Every state the page, the device, a synchronisation and the server can
\* reach is of the declared shape.
THEOREM TypesHold == Spec => []TypeOK
<1>1. Inv => TypeOK
  BY DEF Inv
<1> QED BY <1>1, Invariant, PTL

\* For any number of photos, failed calls and reloads: no photo becomes
\* evidence twice while each synchronisation is let end (sync.ts, linkPhoto).
THEOREM NoPhotoTwice == Spec => []OneEvidence
<1>1. Inv => OneEvidence
  BY DEF Inv, Orderly, Once, OneEvidence
<1> QED BY <1>1, Invariant, PTL

\* For any number of photos, failed calls and reloads: what the page stored is
\* on the device or on the server (sync.ts, isDraftFullyConfirmed).
THEOREM NothingDisappears == Spec => []NothingLost
<1>1. Inv => NothingLost
  BY DEF Inv, Orderly, Kept, Delivered, Faithful, NothingLost
<1> QED BY <1>1, Invariant, PTL

\* Whoever else writes to the draft: a synchronisation removes it only when
\* the server recorded the visit's submission, withdrawn by staff since or not,
\* and has the photos of its copy.
THEOREM ClearedOnlyWhenConfirmed == Spec => ClearedWhenConfirmed
<1> DEFINE Cleared == device # None /\ device' = None /\ ~discarded'
           Had == visit \in Received
                  /\ \E s \in Running : Taken(syncs[s].copy.photos) \subseteq OnServer
<1>1. ASSUME Inv, [Next]_vars, Cleared PROVE Had
  <2>1. TypeOK /\ TypeOK' /\ AllTruthful
    BY <1>1, Types DEF Inv
  <2>2. \A d \in Drafts : d # None
    BY OfflineAssumption
  <2>3. device' # device
    BY <1>1
  <2>4. ASSUME NEW s \in Syncs, Finish(s) PROVE Had
    <3>1. syncs[s].copy \in Drafts
      BY <2>1 DEF TypeOK, SyncRecords
    <3>2. Confirmed(syncs[s].copy) /\ s \in Running
      BY <1>1, <2>2, <2>4, <3>1 DEF Finish, Return, Running
    <3> QED BY <2>1, <3>2, ConfirmedOnServer
  <2>5. ASSUME NEW s \in Syncs, SyncStep(s) \/ Interrupt(s) PROVE Had
    <3>1. syncs[s].copy \in Drafts
      BY <2>1 DEF TypeOK, SyncRecords
    <3>2. Return(s) => device' \in Drafts
      BY <3>1 DEF Return
    <3>3. UploadPhoto(s) \/ LinkPhoto(s) => device' = syncs'[s].copy
      BY DEF UploadPhoto, LinkPhoto, Persist
    <3>4. Submit(s) => device' = syncs'[s].copy
      BY DEF Submit
    <3>5. syncs'[s].copy \in Drafts
      BY <2>1 DEF TypeOK, SyncRecords
    <3> QED BY <1>1, <2>2, <2>3, <2>4, <2>5, <3>2, <3>3, <3>4, <3>5
        DEF SyncStep, SubmissionRefused, Interrupt, UploadsDone, Unchanged
  <2>6. page.draft \in Drafts
    BY <2>1 DEF TypeOK, PageRecords
  <2>7. CASE Autosave \/ StartSync
    <3>1. device' = page.draft \/ device' = device
      BY <2>7 DEF Autosave, StartSync, SyncFromPage, SyncFromList, Unchanged
    <3> QED BY <1>1, <2>2, <2>3, <2>6, <3>1
  <2>8. CASE OpenPage \/ LeavePage \/ Type \/ SetPhotos \/ Reload \/ CancelVisit \/ UNCHANGED vars
    BY <2>3, <2>8 DEF OpenPage, LeavePage, Type, SetPhotos, Reload, CancelVisit, Unchanged, vars
  <2>9. CASE Discard
    BY <1>1, <2>9 DEF Discard
  <2>10. CASE \E p \in Photos : AddPhoto(p) \/ RemovePhoto(p)
    BY <2>3, <2>10 DEF AddPhoto, RemovePhoto, Unchanged
  <2>11. CASE \E f \in 1..MaxFiles : Scan(f)
    BY <2>3, <2>11 DEF Scan
  <2> QED BY <1>1, <2>5, <2>7, <2>8, <2>9, <2>10, <2>11 DEF Next
<1>2. Inv /\ [Next]_vars => [Cleared => Had]_vars
  BY <1>1
<1> QED BY <1>2, Invariant, PTL DEF ClearedWhenConfirmed, Spec

----------------------------------------------------------------------------
(* One upload for each photo.                                               *)
(*                                                                          *)
(* A list of photos stands for uploads still to come.  As long as the       *)
(* inspector lets each synchronisation end, the files there are and the     *)
(* uploads any list can still ask for fit the photos taken and the calls    *)
(* lost: every upload that is answered leaves the list it came from, and    *)
(* the list that forgets one pays for it with a fault.                      *)

ToSend(photos) ==
  {p \in Photos : photos[p].file = NoFile /\ photos[p].state \notin {"absent", "rejected"}}

Fits(photos, sent, budget) == sent + Cardinality(ToSend(photos)) <= budget

Budget ==
  LET InBudget(photos) == Fits(photos, Len(files), shots + faults) IN
  /\ device # None => InBudget(device.photos)
  /\ \A s \in Running : InBudget(syncs[s].copy.photos)
  /\ Running = {} =>
       /\ InBudget(page.draft.photos)
       /\ page.list # None => InBudget(page.list)

Frugal == Undisturbed => Budget

LEMMA ToSendFinite ==
  ASSUME NEW photos
  PROVE  IsFiniteSet(ToSend(photos)) /\ Cardinality(ToSend(photos)) \in Nat
<1>1. IsFiniteSet(Photos)
  BY OfflineAssumption, FS_Interval DEF Photos
<1>2. ToSend(photos) \subseteq Photos
  BY DEF ToSend
<1>3. IsFiniteSet(ToSend(photos))
  BY <1>1, <1>2, FS_Subset
<1> QED BY <1>3, FS_CardinalityType

\* A list that asks for no more fits as the longer one did.
LEMMA FitsLess ==
  ASSUME NEW old, NEW new, NEW sent \in Nat, NEW budget \in Nat,
         Fits(old, sent, budget), ToSend(new) \subseteq ToSend(old)
  PROVE  Fits(new, sent, budget)
<1>1. Cardinality(ToSend(new)) <= Cardinality(ToSend(old))
  BY ToSendFinite, FS_Subset
<1> QED BY <1>1, ToSendFinite DEF Fits

\* The upload that was made is no longer asked for.
LEMMA FitsSent ==
  ASSUME NEW old, NEW new, NEW sent \in Nat, NEW budget \in Nat, NEW p \in ToSend(old),
         Fits(old, sent, budget), ToSend(new) \subseteq ToSend(old) \ {p}
  PROVE  Fits(new, sent + 1, budget)
<1>1. Cardinality(ToSend(old) \ {p}) = Cardinality(ToSend(old)) - 1
  BY ToSendFinite, FS_RemoveElement
<1>2. IsFiniteSet(ToSend(old) \ {p})
  BY ToSendFinite, FS_RemoveElement
<1>3. Cardinality(ToSend(new)) <= Cardinality(ToSend(old) \ {p})
  BY <1>2, FS_Subset
<1> QED BY <1>1, <1>3, ToSendFinite DEF Fits

\* The photo that was taken brings an upload and the room for it.
LEMMA FitsTaken ==
  ASSUME NEW old, NEW new, NEW sent \in Nat, NEW budget \in Nat, NEW p,
         Fits(old, sent, budget), ToSend(new) \subseteq ToSend(old) \cup {p}
  PROVE  Fits(new, sent, budget + 1)
<1>1. IsFiniteSet(ToSend(old) \cup {p})
      /\ Cardinality(ToSend(old) \cup {p}) <= Cardinality(ToSend(old)) + 1
  BY ToSendFinite, FS_AddElement
<1>2. Cardinality(ToSend(new)) <= Cardinality(ToSend(old) \cup {p})
  BY <1>1, FS_Subset
<1> QED BY <1>1, <1>2, ToSendFinite, FS_CardinalityType DEF Fits

LEMMA SizeTypes ==
  /\ TypeOK => /\ Len(files) \in Nat /\ shots \in Nat /\ faults \in Nat
               /\ shots + faults \in Nat
  /\ TypeOK' => /\ Len(files') \in Nat /\ shots' \in Nat /\ faults' \in Nat
                /\ shots' + faults' \in Nat
<1>1. ASSUME TypeOK PROVE shots \in Nat /\ faults \in Nat /\ files \in Seq(FileRecords)
  BY <1>1, OfflineAssumption DEF TypeOK
<1>2. ASSUME TypeOK' PROVE shots' \in Nat /\ faults' \in Nat /\ files' \in Seq(FileRecords)
  BY <1>2, OfflineAssumption DEF TypeOK
<1> QED BY <1>1, <1>2

\* A step that adds no more files than photos and faults leaves room for a list.
LEMMA FitsStill ==
  ASSUME TypeOK, TypeOK', NEW photos, Fits(photos, Len(files), shots + faults),
         Len(files') - Len(files) <= (shots' + faults') - (shots + faults)
  PROVE  Fits(photos, Len(files'), shots' + faults')
BY SizeTypes, ToSendFinite DEF Fits

LEMMA EmptySends == ToSend(Empty.photos) = {}
BY DEF ToSend, Empty, NoPhoto

\* A synchronisation goes on and stores its copy.
LEMMA CopyBudget ==
  ASSUME Alone, NEW s \in Running, syncs'[s].step # "idle",
         \A t \in Syncs \ {s} : syncs'[t] = syncs[t],
         Fits(device'.photos, Len(files'), shots' + faults'),
         Fits(syncs'[s].copy.photos, Len(files'), shots' + faults')
  PROVE  Budget'
<1>1. Running = {s} /\ s \in Syncs
  BY DEF Alone, Running
<1>2. Running' = {s}
  BY <1>1 DEF Running
<1> QED BY <1>2 DEF Budget

\* A synchronisation ends and leaves its copy.
LEMMA ReturnBudget ==
  ASSUME TypeOK, TypeOK', Alone, NEW s \in Running, Return(s),
         Fits(syncs[s].copy.photos, Len(files'), shots' + faults')
  PROVE  Budget'
<1>1. Running = {s} /\ (~page.open => page = Closed) /\ (page.open => page.sync = s) /\ page.list = None
  BY DEF Alone
<1>2. s \in Syncs /\ page \in PageRecords
  BY DEF Running, TypeOK
<1>3. Running' = {}
  BY <1>1, <1>2, IdleEffect DEF Return
<1>4. device' = syncs[s].copy
  BY DEF Return
<1>5. CASE page.open
  <2>1. page'.draft = syncs[s].copy /\ page'.list = None
    BY <1>1, <1>2, <1>5 DEF Return, PageRecords
  <2> QED BY <1>3, <1>4, <2>1 DEF Budget
<1>6. CASE ~page.open
  <2>1. page'.draft = Empty /\ page'.list = None
    BY <1>1, <1>6 DEF Return, Closed
  <2>2. Fits(Empty.photos, Len(files'), shots' + faults')
    BY SizeTypes, EmptySends, FitsLess
  <2> QED BY <1>3, <1>4, <2>1, <2>2 DEF Budget
<1> QED BY <1>5, <1>6

\* Only the page changes.
LEMMA PageBudget ==
  ASSUME TypeOK, TypeOK', Budget, UNCHANGED <<device, syncs, files>>,
         shots + faults <= shots' + faults',
         Running = {} =>
           /\ Fits(page'.draft.photos, Len(files), shots' + faults')
           /\ page'.list # None => Fits(page'.list, Len(files), shots' + faults')
  PROVE  Budget'
<1>1. Running' = Running /\ Len(files') = Len(files)
  BY DEF Running
<1>2. ASSUME NEW photos, Fits(photos, Len(files), shots + faults)
      PROVE  Fits(photos, Len(files'), shots' + faults')
  BY <1>1, <1>2, SizeTypes, FitsStill
<1>3. device' # None => Fits(device'.photos, Len(files'), shots' + faults')
  BY <1>2 DEF Budget
<1>4. \A s \in Running' : Fits(syncs'[s].copy.photos, Len(files'), shots' + faults')
  BY <1>1, <1>2 DEF Budget
<1> QED BY <1>1, <1>3, <1>4 DEF Budget

\* The device takes the list of the page, or loses its own.
LEMMA StoreBudget ==
  ASSUME Budget, Running = {}, Running' = {}, UNCHANGED <<files, shots, faults>>,
         device' # None => device'.photos = page.draft.photos,
         page'.draft.photos = page.draft.photos, page'.list = page.list
  PROVE  Budget'
BY DEF Budget

LEMMA UsePageBudget ==
  ASSUME TypeOK, TypeOK', Undisturbed => Alone /\ Budget, Undisturbed',
         OpenPage \/ LeavePage \/ Type \/ SetPhotos \/ Autosave \/ Discard
  PROVE  Budget'
<1>1. page \in PageRecords
  BY DEF TypeOK
<1>2. page.draft \in Drafts
  BY <1>1 DEF PageRecords
<1>3. Beside => beside = 0 /\ Running = {}
  BY NothingBeside DEF Beside, Undisturbed
<1>4. Closed.draft = Empty /\ Closed.list = None
  BY DEF Closed
<1>5. Alone /\ Budget
  BY <1>3 DEF OpenPage, LeavePage, Type, SetPhotos, Autosave, Discard, Unchanged, history, Undisturbed
<1>6. UNCHANGED <<files, shots, faults, syncs>> /\ Running' = Running
  BY DEF OpenPage, LeavePage, Type, SetPhotos, Autosave, Discard, Unchanged, server, Running
<1>7. Fits(Empty.photos, Len(files), shots + faults)
  <2>1. \E photos : Fits(photos, Len(files), shots + faults)
    BY <1>5 DEF Budget
  <2> QED BY <2>1, SizeTypes, EmptySends, FitsLess
<1>8. CASE OpenPage
  <2>1. Running = {} /\ device # None /\ device' = device
    BY <1>3, <1>8 DEF OpenPage, Unchanged
  <2>2. page'.draft = device /\ page'.list = None
    BY <1>4, <1>8 DEF OpenPage, Closed
  <2> QED BY <1>5, <1>6, <2>1, <2>2 DEF Budget
<1>9. CASE LeavePage
  <2>1. device' = device /\ page'.draft = Empty /\ page'.list = None
    BY <1>4, <1>9 DEF LeavePage, Unchanged
  <2> QED BY <1>5, <1>6, <1>7, <2>1 DEF Budget
<1>10. CASE Type
  <2>1. device' = device
    BY <1>10 DEF Type, Unchanged
  <2>2. page'.draft.photos = page.draft.photos /\ page'.list = page.list
    BY <1>1, <1>2, <1>10 DEF Type, PageRecords, Drafts
  <2> QED BY <1>5, <1>6, <2>1, <2>2 DEF Budget
<1>11. CASE SetPhotos
  <2>1. device' = device /\ page.list # None
    BY <1>11 DEF SetPhotos, Unchanged
  <2>2. page'.draft.photos = page.list /\ page'.list = None
    BY <1>1, <1>2, <1>11 DEF SetPhotos, PageRecords, Drafts
  <2> QED BY <1>5, <1>6, <2>1, <2>2 DEF Budget
<1>12. CASE Autosave
  <2>1. Running = {} /\ device' = page.draft
    BY <1>3, <1>12 DEF Autosave
  <2>2. page'.draft = page.draft /\ page'.list = page.list
    BY <1>1, <1>12 DEF Autosave, PageRecords
  <2> QED BY <1>5, <1>6, <2>1, <2>2, StoreBudget
<1>13. CASE Discard
  <2>1. Running = {} /\ device' = None /\ page' = Closed
    BY <1>3, <1>13 DEF Discard
  <2> QED BY <1>4, <1>6, <1>7, <2>1 DEF Budget
<1> QED BY <1>8, <1>9, <1>10, <1>11, <1>12, <1>13

LEMMA ReloadBudget ==
  ASSUME TypeOK, TypeOK', Budget, Reload
  PROVE  Budget'
<1>1. UNCHANGED <<device, files, shots>> /\ faults' = faults + 1 /\ page' = Closed
  BY DEF Reload, server
<1>2. Closed.draft = Empty /\ Closed.list = None /\ Idle.step = "idle"
  BY DEF Closed, Idle
<1>3. Running' = {}
  BY <1>2 DEF Reload, Running
<1>4. \A photos : Fits(photos, Len(files), shots + faults) =>
        /\ Fits(photos, Len(files'), shots' + faults')
        /\ Fits(Empty.photos, Len(files'), shots' + faults')
  <2>1. ASSUME NEW photos, Fits(photos, Len(files), shots + faults)
        PROVE  Fits(photos, Len(files'), shots' + faults')
    BY <1>1, <2>1, SizeTypes, FitsStill
  <2>2. ASSUME NEW photos, Fits(photos, Len(files'), shots' + faults')
        PROVE  Fits(Empty.photos, Len(files'), shots' + faults')
    BY <2>2, SizeTypes, EmptySends, FitsLess
  <2> QED BY <2>1, <2>2
<1>5. \E photos : Fits(photos, Len(files), shots + faults)
  BY DEF Budget
<1> QED BY <1>1, <1>2, <1>3, <1>4, <1>5 DEF Budget

LEMMA PhotoBudget ==
  ASSUME TypeOK, TypeOK', Undisturbed => Budget, Undisturbed',
         NEW p \in Photos, AddPhoto(p) \/ RemovePhoto(p)
  PROVE  Budget'
<1>1. page \in PageRecords
  BY DEF TypeOK
<1>2. page.draft.photos \in PhotoLists
  BY <1>1 DEF PageRecords, Drafts, PhotoLists
<1>3. Running = {} /\ Budget
  BY NothingBeside DEF AddPhoto, RemovePhoto, Beside, Undisturbed
<1>4. UNCHANGED <<device, syncs, files, faults>>
  BY DEF AddPhoto, RemovePhoto, Unchanged, server
<1>5. Fits(page.draft.photos, Len(files), shots + faults)
  BY <1>3 DEF Budget
<1>6. CASE AddPhoto(p)
  <2> DEFINE list == [page.draft.photos EXCEPT ![p] = [state |-> "pending", file |-> NoFile]]
  <2>1. page'.list = list /\ page'.draft = page.draft
    BY <1>1, <1>6 DEF AddPhoto, PageRecords
  <2>2. shots' = shots + 1
    BY <1>6 DEF AddPhoto
  <2>3. ToSend(list) \subseteq ToSend(page.draft.photos) \cup {p}
    BY <1>2 DEF ToSend, PhotoLists
  <2> HIDE DEF list
  <2>4. shots' + faults' = (shots + faults) + 1
    BY <1>4, <2>2, SizeTypes
  <2>5. Fits(list, Len(files), shots' + faults')
    BY <1>5, <2>3, <2>4, SizeTypes, FitsTaken
  <2>6. Fits(page.draft.photos, Len(files), shots' + faults')
    BY <1>5, <2>4, SizeTypes, FitsTaken
  <2> QED BY <1>3, <1>4, <2>1, <2>4, <2>5, <2>6, SizeTypes, PageBudget
<1>7. CASE RemovePhoto(p)
  <2> DEFINE list == [page.draft.photos EXCEPT ![p] = NoPhoto]
  <2>1. page'.list = list /\ page'.draft = page.draft /\ shots' = shots
    BY <1>1, <1>7 DEF RemovePhoto, PageRecords, Unchanged
  <2>2. ToSend(list) \subseteq ToSend(page.draft.photos)
    BY <1>2 DEF ToSend, PhotoLists, NoPhoto
  <2> HIDE DEF list
  <2>3. Fits(list, Len(files), shots + faults)
    BY <1>5, <2>2, SizeTypes, FitsLess
  <2> QED BY <1>3, <1>4, <1>5, <2>1, <2>3, SizeTypes, PageBudget
<1> QED BY <1>6, <1>7

LEMMA StartBudget ==
  ASSUME TypeOK, TypeOK', Undisturbed => Alone /\ Budget, Undisturbed', StartSync
  PROVE  Budget'
<1>1. PICK s \in Syncs : SyncFromPage(s) \/ SyncFromList(s)
  BY DEF StartSync
<1>2. Running = {} /\ Budget /\ UNCHANGED <<files, shots, faults>>
  BY <1>1, NothingBeside DEF SyncFromPage, SyncFromList, Beside, Undisturbed, Unchanged, server
<1>3. page.draft \in Drafts /\ device \in Drafts \cup {None}
  BY DEF TypeOK, PageRecords
<1>4. CASE SyncFromPage(s)
  <2>1. syncs'[s].copy = page.draft /\ Running' = {s} /\ device' = page.draft
    BY <1>2, <1>3, <1>4, StartEffect DEF SyncFromPage
  <2> QED BY <1>2, <2>1 DEF Budget
<1>5. CASE SyncFromList(s)
  <2>1. syncs'[s].copy = device /\ Running' = {s} /\ device # None /\ device' = device
    BY <1>2, <1>3, <1>5, StartEffect DEF SyncFromList, Unchanged
  <2> QED BY <1>2, <2>1 DEF Budget
<1> QED BY <1>1, <1>4, <1>5

LEMMA UploadBudget ==
  ASSUME TypeOK, TypeOK', Alone, Budget, NEW s \in Syncs, UploadPhoto(s)
  PROVE  Budget'
<1>1. s \in Running /\ UNCHANGED <<shots, faults>>
  BY DEF UploadPhoto, Running
<1>2. Fits(syncs[s].copy.photos, Len(files), shots + faults)
  BY <1>1 DEF Budget
<1>3. syncs[s].copy.photos \in PhotoLists
  BY DEF TypeOK, SyncRecords, Drafts, PhotoLists
<1>4. ASSUME NEW p \in First(ToUpload(s)), NEW photo \in PhotoRecords, Persist(s, p, photo),
             \/ photo.state = "rejected" /\ UNCHANGED files
             \/ photo.file # NoFile /\ \E scan \in {"scanning", "clean", "rejected"} : Upload(p, scan)
      PROVE  Budget'
  <2>1. p \in Photos /\ p \in ToSend(syncs[s].copy.photos)
    BY DEF First, ToUpload, ToSend
  <2>2. /\ device' = syncs'[s].copy /\ syncs'[s].step = syncs[s].step
        /\ syncs'[s].copy.photos = [syncs[s].copy.photos EXCEPT ![p] = photo]
        /\ \A t \in Syncs \ {s} : syncs'[t] = syncs[t]
    BY <1>4, <2>1, PersistEffect
  <2>3. ToSend(syncs'[s].copy.photos) \subseteq ToSend(syncs[s].copy.photos) \ {p}
    BY <1>3, <1>4, <2>1, <2>2 DEF ToSend, PhotoLists
  <2>4. Len(files') = Len(files) \/ Len(files') = Len(files) + 1
    BY <1>4, <2>1, UploadEffect
  <2>5. Fits(syncs'[s].copy.photos, Len(files'), shots' + faults')
    <3>1. CASE Len(files') = Len(files) + 1
      BY <1>1, <1>2, <2>1, <2>3, <3>1, SizeTypes, FitsSent
    <3>2. CASE Len(files') = Len(files)
      BY <1>1, <1>2, <2>3, <3>2, SizeTypes, FitsLess
    <3> QED BY <2>4, <3>1, <3>2
  <2> QED BY <1>1, <2>2, <2>5, CopyBudget DEF Running
<1>5. NewFile \in Nat /\ NewFile # NoFile /\ NoFile \in Nat
  BY SizeTypes DEF NewFile, NoFile
<1>6. \A f \in Nat :
        /\ [state |-> "rejected", file |-> f] \in PhotoRecords
        /\ [state |-> "uploaded", file |-> f] \in PhotoRecords
  BY DEF PhotoRecords
<1> QED BY <1>4, <1>5, <1>6 DEF UploadPhoto

LEMMA LinkBudget ==
  ASSUME TypeOK, TypeOK', AllTruthful, Alone, Budget, NEW s \in Syncs, LinkPhoto(s)
  PROVE  Budget'
<1>1. s \in Running /\ UNCHANGED <<files, shots, faults>>
  BY DEF LinkPhoto, Links, Running
<1>2. PICK p \in First(ToLink(s)) :
       LET f == syncs[s].copy.photos[p].file IN
       Persist(s, p, [state |-> LinkedAs(files[f].scan), file |-> f])
  BY DEF LinkPhoto
<1> DEFINE f == syncs[s].copy.photos[p].file
           photo == [state |-> LinkedAs(files[f].scan), file |-> f]
<1>3. p \in Photos /\ f \in DOMAIN files /\ f # NoFile
  BY LinkEffect DEF First, ToLink
<1>4. photo \in PhotoRecords /\ photo.file = f
  BY <1>3, LinkedTypes DEF TypeOK
<1>5. Persist(s, p, photo)
  BY <1>2
<1> HIDE DEF f, photo
<1>6. /\ device' = syncs'[s].copy /\ syncs'[s].step = syncs[s].step
      /\ syncs'[s].copy.photos = [syncs[s].copy.photos EXCEPT ![p] = photo]
      /\ \A t \in Syncs \ {s} : syncs'[t] = syncs[t]
  BY <1>3, <1>4, <1>5, PersistEffect
<1>7. syncs[s].copy.photos \in PhotoLists
  BY DEF TypeOK, SyncRecords, Drafts, PhotoLists
<1>8. ToSend(syncs'[s].copy.photos) \subseteq ToSend(syncs[s].copy.photos)
  BY <1>3, <1>4, <1>6, <1>7 DEF ToSend, PhotoLists
<1>9. Fits(syncs'[s].copy.photos, Len(files'), shots' + faults')
  <2>1. Fits(syncs[s].copy.photos, Len(files), shots + faults)
    BY <1>1 DEF Budget
  <2>2. ASSUME NEW list, ToSend(list) \subseteq ToSend(syncs[s].copy.photos)
        PROVE  Fits(list, Len(files), shots + faults)
    BY <2>1, <2>2, SizeTypes, FitsLess
  <2> QED BY <1>1, <1>8, <2>2
<1> QED BY <1>1, <1>6, <1>9, CopyBudget DEF Running

LEMMA StepBudget ==
  ASSUME TypeOK, TypeOK', Alone, Budget, NEW s \in Syncs,
         UploadsDone(s) \/ Submit(s) \/ SubmissionRefused(s) \/ Finish(s) \/ Interrupt(s)
  PROVE  Budget'
<1>1. s \in Running
  BY DEF UploadsDone, Submit, SubmissionRefused, Submits, Finish, Interrupt, Running
<1>2. Fits(syncs[s].copy.photos, Len(files), shots + faults)
  BY <1>1 DEF Budget
<1>3. CASE UploadsDone(s)
  <2>1. /\ syncs'[s].copy = syncs[s].copy /\ syncs'[s].step # "idle"
        /\ \A t \in Syncs \ {s} : syncs'[t] = syncs[t]
    BY <1>3, UploadsDoneEffect
  <2>2. UNCHANGED <<device, files, shots, faults>> /\ device # None
    BY <1>1, <1>3 DEF UploadsDone, Unchanged, server, Alone
  <2>3. Fits(device.photos, Len(files), shots + faults)
    BY <2>2 DEF Budget
  <2> QED BY <1>1, <1>2, <2>1, <2>2, <2>3, CopyBudget
<1>4. CASE Submit(s)
  <2>1. /\ device' = syncs'[s].copy /\ syncs'[s].step # "idle"
        /\ syncs'[s].copy.photos = syncs[s].copy.photos
        /\ \A t \in Syncs \ {s} : syncs'[t] = syncs[t]
    BY <1>4, SubmitEffect
  <2>2. UNCHANGED <<files, shots, faults>>
    BY <1>4 DEF Submit
  <2> QED BY <1>1, <1>2, <2>1, <2>2, CopyBudget
<1>5. CASE Return(s) /\ UNCHANGED <<files, shots, faults>>
  BY <1>1, <1>2, <1>5, ReturnBudget
<1>6. CASE Interrupt(s)
  <2>1. Return(s) /\ faults' = faults + 1 /\ shots' = shots
    BY <1>6 DEF Interrupt
  <2>2. Len(files') - Len(files) <= 1
    <3>1. CASE files' = files
      BY <3>1, SizeTypes
    <3>2. ASSUME NEW p \in First(ToUpload(s)), Upload(p, "scanning")
          PROVE  Len(files') = Len(files) + 1
      <4>1. p \in Photos
        BY DEF First, ToUpload
      <4> QED BY <3>2, <4>1, UploadEffect
    <3> QED BY <1>6, <3>1, <3>2, SizeTypes DEF Interrupt, server
  <2>3. Fits(syncs[s].copy.photos, Len(files'), shots' + faults')
    BY <1>2, <2>1, <2>2, SizeTypes, FitsStill
  <2> QED BY <1>1, <2>1, <2>3, ReturnBudget
<1>7. CASE /\ device' = None /\ syncs' = [syncs EXCEPT ![s] = Idle]
           /\ page' = IF page.open /\ page.sync = s THEN Closed ELSE page
           /\ UNCHANGED <<files, shots, faults>>
  <2>1. Running = {s} /\ (~page.open => page = Closed) /\ (page.open => page.sync = s)
    BY <1>1 DEF Alone
  <2>2. Running' = {}
    BY <1>7, <2>1, IdleEffect
  <2>3. page'.draft = Empty /\ page'.list = None
    BY <1>7, <2>1 DEF Closed
  <2>4. Fits(Empty.photos, Len(files), shots + faults)
    BY <1>2, SizeTypes, EmptySends, FitsLess
  <2> QED BY <1>7, <2>2, <2>3, <2>4 DEF Budget
<1> QED BY <1>3, <1>4, <1>5, <1>6, <1>7 DEF SubmissionRefused, Finish, Unchanged, server

LEMMA FrugalKept ==
  ASSUME Inv, Inv', Frugal, [Next]_vars
  PROVE  Frugal'
<1> SUFFICES ASSUME Undisturbed' PROVE Budget'
  BY DEF Frugal
<1>1. TypeOK /\ TypeOK' /\ AllTruthful /\ (Undisturbed => Alone /\ Budget)
  BY DEF Inv, Orderly, Frugal
<1>2. CASE UNCHANGED vars
  BY <1>1, <1>2 DEF vars, server, history, Undisturbed, Budget, Running
<1>3. ASSUME NEW s \in Syncs, SyncStep(s) \/ Interrupt(s) PROVE Budget'
  <2>1. UNCHANGED history
    BY <1>3 DEF SyncStep, UploadPhoto, UploadsDone, LinkPhoto, Submit, SubmissionRefused, Finish,
       Interrupt, Unchanged
  <2>2. Alone /\ Budget
    BY <1>1, <2>1 DEF history, Undisturbed
  <2> QED BY <1>1, <1>3, <2>2, UploadBudget, LinkBudget, StepBudget DEF SyncStep
<1>4. CASE (\E f \in 1..MaxFiles : Scan(f)) \/ CancelVisit
  <2>1. UNCHANGED <<device, page, syncs, shots, faults, history>>
    BY <1>4 DEF Scan, CancelVisit
  <2>2. Len(files') = Len(files)
    BY <1>1, <1>4 DEF Scan, CancelVisit, TypeOK
  <2> QED BY <1>1, <2>1, <2>2 DEF history, Undisturbed, Budget, Running
<1>5. CASE Reload
  <2>1. Budget
    BY <1>1, <1>5 DEF Reload, history, Undisturbed
  <2> QED BY <1>1, <1>5, <2>1, ReloadBudget
<1> QED BY <1>1, <1>2, <1>3, <1>4, <1>5, UsePageBudget, PhotoBudget, StartBudget DEF Next

\* For any number of photos, failed calls and reloads: at most one file for
\* each photo taken, and one more for each call or tab that was lost (sync.ts,
\* each step persisted before the next).
THEOREM NoUploadTwice == Spec => []NoRepeatedUpload
<1>1. Init => Frugal
  <2> SUFFICES ASSUME Init PROVE Budget
    BY DEF Frugal
  <2>1. Inv /\ files = <<>> /\ Running = {} /\ device = Empty
    BY InitInv DEF Init, Running, Idle
  <2>2. page.draft = Empty /\ page.list = None
    BY DEF Init, Closed
  <2>3. Fits(Empty.photos, Len(files), shots + faults)
    BY EmptySends, FS_EmptySet DEF Fits, Init
  <2> QED BY <2>1, <2>2, <2>3 DEF Budget
<1>2. Inv /\ Inv' /\ Frugal /\ [Next]_vars => Frugal'
  BY FrugalKept
<1>3. Inv /\ Frugal => NoRepeatedUpload
  <2> SUFFICES ASSUME Inv, Frugal, Undisturbed PROVE Len(files) <= shots + faults
    BY DEF NoRepeatedUpload
  <2>1. PICK photos : Fits(photos, Len(files), shots + faults)
    BY DEF Frugal, Budget
  <2>2. TypeOK
    BY DEF Inv
  <2> QED BY <2>1, <2>2, SizeTypes, ToSendFinite DEF Fits
<1> QED BY <1>1, <1>2, <1>3, Invariant, PTL DEF Spec

================================================================================
