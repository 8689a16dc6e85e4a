------------------------------ MODULE OfflineSync ------------------------------
(***************************************************************************)
(* One visit captured in the field and its synchronisation                  *)
(* (apps/web/src/lib/partner/offline/sync.ts, the capture page              *)
(* components/partner/visits/field-capture.tsx, the drafts list             *)
(* components/partner/visits/visits-list.tsx; on the server                 *)
(* apps/web/src/server/projects/site-visits.ts and evidence.ts).            *)
(*                                                                          *)
(* The draft lives three times: in the record on the device, in the state   *)
(* of the open page, and in the copy a running synchronisation carries and  *)
(* writes to the device after each step.  A synchronisation is an async     *)
(* function: it survives its page, the inspector works on beside it, and a  *)
(* reload of the tab ends it between any two steps.                         *)
(*                                                                          *)
(* A step that calls the server and writes the answer to the device is one  *)
(* action; Interrupt is the call that fails, and the one whose effect is    *)
(* there and whose answer is not.  Findings are a version number, a photo   *)
(* is its place in the list.  Encryption, captions, positions, reports and  *)
(* the visits of other inspectors are left out.                             *)
(***************************************************************************)
EXTENDS Naturals, Sequences

CONSTANTS
  PhotoCount, \* photos the inspector may take
  Syncs,      \* synchronisations that may run at the same time
  None,
  MaxEdits,   \* bound: versions of the findings
  MaxFiles,   \* bound: uploads that reach the server
  MaxBeside,  \* bound: what is done beside a running synchronisation
  MaxFaults,  \* bound: failed calls, lost answers and reloads together
  MaxTroubles \* bound: all of these and the withdrawal of a submitted visit

Photos == 1..PhotoCount
NoFile == 0

PhotoRecords == [state : {"absent", "pending", "uploaded", "linked", "rejected"}, file : Nat]
Drafts == [findings : Nat, photos : [Photos -> PhotoRecords], visit : BOOLEAN]

ASSUME OfflineAssumption ==
  /\ PhotoCount \in Nat /\ MaxEdits \in Nat /\ MaxFiles \in Nat
  /\ MaxBeside \in Nat /\ MaxFaults \in Nat /\ MaxTroubles \in Nat
  /\ None \notin Drafts /\ None \notin Syncs /\ None \notin [Photos -> PhotoRecords]

VARIABLES
  device,    \* the draft stored on the device, None when it is gone
  bytes,     \* photos whose bytes are on the device
  shots,     \* photos chosen so far
  page,      \* the capture page: its draft, whether an edit waits for the
             \* autosave, the photo list an unfinished add or remove will set,
             \* and the synchronisation it waits for
  syncs,     \* each synchronisation: its step, the last photo visited, its copy
  scheduled, \* the visit was scheduled, or started on the server: the draft
             \* carries its id from the start
  visit,     \* the visit on the server
  written,   \* the findings on the server
  files,     \* uploaded files: the photo and the state of its scan
  evidence,  \* files linked to the visit as evidence
  faults,
  intended,  \* history: what the page last stored: the findings, the photos
  beside,    \* history: times the page was used, or a second synchronisation
             \* started, while one ran; or one started while a photo was added
  amended,   \* history: findings changed after the server had the visit
  discarded  \* history: the inspector threw the draft away

server == <<visit, written, files, evidence>>
history == <<intended, beside, amended, discarded>>
vars == <<device, bytes, shots, page, syncs, scheduled, server, faults, history>>

NoPhoto == [state |-> "absent", file |-> NoFile]
Empty == [findings |-> 0, photos |-> [p \in Photos |-> NoPhoto], visit |-> FALSE]
Closed == [open |-> FALSE, draft |-> Empty, unsaved |-> FALSE, list |-> None, sync |-> None]
Idle == [step |-> "idle", at |-> 0, copy |-> Empty]

PageRecords ==
  [open : BOOLEAN, draft : Drafts, unsaved : BOOLEAN,
   list : [Photos -> PhotoRecords] \cup {None}, sync : Syncs \cup {None}]
SyncRecords ==
  [step : {"idle", "uploading", "linking", "relinking"}, at : Nat, copy : Drafts]
FileRecords == [photo : Photos, scan : {"scanning", "clean", "rejected"}]

\* A visit staff cancelled, or rejected, before its submission was recorded
\* ("cancelled") or with the submission in its row ("withdrawn"): one status in
\* the code.  A reviewed visit counts as submitted.
Withdrawn == {"cancelled", "withdrawn"}
Received == {"submitted", "withdrawn"}

TypeOK ==
  /\ device \in Drafts \cup {None}
  /\ bytes \subseteq Photos
  /\ shots \in 0..PhotoCount
  /\ page \in PageRecords
  /\ syncs \in [Syncs -> SyncRecords]
  /\ scheduled \in BOOLEAN
  /\ visit \in {"none", "open", "submitted"} \cup Withdrawn
  /\ written \in Nat
  /\ files \in Seq(FileRecords)
  /\ evidence \subseteq DOMAIN files
  /\ faults \in Nat
  /\ intended \in [findings : Nat, photos : SUBSET Photos]
  /\ beside \in Nat /\ amended \in BOOLEAN /\ discarded \in BOOLEAN

\* A scheduled visit is on the server and its draft on the device before
\* anything is typed; one started in the field, which the list offers to staff
\* inspectors only, has no visit yet.
Init ==
  /\ device = Empty
  /\ bytes = {}
  /\ shots = 0
  /\ page = [Closed EXCEPT !.open = TRUE]
  /\ syncs = [s \in Syncs |-> Idle]
  /\ scheduled \in BOOLEAN
  /\ visit = IF scheduled THEN "open" ELSE "none"
  /\ written = 0
  /\ files = <<>>
  /\ evidence = {}
  /\ faults = 0
  /\ intended = [findings |-> 0, photos |-> {}]
  /\ beside = 0 /\ amended = FALSE /\ discarded = FALSE

\* The bound on faults, work beside a synchronisation and withdrawals together.
Spare == faults + beside + (IF visit = "withdrawn" THEN 1 ELSE 0) < MaxTroubles

Running == {s \in Syncs : syncs[s].step # "idle"}
Taken(photos) == {p \in Photos : photos[p].state # "absent"}

----------------------------------------------------------------------------
(* The inspector at the capture page.                                       *)

\* History: the page is used while a synchronisation runs.
Besides(busy) ==
  /\ busy => beside < MaxBeside /\ Spare
  /\ beside' = IF busy THEN beside + 1 ELSE beside
Beside == Besides(Running # {})

Unchanged(rest) == UNCHANGED <<scheduled, server, faults, rest>>

OpenPage ==
  /\ ~page.open /\ device # None
  /\ page' = [Closed EXCEPT !.open = TRUE, !.draft = device]
  /\ Beside
  /\ Unchanged(<<device, bytes, shots, syncs, intended, amended, discarded>>)

\* An unsaved edit goes with the page: its timer is cleared.
LeavePage ==
  /\ page.open
  /\ page' = Closed
  /\ Unchanged(<<device, bytes, shots, syncs, history>>)

Type ==
  /\ page.open /\ page.draft.findings < MaxEdits
  /\ page' = [page EXCEPT !.draft.findings = @ + 1, !.unsaved = TRUE]
  /\ Beside
  /\ Unchanged(<<device, bytes, shots, syncs, intended, amended, discarded>>)

\* The bytes are stored first; the list that is set afterwards is the one the
\* page had when the photo was chosen, and the new photo.
AddPhoto(p) ==
  /\ page.open /\ page.list = None
  /\ p = shots + 1
  /\ shots' = p
  /\ bytes' = bytes \cup {p}
  /\ page' = [page EXCEPT !.list =
       [page.draft.photos EXCEPT ![p] = [state |-> "pending", file |-> NoFile]]]
  /\ Beside
  /\ Unchanged(<<device, syncs, intended, amended, discarded>>)

\* The page offers it for every photo that is not linked.
RemovePhoto(p) ==
  /\ page.open /\ page.list = None
  /\ page.draft.photos[p].state \in {"pending", "uploaded", "rejected"}
  /\ bytes' = bytes \ {p}
  /\ page' = [page EXCEPT !.list = [page.draft.photos EXCEPT ![p] = NoPhoto]]
  /\ Beside
  /\ Unchanged(<<device, shots, syncs, intended, amended, discarded>>)

SetPhotos ==
  /\ page.open /\ page.list # None
  /\ page' = [page EXCEPT !.draft.photos = page.list, !.list = None, !.unsaved = TRUE]
  /\ Beside
  /\ Unchanged(<<device, bytes, shots, syncs, intended, amended, discarded>>)

\* History: the page stores its draft.
Stored ==
  /\ intended' = [findings |-> page.draft.findings, photos |-> Taken(page.draft.photos)]
  /\ amended' = (amended \/ (visit \in Received /\ page.draft.findings # written))

Autosave ==
  /\ page.open /\ page.unsaved
  /\ device' = page.draft
  /\ page' = [page EXCEPT !.unsaved = FALSE]
  /\ Beside /\ Stored
  /\ Unchanged(<<bytes, shots, syncs, discarded>>)

\* From the page or from the list; a synchronisation goes on writing.
Discard ==
  /\ device # None \/ page.open
  /\ device' = None
  /\ bytes' = {}
  /\ page' = Closed
  /\ discarded' = TRUE
  /\ Beside
  /\ Unchanged(<<shots, syncs, intended, amended>>)

\* The tab is reloaded: its synchronisations end where they are.
Reload ==
  /\ faults < MaxFaults /\ Spare
  /\ faults' = faults + 1
  /\ page' = Closed
  /\ syncs' = [s \in Syncs |-> Idle]
  /\ UNCHANGED <<device, bytes, shots, scheduled, server, history>>

----------------------------------------------------------------------------
(* A synchronisation.  The findings must have been written.                 *)

Started(copy) == [step |-> "uploading", at |-> 0, copy |-> copy]

\* The page stores its draft and hands it to the synchronisation; its autosave
\* timer keeps running.
SyncFromPage(s) ==
  /\ page.open /\ page.sync = None /\ syncs[s].step = "idle"
  /\ page.draft.findings > 0
  /\ device' = page.draft
  /\ syncs' = [syncs EXCEPT ![s] = Started(page.draft)]
  /\ page' = [page EXCEPT !.sync = s]
  /\ Besides(Running # {} \/ page.list # None)
  /\ Stored
  /\ Unchanged(<<bytes, shots, discarded>>)

\* The list only shows while no page is open; it does not know of
\* synchronisations that were started elsewhere.
SyncFromList(s) ==
  /\ ~page.open /\ device # None /\ syncs[s].step = "idle"
  /\ device.findings > 0
  /\ syncs' = [syncs EXCEPT ![s] = Started(device)]
  /\ Beside
  /\ Unchanged(<<device, bytes, shots, page, intended, amended, discarded>>)

First(S) == {p \in S : \A q \in S : p <= q}

\* Seeded: files that were uploaded are uploaded again.
ToUpload_Everything(s) ==
  {p \in Photos : p > syncs[s].at /\ syncs[s].copy.photos[p].state \in {"pending", "uploaded"}}

ToUpload(s) ==
  {p \in Photos : p > syncs[s].at /\ syncs[s].copy.photos[p].file = NoFile
                    /\ syncs[s].copy.photos[p].state \notin {"absent", "rejected"}}
ToLink(s) ==
  {p \in Photos : p > syncs[s].at /\ syncs[s].copy.photos[p].file # NoFile
                    /\ syncs[s].copy.photos[p].state \notin {"absent", "linked", "rejected"}}

\* Seeded: the progress stays in memory.
Persist_CopyOnly(s, p, photo) ==
  /\ syncs' = [syncs EXCEPT ![s].at = p, ![s].copy.photos[p] = photo]
  /\ UNCHANGED device

\* One photo of the copy is visited and the copy stored on the device.
Persist(s, p, photo) ==
  /\ syncs' = [syncs EXCEPT ![s].at = p, ![s].copy.photos[p] = photo]
  /\ device' = syncs'[s].copy

Upload(p, scan) == files' = Append(files, [photo |-> p, scan |-> scan])

NewFile == Len(files) + 1

\* A photo whose bytes are gone is refused without a file; one the server
\* refuses is taken to have one (a refused intent has none, and ends the same).
UploadPhoto(s) ==
  /\ syncs[s].step = "uploading"
  /\ \E p \in First(ToUpload(s)) :
     \/ /\ p \notin bytes
        /\ Persist(s, p, [state |-> "rejected", file |-> NoFile])
        /\ UNCHANGED files
     \/ /\ p \in bytes /\ Len(files) < MaxFiles
        /\ Upload(p, "scanning")
        /\ Persist(s, p, [state |-> "uploaded", file |-> NewFile])
     \/ /\ p \in bytes /\ Len(files) < MaxFiles
        /\ Upload(p, "rejected")
        /\ Persist(s, p, [state |-> "rejected", file |-> NewFile])
  /\ UNCHANGED <<bytes, shots, page, scheduled, visit, written, evidence, faults, history>>

KnownVisit(s) == scheduled \/ syncs[s].copy.visit

\* What a synchronisation calls next: the links of a visit that is known come
\* before its submission and again after it.
Links(s) ==
  syncs[s].step \in {"linking", "relinking"} /\ ToLink(s) # {}
Submits(s) ==
  \/ syncs[s].step = "uploading" /\ ToUpload(s) = {} /\ ~KnownVisit(s)
  \/ syncs[s].step = "linking" /\ ToLink(s) = {}

UploadsDone(s) ==
  /\ syncs[s].step = "uploading" /\ ToUpload(s) = {} /\ KnownVisit(s)
  /\ syncs' = [syncs EXCEPT ![s].at = 0, ![s].step = "linking"]
  /\ Unchanged(<<device, bytes, shots, page, history>>)

\* Replays on the file's offline id; a file that is not clean is refused.
Link(f) ==
  evidence' = IF files[f].scan = "clean" THEN evidence \cup {f} ELSE evidence

\* A file whose scan has not ended is refused for now, others for good.
LinkedAs(scan) ==
  CASE scan = "clean" -> "linked"
    [] scan = "scanning" -> "uploaded"
    [] OTHER -> "rejected"

LinkPhoto(s) ==
  /\ Links(s)
  /\ \E p \in First(ToLink(s)) :
       LET f == syncs[s].copy.photos[p].file IN
       Link(f) /\ Persist(s, p, [state |-> LinkedAs(files[f].scan), file |-> f])
  /\ UNCHANGED <<bytes, shots, page, scheduled, visit, written, files, faults, history>>

\* A visit that has been submitted is replayed as it is.  The reason the server
\* wants from partners who create a visit so is left out: theirs have an id.
Submission(findings) ==
  /\ visit \notin Withdrawn
  /\ visit' = "submitted"
  /\ written' = IF visit = "submitted" THEN written ELSE findings

Submit(s) ==
  /\ Submits(s)
  /\ Submission(syncs[s].copy.findings)
  /\ syncs' = [syncs EXCEPT ![s].step = "relinking", ![s].at = 0, ![s].copy.visit = TRUE]
  /\ device' = syncs'[s].copy
  /\ UNCHANGED <<bytes, shots, page, scheduled, files, evidence, faults, history>>

\* Seeded: the page goes on waiting for a synchronisation that has ended.
Return_StillSyncing(s) ==
  /\ device' = syncs[s].copy
  /\ syncs' = [syncs EXCEPT ![s] = Idle]
  /\ page' = IF page.open /\ page.sync = s
             THEN [page EXCEPT !.draft = syncs[s].copy, !.unsaved = FALSE]
             ELSE page

\* The synchronisation ends and the draft stays.  A page that waits for it
\* takes its copy, and whatever it held is forgotten.
Return(s) ==
  /\ device' = syncs[s].copy
  /\ syncs' = [syncs EXCEPT ![s] = Idle]
  /\ page' = IF page.open /\ page.sync = s
             THEN [page EXCEPT !.draft = syncs[s].copy, !.unsaved = FALSE, !.sync = None]
             ELSE page

SubmissionRefused(s) ==
  /\ Submits(s) /\ visit \in Withdrawn
  /\ Return(s)
  /\ Unchanged(<<bytes, shots, history>>)

\* Seeded: a photo whose scan is running, or one that was refused, does not
\* keep the draft.
Confirmed_Uploaded(copy) ==
  copy.visit /\ \A p \in Taken(copy.photos) : copy.photos[p].state \in {"linked", "uploaded"}
Confirmed_Refused(copy) ==
  copy.visit /\ \A p \in Taken(copy.photos) : copy.photos[p].state \in {"linked", "rejected"}

Confirmed(copy) ==
  copy.visit /\ \A p \in Taken(copy.photos) : copy.photos[p].state = "linked"

\* The draft leaves the device when everything is confirmed.
Finish(s) ==
  /\ syncs[s].step = "relinking" /\ ToLink(s) = {}
  /\ \/ /\ ~Confirmed(syncs[s].copy)
        /\ Return(s) /\ UNCHANGED bytes
     \/ /\ Confirmed(syncs[s].copy)
        /\ device' = None
        /\ bytes' = {}
        /\ syncs' = [syncs EXCEPT ![s] = Idle]
        /\ page' = IF page.open /\ page.sync = s THEN Closed ELSE page
  /\ Unchanged(<<shots, history>>)

\* A call of the step fails, or has its effect and its answer is lost.
Interrupt(s) ==
  /\ faults < MaxFaults /\ Spare
  /\ faults' = faults + 1
  /\ syncs[s].step # "idle"
  /\ Return(s)
  /\ \/ UNCHANGED server
     \/ /\ syncs[s].step = "uploading" /\ Len(files) < MaxFiles
        /\ \E p \in First(ToUpload(s)) \cap bytes : Upload(p, "scanning")
        /\ UNCHANGED <<visit, written, evidence>>
     \/ /\ Links(s)
        /\ \E p \in First(ToLink(s)) : Link(syncs[s].copy.photos[p].file)
        /\ UNCHANGED <<visit, written, files>>
     \/ /\ Submits(s)
        /\ Submission(syncs[s].copy.findings)
        /\ UNCHANGED <<files, evidence>>
  /\ UNCHANGED <<bytes, shots, scheduled, history>>

----------------------------------------------------------------------------
(* The server beside it.                                                    *)

\* The end of a scan, "rejected" also if the scanner failed: a link is refused
\* for good then (scan_failed), and that the job repeats such a scan, and may
\* find the file clean, comes too late for the photo.
Scan(f) ==
  /\ f \in DOMAIN files /\ files[f].scan = "scanning"
  /\ \E result \in {"clean", "rejected"} : files' = [files EXCEPT ![f].scan = result]
  /\ UNCHANGED <<device, bytes, shots, page, syncs, scheduled, visit, written, evidence, faults, history>>

\* Staff cancel a visit or reject an unscheduled one.  cancelSiteVisit checks an
\* unlocked read for an open visit and then writes by id: a submission, or its
\* review, in between is overwritten.  rejectUnscheduledSiteVisit takes submitted
\* visits too.  Neither touches what was submitted.  A visit created and
\* submitted at once by a staff inspector is never open and counts as scheduled.
CancelVisit ==
  /\ scheduled /\ visit \in {"open", "submitted"}
  /\ visit = "submitted" => Spare
  /\ visit' = IF visit = "open" THEN "cancelled" ELSE "withdrawn"
  /\ UNCHANGED <<device, bytes, shots, page, syncs, scheduled, written, files, evidence, faults, history>>

SyncStep(s) ==
  \/ UploadPhoto(s) \/ UploadsDone(s) \/ LinkPhoto(s) \/ Submit(s) \/ SubmissionRefused(s)
  \/ Finish(s)
StartSync == \E s \in Syncs : SyncFromPage(s) \/ SyncFromList(s)

Next ==
  \/ OpenPage \/ LeavePage \/ Type \/ SetPhotos \/ Autosave \/ Discard \/ Reload
  \/ \E p \in Photos : AddPhoto(p) \/ RemovePhoto(p)
  \/ StartSync
  \/ \E s \in Syncs : SyncStep(s) \/ Interrupt(s)
  \/ \E f \in 1..MaxFiles : Scan(f)
  \/ CancelVisit

Spec == Init /\ [][Next]_vars

\* What the code has begun goes on while the tab lives, the scanner comes to
\* every file, and the inspector presses Sync until the draft is gone.
FairSpec ==
  /\ Spec
  /\ \A s \in Syncs : WF_vars(SyncStep(s))
  /\ WF_vars(StartSync) /\ WF_vars(SetPhotos)
  /\ WF_vars(\E f \in 1..MaxFiles : Scan(f))

----------------------------------------------------------------------------
\* The inspector let each synchronisation end before doing anything else.
Undisturbed == beside = 0

OnServer == {files[f].photo : f \in evidence}

\* Retries after failed calls, lost answers and reloads never link one photo
\* twice (sync.ts, the offline id of a link is the draft's and the file's:
\* it names the photo only as long as the device remembers the file).
OneEvidence ==
  Undisturbed =>
    \A f, g \in evidence : files[f].photo = files[g].photo => f = g

\* A retry repeats no upload the device knows of: one file for each photo, and
\* one more for each call or tab that was lost (sync.ts, each step persisted
\* before the next).
NoRepeatedUpload == Undisturbed => Len(files) <= shots + faults

\* What the page stored is on the device until the server has it: findings
\* that were submitted as stored, and every photo that was not removed, the
\* refused ones too (sync.ts, nothing disappears silently).  Findings changed
\* after the submission are excluded: the replay ignores them.
NothingLost ==
  Undisturbed /\ ~discarded =>
    IF device = None
    THEN (amended \/ written = intended.findings) /\ intended.photos \subseteq OnServer
    ELSE device.findings = intended.findings /\ intended.photos \subseteq Taken(device.photos)

\* A synchronisation removes the draft only when the server has recorded the
\* visit's submission and every photo of the copy it carried, whoever else wrote
\* to the draft, and although staff may have withdrawn the visit since
\* (sync.ts, isDraftFullyConfirmed).
ClearedWhenConfirmed ==
  [][device # None /\ device' = None /\ ~discarded'
       => /\ visit \in Received
          /\ \E s \in Running : Taken(syncs[s].copy.photos) \subseteq OnServer]_vars

Refused ==
  \/ visit \in Withdrawn
  \/ device # None /\ \E p \in Photos : device.photos[p].state = "rejected"

\* A draft with findings leaves the device in the end, whatever calls fail and
\* however often the tab is reloaded, unless the server refuses the visit or a
\* photo (sync.ts, photos whose scan is running are tried again).
EventuallyCleared ==
  []<>(device = None \/ device.findings = 0 \/ Refused \/ ~Undisturbed)

===========================================================================
