---------------------------- MODULE MediaCleanup ----------------------------
(***************************************************************************)
(* The life of avatar images: a signature reserves an upload, the profile  *)
(* refers to it, and an image that is not referred to any more is deleted  *)
(* from Cloudinary by durable jobs that the workers of all web processes   *)
(* (and the after-commit hook of a replacement) take under two leases.     *)
(*                                                                         *)
(* Sources: feature/media/{repo,worker,cloudinary}.py,                     *)
(* feature/user/{db,routers/images}.py, feature/admin/repo.py.             *)
(*                                                                         *)
(* The jobs of process_next are autocommit statements; requests of users   *)
(* are transactions that read the avatar first and write it last.  Hours   *)
(* (3600 s, 72 h) pass only while no such request is under way.            *)
(***************************************************************************)
EXTENDS Naturals, FiniteSets

CONSTANTS
  Images,      \* uuids of uploads; each is signed once and uploaded once
  Workers,     \* process_next calls that may run at the same time
  Devices,     \* requests of the user that may run at the same time
  MaxFaults,   \* bound: failed calls, rolled back requests, stopped processes
  MaxRare,     \* bound: leases that run out under a call that is still alive, images
               \* that an admin schedules or deletes by hand, saves of other fields
  NoImage, NoWorker

ASSUME MediaAssumption ==
  /\ IsFiniteSet(Images) /\ NoImage \notin Images /\ NoWorker \notin Workers
  /\ {MaxFaults, MaxRare} \subseteq Nat

VARIABLES
  stored,    \* images that Cloudinary has
  signed,    \* images that were ever signed
  fresh,     \* images signed less than 72 hours ago
  avatar,    \* User.avatar_url, NoImage when it is empty
  account,   \* the User node exists
  job,       \* ImageCleanup.due: no job, in the future, or reached
  jlease, jtoken,   \* ImageCleanup.lease > now, ImageCleanup.token
  qlease, qtoken,   \* the same of the ImageCleanupQueue node
  pc, mine,         \* process_next: where it stands, the job it claimed
  dpc, old, new,    \* requests: what they read, what they will write
  used,      \* images that were an avatar (for the properties)
  restored,  \* avatars put back by the save of another field (for the properties)
  manual,    \* images an admin deleted by hand (for the properties)
  stalled,   \* a lease ran out under a call (for the properties)
  faults, rare

jobVars  == <<job, jlease, jtoken, qlease, qtoken>>
imgVars  == <<stored, signed, fresh>>
userVars == <<avatar, account, used, restored>>
reqVars  == <<dpc, old, new>>
callVars == <<pc, mine>>
bounds   == <<stalled, faults, rare>>
vars == <<imgVars, userVars, jobVars, callVars, reqVars, manual, bounds>>

Requests == {"replace", "edit", "remove", "leave"}
Calling  == {"check", "destroy", "spare", "delete", "defer", "release"}

Init ==
  /\ stored = {} /\ signed = {} /\ fresh = {} /\ avatar = NoImage /\ account = TRUE
  /\ job = [i \in Images |-> "none"]
  /\ jlease = [i \in Images |-> FALSE]
  /\ jtoken = [i \in Images |-> NoWorker]
  /\ qlease = FALSE /\ qtoken = NoWorker
  /\ pc = [w \in Workers |-> "idle"]
  /\ mine = [w \in Workers |-> NoImage]
  /\ dpc = [d \in Devices |-> "idle"]
  /\ old = [d \in Devices |-> NoImage]
  /\ new = [d \in Devices |-> NoImage]
  /\ used = {} /\ restored = {} /\ manual = {}
  /\ stalled = FALSE /\ faults = 0 /\ rare = 0

----------------------------------------------------------------------------
(* Requests of the user *)

\* schedule_delete: MERGE keeps a job that exists, with its lease and token, and
\* only moves its due time forward.
Scheduled(i, due) == [job EXCEPT ![i] = IF @ = "due" THEN "due" ELSE due]

\* Images whose upload or first use may be under way.
Choosing == {new[d] : d \in Devices}

\* sign_avatar reserves the deletion of an upload that is never used; the
\* browser then uploads the image.
SignAndUpload(i) ==
  /\ account
  /\ i \notin signed
  /\ signed' = signed \cup {i}
  /\ job' = Scheduled(i, "waiting")
  /\ stored' = stored \cup {i}
  /\ fresh' = fresh \cup {i}
  /\ UNCHANGED <<userVars, jlease, jtoken, qlease, qtoken, callVars, reqVars,
                 manual, bounds>>

\* A request reads the user.  A replacement is a fresh upload.
Begin(d, kind) ==
  /\ account /\ dpc[d] = "idle"
  /\ kind = "remove" => avatar # NoImage
  /\ kind = "edit" => rare < MaxRare
  /\ rare' = rare + (IF kind = "edit" THEN 1 ELSE 0)
  /\ dpc' = [dpc EXCEPT ![d] = kind]
  /\ old' = [old EXCEPT ![d] = avatar]
  /\ IF kind = "replace"
     THEN \E i \in stored :
            /\ i \in fresh /\ i \notin used \cup Choosing
            /\ new' = [new EXCEPT ![d] = i]
     ELSE UNCHANGED new
  /\ UNCHANGED <<imgVars, userVars, jobVars, callVars, manual, stalled, faults>>

Close(d) ==
  /\ dpc' = [dpc EXCEPT ![d] = "idle"]
  /\ old' = [old EXCEPT ![d] = NoImage]
  /\ new' = [new EXCEPT ![d] = NoImage]

\* AccountDB.update: the former image is due at once.
Replace(d) ==
  /\ dpc[d] = "replace"
  /\ job' = IF old[d] = NoImage THEN job ELSE Scheduled(old[d], "due")
  /\ avatar' = new[d]
  /\ used' = used \cup {new[d]}
  /\ Close(d)
  /\ UNCHANGED <<account, restored, imgVars, jlease, jtoken, qlease, qtoken, callVars, manual,
                 bounds>>

\* AccountDB.update of anything else (a name, a password): save writes every property of
\* the node as it was read, the avatar too.
Edit(d) ==
  /\ dpc[d] = "edit"
  /\ avatar' = old[d]
  /\ restored' = IF old[d] = avatar THEN restored ELSE restored \cup ({old[d]} \ {NoImage})
  /\ Close(d)
  /\ UNCHANGED <<account, used, imgVars, jobVars, callVars, manual, bounds>>

\* delete_avatar: the image that the request read is due in an hour.
RemoveAvatar(d) ==
  /\ dpc[d] = "remove"
  /\ job' = IF old[d] = NoImage THEN job ELSE Scheduled(old[d], "waiting")
  /\ avatar' = NoImage
  /\ Close(d)
  /\ UNCHANGED <<account, used, restored, imgVars, jlease, jtoken, qlease, qtoken, callVars,
                 manual, bounds>>

\* AccountDB.delete, delete_user_account: the job outlives the user, whose
\* other requests fail.
Leave(d) ==
  /\ dpc[d] = "leave"
  /\ job' = IF old[d] = NoImage THEN job ELSE Scheduled(old[d], "waiting")
  /\ avatar' = NoImage
  /\ account' = FALSE
  /\ dpc' = [e \in Devices |-> "idle"]
  /\ old' = [e \in Devices |-> NoImage]
  /\ new' = [e \in Devices |-> NoImage]
  /\ UNCHANGED <<used, restored, imgVars, jlease, jtoken, qlease, qtoken, callVars, manual,
                 bounds>>

\* The transaction is rolled back.
Cancel(d) ==
  /\ dpc[d] # "idle"
  /\ faults < MaxFaults
  /\ faults' = faults + 1
  /\ Close(d)
  /\ UNCHANGED <<imgVars, userVars, jobVars, callVars, manual, stalled, rare>>

\* The due time of a job is reached.
BecomeDue(i) ==
  /\ job[i] = "waiting"
  /\ \A d \in Devices : dpc[d] = "idle"
  /\ job' = [job EXCEPT ![i] = "due"]
  /\ fresh' = fresh \ {i}
  /\ UNCHANGED <<stored, signed, userVars, jlease, jtoken, qlease, qtoken, callVars,
                 reqVars, manual, bounds>>

----------------------------------------------------------------------------
(* The admin's image list *)

ByHand(i) ==
  /\ rare < MaxRare
  /\ rare' = rare + 1
  /\ i \in stored /\ avatar # i

\* cleanup_images: only images older than 72 hours.
AdminSchedule(i) ==
  /\ ByHand(i)
  /\ i \notin fresh
  /\ job' = Scheduled(i, "waiting")
  /\ UNCHANGED <<imgVars, userVars, jlease, jtoken, qlease, qtoken, callVars, reqVars,
                 manual, stalled, faults>>

\* delete_images: recent uploads too, after one look at the references.
AdminDelete(i) ==
  /\ ByHand(i)
  /\ stored' = stored \ {i}
  /\ manual' = manual \cup {i}
  /\ UNCHANGED <<signed, fresh, userVars, jobVars, callVars, reqVars, stalled, faults>>

----------------------------------------------------------------------------
(* process_next, of a worker or of the after-commit hook *)

At(w, label)   == pc[w] = label
Goto(w, label) == pc' = [pc EXCEPT ![w] = label]

\* The queue node is locked, its lease and the job's are tested and taken.
\* (Faulty variant: only the lease of the job is tested.)
ClaimAnyQueue(w) ==
  /\ At(w, "idle")
  /\ \E i \in Images :
       /\ job[i] = "due" /\ ~jlease[i]
       /\ mine' = [mine EXCEPT ![w] = i]
       /\ jlease' = [jlease EXCEPT ![i] = TRUE]
       /\ jtoken' = [jtoken EXCEPT ![i] = w]
  /\ qlease' = TRUE /\ qtoken' = w
  /\ Goto(w, "check")
  /\ UNCHANGED <<imgVars, userVars, job, reqVars, manual, bounds>>
Claim(w) ==
  /\ At(w, "idle")
  /\ ~qlease
  /\ \E i \in Images :
       /\ job[i] = "due" /\ ~jlease[i]
       /\ mine' = [mine EXCEPT ![w] = i]
       /\ jlease' = [jlease EXCEPT ![i] = TRUE]
       /\ jtoken' = [jtoken EXCEPT ![i] = w]
  /\ qlease' = TRUE /\ qtoken' = w
  /\ Goto(w, "check")
  /\ UNCHANGED <<imgVars, userVars, job, reqVars, manual, bounds>>

\* referenced_ids.
\* (Faulty variant: the references are not looked up.)
CheckNothing(w) ==
  /\ At(w, "check")
  /\ Goto(w, "destroy")
  /\ UNCHANGED <<imgVars, userVars, jobVars, mine, reqVars, manual, bounds>>
Check(w) ==
  /\ At(w, "check")
  /\ Goto(w, IF avatar = mine[w] THEN "spare" ELSE "destroy")
  /\ UNCHANGED <<imgVars, userVars, jobVars, mine, reqVars, manual, bounds>>

\* CloudinaryClient.destroy; "not found" counts as deleted.
Destroy(w) ==
  /\ At(w, "destroy")
  /\ stored' = stored \ {mine[w]}
  /\ Goto(w, "delete")
  /\ UNCHANGED <<signed, fresh, userVars, jobVars, mine, reqVars, manual, bounds>>

\* A call of the try block raises; Cloudinary may have deleted the image.
Fail(w) ==
  /\ pc[w] \in {"check", "destroy", "spare", "delete"}
  /\ faults < MaxFaults
  /\ faults' = faults + 1
  /\ stored' \in IF At(w, "destroy") THEN {stored, stored \ {mine[w]}} ELSE {stored}
  /\ Goto(w, "defer")
  /\ UNCHANGED <<signed, fresh, userVars, jobVars, mine, reqVars, manual, stalled, rare>>

\* The job is done, if the token is still ours.
\* (Faulty variant: whoever has the job now.)
DeleteAnyToken(w) ==
  /\ pc[w] \in {"delete", "spare"}
  /\ job' = [job EXCEPT ![mine[w]] = "none"]
  /\ jlease' = [jlease EXCEPT ![mine[w]] = FALSE]
  /\ jtoken' = [jtoken EXCEPT ![mine[w]] = NoWorker]
  /\ Goto(w, "release")
  /\ UNCHANGED <<imgVars, userVars, qlease, qtoken, mine, reqVars, manual, bounds>>
Delete(w) ==
  /\ pc[w] \in {"delete", "spare"}
  /\ IF jtoken[mine[w]] = w
     THEN /\ job' = [job EXCEPT ![mine[w]] = "none"]
          /\ jlease' = [jlease EXCEPT ![mine[w]] = FALSE]
          /\ jtoken' = [jtoken EXCEPT ![mine[w]] = NoWorker]
     ELSE UNCHANGED <<job, jlease, jtoken>>
  /\ Goto(w, "release")
  /\ UNCHANGED <<imgVars, userVars, qlease, qtoken, mine, reqVars, manual, bounds>>

\* The job is retried later, with backoff; this statement may fail as well.
Defer(w) ==
  /\ At(w, "defer")
  /\ \/ /\ IF jtoken[mine[w]] = w
           THEN /\ job' = [job EXCEPT ![mine[w]] = "waiting"]
                /\ jlease' = [jlease EXCEPT ![mine[w]] = FALSE]
           ELSE UNCHANGED <<job, jlease>>
        /\ UNCHANGED faults
     \/ /\ faults < MaxFaults
        /\ faults' = faults + 1
        /\ UNCHANGED <<job, jlease>>
  /\ Goto(w, "release")
  /\ UNCHANGED <<imgVars, userVars, jtoken, qlease, qtoken, mine, reqVars, manual,
                 stalled, rare>>

\* The call is over, and nobody will show its tokens again.
Return(w) ==
  /\ Goto(w, "idle")
  /\ mine' = [mine EXCEPT ![w] = NoImage]
  /\ jtoken' = [i \in Images |-> IF jtoken[i] = w THEN NoWorker ELSE jtoken[i]]
  /\ qtoken' = IF qtoken = w THEN NoWorker ELSE qtoken

\* finally: the queue is free again.
Release(w) ==
  /\ At(w, "release")
  /\ qlease' = (qlease /\ qtoken # w)
  /\ Return(w)
  /\ UNCHANGED <<imgVars, userVars, job, jlease, reqVars, manual, bounds>>

\* A process that is cancelled still runs the finally block; one that is killed
\* does not.
Stop(w) ==
  /\ pc[w] \in Calling
  /\ faults < MaxFaults
  /\ faults' = faults + 1
  /\ \/ pc[w] # "release" /\ Goto(w, "release") /\ UNCHANGED <<mine, jtoken, qtoken>>
     \/ Return(w)
  /\ UNCHANGED <<imgVars, userVars, job, jlease, qlease, reqVars, manual, stalled, rare>>

\* 120 seconds pass: for a call that is gone or finished with what it leased...
\* The call that holds token w needs its lease no more.
Over(w) == w \in {NoWorker} \cup {v \in Workers : At(v, "release")}

\* (Faulty variant: the lease of a job never runs out.)
ExpireQueueOnly ==
  /\ qlease /\ qtoken = NoWorker
  /\ qlease' = FALSE
  /\ UNCHANGED <<imgVars, userVars, job, jlease, jtoken, qtoken, callVars, reqVars,
                 manual, bounds>>
Expire ==
  /\ \/ /\ qlease /\ qtoken = NoWorker
        /\ qlease' = FALSE
        /\ UNCHANGED jlease
     \/ \E i \in Images :
          /\ jlease[i] /\ Over(jtoken[i])
          /\ jlease' = [jlease EXCEPT ![i] = FALSE]
          /\ UNCHANGED qlease
  /\ UNCHANGED <<imgVars, userVars, job, jtoken, qtoken, callVars, reqVars, manual,
                 bounds>>

\* ... or for one that is stuck.  Both leases were taken together.
Stall(w) ==
  /\ pc[w] \in Calling /\ qtoken = w /\ qlease
  /\ rare < MaxRare
  /\ rare' = rare + 1
  /\ stalled' = TRUE
  /\ qlease' = FALSE
  /\ jlease' = [i \in Images |-> jlease[i] /\ jtoken[i] # w]
  /\ UNCHANGED <<imgVars, userVars, job, jtoken, qtoken, callVars, reqVars, manual,
                 faults>>

----------------------------------------------------------------------------
Finish(d) == Replace(d) \/ Edit(d) \/ RemoveAvatar(d) \/ Leave(d)

Step(w) == Check(w) \/ Destroy(w) \/ Delete(w) \/ Defer(w) \/ Release(w)

Next ==
  \/ \E i \in Images :
       SignAndUpload(i) \/ BecomeDue(i) \/ AdminSchedule(i) \/ AdminDelete(i)
  \/ \E d \in Devices :
       (\E kind \in Requests : Begin(d, kind)) \/ Finish(d) \/ Cancel(d)
  \/ \E w \in Workers : Claim(w) \/ Step(w) \/ Fail(w) \/ Stop(w) \/ Stall(w)
  \/ Expire

Spec == Init /\ [][Next]_vars

\* Requests end, workers poll every 30 seconds and their calls have timeouts.
Fairness ==
  /\ \A d \in Devices : WF_vars(Finish(d))
  /\ \A i \in Images : WF_vars(BecomeDue(i))
  /\ WF_vars(\E w \in Workers : Claim(w))
  /\ \A w \in Workers : WF_vars(Step(w))
  /\ WF_vars(Expire)

FairSpec == Spec /\ Fairness

----------------------------------------------------------------------------
(* Properties *)

TypeOK ==
  /\ stored \subseteq Images /\ signed \subseteq Images /\ fresh \subseteq signed
  /\ used \subseteq Images /\ restored \subseteq Images /\ manual \subseteq Images
  /\ avatar \in Images \cup {NoImage} /\ account \in BOOLEAN
  /\ job \in [Images -> {"none", "waiting", "due"}]
  /\ jlease \in [Images -> BOOLEAN] /\ jtoken \in [Images -> Workers \cup {NoWorker}]
  /\ qlease \in BOOLEAN /\ qtoken \in Workers \cup {NoWorker}
  /\ pc \in [Workers -> Calling \cup {"idle"}]
  /\ mine \in [Workers -> Images \cup {NoImage}]
  /\ \A w \in Workers : pc[w] = "idle" <=> mine[w] = NoImage
  /\ dpc \in [Devices -> Requests \cup {"idle"}]
  /\ old \in [Devices -> Images \cup {NoImage}]
  /\ new \in [Devices -> Images \cup {NoImage}]
  /\ {faults, rare} \subseteq Nat

\* The image of a profile is never deleted by a cleanup job, although the upload
\* reserved its deletion and other requests schedule it too (worker.py:48-50), unless
\* the save of another field put a former avatar back (user/db.py:76-80).
LiveAvatarSurvives ==
  avatar # NoImage /\ avatar \notin manual \cup restored => avatar \in stored

\* worker.py:48: "Used uploads survive".  A profile that is saved with the avatar it was
\* read with, after that one was replaced and deleted, refutes it.
UsedUploadsSurvive == avatar # NoImage /\ avatar \notin manual => avatar \in stored

\* As long as no call outlives its leases, one image is deleted at a time in all
\* processes (README.md:43, worker.py:26-37).
OneAtATime ==
  ~stalled =>
    Cardinality({w \in Workers : pc[w] \in {"check", "destroy", "spare", "delete", "defer"}}) <= 1

\* A job is given up only by the call that holds it, and only when its image is deleted
\* or was found to be the avatar (worker.py:47-54); a call that lost its lease cannot
\* remove the job of another call.  What is replaced after it was found: see
\* ReplacedImagesHaveJobs.
JobsAreKept ==
  [][\A i \in Images : job[i] # "none" /\ job'[i] = "none" =>
       \E w \in Workers : mine[w] = i /\ jtoken[i] = w
                          /\ (i \notin stored \/ At(w, "spare"))]_vars

\* Every job is eventually done, whatever fails or stops a bounded number of times
\* (worker.py:55-73, README.md:45).
JobsAreDone == \A i \in Images : job[i] # "none" ~> job[i] = "none"

\* worker.py:48: "replaced/deleted avatars get a new cleanup job".  It is merged into one
\* that a call, which has found the image in use, is about to give up (or, when a save puts
\* an older avatar back, there is none at all).
ReplacedImagesHaveJobs ==
  \A i \in used : i \in stored /\ avatar # i => job[i] # "none"

============================================================================
