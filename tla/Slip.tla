-------------------------------- MODULE Slip -------------------------------
(***************************************************************************)
(* The Telegram bot: merchants post photos of payment slips in a group.    *)
(* The bot gets them either by long polling, one at a time, with an offset *)
(* kept in memory, or by a webhook that answers at once and leaves the     *)
(* photo to a goroutine that holds the context of the request. HandlePhoto *)
(* downloads the picture, VerifySlip looks for the same picture and the    *)
(* same transfer among the stored slips, asks EasySlip in between, stores  *)
(* a record and answers in the group.                                      *)
(*                                                                         *)
(* Every call may fail, and fails once the context of the request is over. *)
(* The records are in PostgreSQL, where no INSERT succeeds, or in a slice  *)
(* in memory that is neither locked nor written anywhere.                  *)
(***************************************************************************)
EXTENDS Integers, Sequences

CONSTANTS
  Updates,       \* the posted photos, by update_id: 1 .. n
  ImageOf,       \* [Updates -> the picture]
  ErrorPage,     \* what the file server sends in place of a picture
  RefOf,         \* [the picture -> the reference of the transfer it shows]
  NoRef,         \* no reference, stored as the empty text
  MaxCrashes

ASSUME SlipAssumption ==
  /\ Updates \subseteq Nat \ {0}
  /\ \A n \in Updates : 1 .. n \subseteq Updates
  /\ \A u \in Updates : ImageOf[u] # ErrorPage
  /\ MaxCrashes \in Nat

VARIABLES
  polling,       \* BOT_POLLING_ENABLED
  repo,          \* "postgres", or the "stub" when DATABASE_URL is not set
  confirmed,     \* the updates Telegram will not deliver again
  offset,        \* StartBot's offset
  fetched,       \* the updates of the last getUpdates not yet handled, lowest first
  step,          \* where HandleUpdate is with every update
  running,       \* whether the context it was given is not over
  picture, ref,  \* what it downloaded, and the reference EasySlip read in it
  reply,         \* what it tells the group
  slips,         \* slip_verifications, in the order of their insertion
  kept,          \* the slice an append to it has read
  crashes,
  recorded,      \* history: the updates that had a record since the last start
  accepted       \*   and those that were found verified, with the crashes before

taskVars   == <<step, running, picture, ref, reply>>
queueVars  == <<polling, repo, confirmed, offset, fetched, crashes>>
recordVars == <<slips, kept, recorded, accepted>>
slipVars   == <<taskVars, queueVars, recordVars>>

Nowhere == [u \in Updates |-> "none"]

SlipInit ==
  /\ polling \in BOOLEAN /\ repo \in {"postgres", "stub"}
  /\ confirmed = {}
  /\ offset = 0
  /\ fetched = {}
  /\ step = Nowhere /\ picture = Nowhere /\ reply = Nowhere
  /\ running = [u \in Updates |-> FALSE]
  /\ ref = [u \in Updates |-> NoRef]
  /\ slips = <<>> /\ kept = [u \in Updates |-> <<>>]
  /\ recorded = {} /\ accepted = {}
  /\ crashes = 0

-----------------------------------------------------------------------------
(* The two ways in.                                                         *)

Step(u, s) == step' = [step EXCEPT ![u] = s]

HandleUpdate(u) ==
  /\ Step(u, "photo")
  /\ running' = [running EXCEPT ![u] = TRUE]
  /\ UNCHANGED <<picture, ref, reply>>

\* getUpdates: Telegram forgets the updates below the offset and returns those
\* of the first n it has not forgotten. A request that fails returns nothing.
GetUpdates ==
  /\ polling /\ fetched = {}
  /\ confirmed' = confirmed \union {u \in Updates : u < offset}
  /\ \E n \in {0} \union Updates : fetched' = (1 .. n) \ confirmed'
  /\ UNCHANGED <<polling, repo, offset, crashes, taskVars, recordVars>>

IsFirst(u) == u \in fetched /\ \A v \in fetched : u <= v

BeginUpdate(u) ==
  /\ polling /\ IsFirst(u)
  /\ step[u] = "none"
  /\ HandleUpdate(u)
  /\ UNCHANGED <<queueVars, recordVars>>

EndUpdate(u) ==
  /\ polling /\ IsFirst(u)
  /\ step[u] = "done"
  /\ offset' = IF u >= offset THEN u + 1 ELSE offset
  /\ fetched' = fetched \ {u}
  /\ UNCHANGED <<polling, repo, confirmed, crashes, taskVars, recordVars>>

\* The webhook's handler starts the goroutine and answers 200: Telegram does
\* not deliver the update again.
HandleWebhook(u) ==
  /\ ~polling /\ u \notin confirmed
  /\ confirmed' = confirmed \union {u}
  /\ HandleUpdate(u)
  /\ UNCHANGED <<polling, repo, offset, fetched, crashes, recordVars>>

\* r.Context() is cancelled as soon as that handler has returned.
ContextEnds(u) ==
  /\ ~polling /\ running[u]
  /\ running' = [running EXCEPT ![u] = FALSE]
  /\ UNCHANGED <<queueVars, step, picture, ref, reply, recordVars>>

\* The service stops and starts again: what it held in memory is gone, and
\* PostgreSQL holds nothing.
BotCrashes ==
  /\ crashes < MaxCrashes
  /\ crashes' = crashes + 1
  /\ offset' = 0
  /\ fetched' = {}
  /\ step' = Nowhere /\ picture' = Nowhere /\ reply' = Nowhere
  /\ running' = [u \in Updates |-> FALSE]
  /\ ref' = [u \in Updates |-> NoRef]
  /\ slips' = <<>> /\ kept' = [u \in Updates |-> <<>>] /\ recorded' = {}
  /\ UNCHANGED <<polling, repo, confirmed, accepted>>

-----------------------------------------------------------------------------
(* HandlePhoto and VerifySlip.                                              *)

\* Mutant of Stored: any record will do.
StoredAny(field, value) == slips # <<>>

Stored(field, value) == \E i \in 1 .. Len(slips) : slips[i][field] = value

\* Any error ends the pipeline with an error message in the group.
Abort(u) ==
  /\ Step(u, "reply")
  /\ reply' = [reply EXCEPT ![u] = "error"]
  /\ UNCHANGED <<picture, ref, accepted>>

\* storeVerificationResult comes next, then the answer.
Conclude(u, ans) ==
  /\ Step(u, "store")
  /\ reply' = [reply EXCEPT ![u] = ans]
  /\ accepted' = IF ans = "verified" THEN accepted \union {[update |-> u, life |-> crashes]}
                                     ELSE accepted
  /\ UNCHANGED <<picture, ref>>

Continue(u, s) == Step(u, s) /\ UNCHANGED <<reply, accepted>>

\* The HTTP status is not looked at: an error page is taken for the picture.
DownloadPhoto(u) ==
  /\ step[u] = "photo"
  /\ \/ Abort(u)
     \/ /\ running[u] /\ Continue(u, "image") /\ UNCHANGED ref
        /\ \E p \in {ImageOf[u], ErrorPage} : picture' = [picture EXCEPT ![u] = p]
  /\ UNCHANGED <<queueVars, running, slips, kept, recorded>>

\* A query of PostgreSQL; the stub ignores the context and never fails.
LookupFails(u) == repo = "postgres" /\ Abort(u)
LookupWorks(u) == repo = "postgres" => running[u]

GetByImageHash(u) ==
  /\ step[u] = "image"
  /\ \/ LookupFails(u)
     \/ LookupWorks(u) /\ Stored("image", picture[u]) /\ Conclude(u, "duplicate")
     \/ /\ LookupWorks(u) /\ ~Stored("image", picture[u]) /\ Continue(u, "easyslip")
        /\ UNCHANGED <<picture, ref>>
  /\ UNCHANGED <<queueVars, running, slips, kept, recorded>>

\* EasySlip answers an error page with an error. The failed attempt is stored
\* under the hash as well.
EasySlip(u) ==
  /\ step[u] = "easyslip"
  /\ \/ Conclude(u, "error")
     \/ /\ running[u] /\ picture[u] # ErrorPage
        /\ Continue(u, "ref") /\ ref' = [ref EXCEPT ![u] = RefOf[picture[u]]]
        /\ UNCHANGED picture
  /\ UNCHANGED <<queueVars, running, slips, kept, recorded>>

\* Mutant of GetByTransactionRef: another picture of the transfer is accepted.
TrustPicture(u) ==
  /\ step[u] = "ref"
  /\ LookupFails(u) \/ (LookupWorks(u) /\ Conclude(u, "verified"))
  /\ UNCHANGED <<queueVars, running, slips, kept, recorded>>

GetByTransactionRef(u) ==
  /\ step[u] = "ref"
  /\ \/ LookupFails(u)
     \/ LookupWorks(u) /\ Stored("ref", ref[u]) /\ Conclude(u, "duplicate")
     \/ LookupWorks(u) /\ ~Stored("ref", ref[u]) /\ Conclude(u, "verified")
  /\ UNCHANGED <<queueVars, running, slips, kept, recorded>>

\* In PostgreSQL no INSERT succeeds: the empty RawResponse is cast to JSONB.
InsertFails(u) == repo = "postgres" /\ Step(u, "reply") /\ UNCHANGED kept

\* The error of an INSERT is only logged. The stub appends to its slice: it reads
\* it first.
StoreResult(u) ==
  /\ step[u] = "store"
  /\ \/ InsertFails(u)
     \/ repo = "stub" /\ Step(u, "append") /\ kept' = [kept EXCEPT ![u] = slips]
  /\ UNCHANGED <<queueVars, running, picture, ref, reply, slips, recorded, accepted>>

\* Two appends at a time are a data race: what others appended since the read is
\* written over, in an array of its own or in theirs.
AppendRecord(u) ==
  LET record == [update |-> u, image |-> picture[u], ref |-> ref[u]] IN
  /\ step[u] = "append" /\ Step(u, "reply")
  /\ \/ slips' = Append(kept[u], record)
     \/ /\ Len(kept[u]) <= Len(slips)
        /\ slips' = Append(SubSeq(slips, 1, Len(kept[u])), record)
  /\ kept' = [kept EXCEPT ![u] = <<>>]
  /\ recorded' = recorded \union {u}
  /\ UNCHANGED <<queueVars, running, picture, ref, reply, accepted>>

\* ReplyToGroup gives up silently.
ReplyToGroup(u) ==
  /\ step[u] = "reply" /\ Step(u, "done")
  /\ (running[u] /\ UNCHANGED reply) \/ reply' = [reply EXCEPT ![u] = "none"]
  /\ UNCHANGED <<queueVars, running, picture, ref, recordVars>>

HandlePhoto(u) ==
  \/ DownloadPhoto(u) \/ GetByImageHash(u) \/ EasySlip(u)
  \/ GetByTransactionRef(u) \/ StoreResult(u) \/ AppendRecord(u) \/ ReplyToGroup(u)

SlipNext ==
  \/ GetUpdates \/ BotCrashes
  \/ \E u \in Updates : BeginUpdate(u) \/ EndUpdate(u)
  \/ \E u \in Updates : HandleWebhook(u) \/ ContextEnds(u) \/ HandlePhoto(u)

-----------------------------------------------------------------------------
(* Properties.                                                              *)

Pictures == {ErrorPage} \union {ImageOf[u] : u \in Updates}
Refs     == {NoRef} \union {RefOf[ImageOf[u]] : u \in Updates}
Records  == [update : Updates, image : Pictures, ref : Refs]

SlipTypeOK ==
  /\ polling \in BOOLEAN /\ repo \in {"postgres", "stub"}
  /\ confirmed \subseteq Updates
  /\ offset \in {0} \union {u + 1 : u \in Updates}
  /\ fetched \subseteq Updates
  /\ step \in [Updates -> {"none", "photo", "image", "easyslip", "ref", "store", "append",
                          "reply", "done"}]
  /\ running \in [Updates -> BOOLEAN]
  /\ picture \in [Updates -> {"none"} \union Pictures]
  /\ ref \in [Updates -> Refs]
  /\ reply \in [Updates -> {"none", "error", "duplicate", "verified"}]
  /\ slips \in Seq(Records) /\ kept \in [Updates -> Seq(Records)]
  /\ repo = "postgres" => slips = <<>>
  /\ crashes \in 0 .. MaxCrashes
  /\ recorded \subseteq Updates
  /\ accepted \subseteq [update : Updates, life : 0 .. MaxCrashes]

Transfer(u) == RefOf[ImageOf[u]]

\* "Even if the image is different (e.g. screenshot vs. photo of screen), the same
\* transaction ref means it is the same transfer" (slip.go:165): of the photos of
\* one transfer a bot that polls, and so handles one at a time, verifies one.
TransferVerifiedOnce ==
  polling =>
    \A a, b \in accepted :
      a.life = b.life /\ Transfer(a.update) = Transfer(b.update) => a = b

\* Without PostgreSQL it does so between one start and the next, whichever
\* updates are delivered again. (With the webhook two goroutines may both look
\* before either appends, or undo each other's append.)
TransferAcceptedOnce == repo = "stub" => TransferVerifiedOnce

\* In either mode a photo that was downloaded and is called a duplicate had another
\* one before it, of the same picture or of the same transfer: it is never a
\* duplicate of itself, of an update that was lost, or of an error page.
DuplicateHasOriginal ==
  \A u \in Updates :
    reply[u] = "duplicate" /\ picture[u] # ErrorPage /\ Transfer(u) # NoRef =>
      \E v \in recorded \ {u} : ImageOf[v] = ImageOf[u] \/ Transfer(v) = Transfer(u)
=============================================================================
