------------------------------- MODULE Media -------------------------------
(***************************************************************************)
(* The store of encrypted media (media-service): upload tokens, the upload *)
(* stream with its partial file, downloads, and the sweep of expired       *)
(* objects and orphaned partial files.                                     *)
(*                                                                         *)
(* A file is an inode, named after the upload that created it, which alone *)
(* writes to it; the directory holds two names for each media_id, partial  *)
(* and final.  A media_id is named after the call that minted its token.   *)
(* A file's bytes are the sequence of the chunks written, its hash that    *)
(* sequence.  Every system call and database access is a step: the tasks   *)
(* run on several threads.  A token's HMAC is data: a call presents either *)
(* a token that was minted or none.                                        *)
(***************************************************************************)
EXTENDS Integers, Sequences, FiniteSets, SequencesExt

CONSTANTS
    MediaPlan,    \* bound: [calls, errors, cuts]; a call: [kind, ...]
    MUser,        \* accounts
    MaxFile,      \* max_file_size
    MintMax,      \* rate_limit_per_hour
    MintWindow,   \* ticks of the hour of the limiter
    TokenTicks,   \* ticks an upload token lives
    PartialTicks, \* ticks after which a partial file is an orphan
    MediaTicks    \* file_ttl_seconds

VARIABLES
    mediaPlan,    \* the scenario
    mnow,         \* the clock
    window,       \* the limiter's entries
    token,        \* the token each mint answered
    content,      \* the bytes of each inode
    touched,      \* the modification time of each inode
    partial,      \* the inode under {media_id}.partial
    object,       \* the inode under {media_id}
    mediaRow,     \* media_files
    mcall,        \* the progress of each call
    sweep,        \* the progress of the cleanup loop
    merrors,      \* failed file or database operations so far
    mcuts,        \* dropped streams and restarts so far
    rivals,       \* history: the most uploads of a token at work at once
    stranded      \* history: tokens whose upload was cut between rename and insert

names == <<partial, object>>
files == <<content, touched, names>>
mhistory == <<rivals, stranded>>
mediaVars == <<mediaPlan, mnow, window, token, files, mediaRow, mcall, sweep, merrors, mcuts, mhistory>>

----------------------------------------------------------------------------

MCalls == DOMAIN mediaPlan.calls
MC(i) == mediaPlan.calls[i]
Uploads(t) == {i \in MCalls : MC(i).kind = "upload" /\ MC(i).tok = t}
NoFile == 0
NoMedia == [until |-> -1]
NoUpload == [until |-> -1]
NewMCall == [at |-> "ready", next |-> 1, sum |-> <<>>, until |-> -1, file |-> NoFile, total |-> 0]
Resting == [at |-> "idle", left |-> {}, item |-> NoFile]

MAt(i, where) == mcall[i].at = where
AtWork(i) == mcall[i].at \notin {"ready", "done", "failed"}
MTo(i, where) == mcall' = [mcall EXCEPT ![i].at = where]
MFails(i) == MTo(i, "failed")
\* Calls begin in the plan's order and overlap as they like.
MBegins(i, kind) ==
    /\ MC(i).kind = kind /\ MAt(i, "ready")
    /\ \A j \in MCalls : j < i => ~MAt(j, "ready")
\* One operation on a file or the database fails.
MErrs == merrors < mediaPlan.errors /\ merrors' = merrors + 1

BytesOf(s) == FoldLeft(LAMBDA sum, c : sum + c.size, 0, s)

MediaInit ==
    /\ mediaPlan \in MediaPlan
    /\ mnow = 0
    /\ window = [u \in MUser |-> <<>>]
    /\ token = [i \in MCalls |-> NoUpload]
    /\ content = [i \in MCalls |-> <<>>]
    /\ touched = [i \in MCalls |-> 0]
    /\ partial = [i \in MCalls |-> NoFile]
    /\ object = [i \in MCalls |-> NoFile]
    /\ mediaRow = [i \in MCalls |-> NoMedia]
    /\ mcall = [i \in MCalls |-> NewMCall]
    /\ sweep = Resting
    /\ merrors = 0 /\ mcuts = 0
    /\ rivals = [i \in MCalls |-> 0]
    /\ stranded = {}

----------------------------------------------------------------------------
(* Tokens                                                                  *)

\* SlidingWindowLimiter::check_and_record
Kept(u) == SelectSeq(window[u], LAMBDA at : mnow - at < MintWindow)
Recorded(u) == IF Len(Kept(u)) >= MintMax THEN Kept(u) ELSE Append(Kept(u), mnow)
Admits(u) == Recorded(u) # Kept(u)

\* The cap of a token: the size asked for, the configured one when none is.
TokenMax(asked) == IF asked.given THEN asked.size ELSE MaxFile
SizeAllowed(asked) == asked.given => asked.size \in 1..MaxFile

MintUploadToken(max) == [until |-> mnow + TokenTicks, max |-> max]

\* The window is charged before the size is looked at.
GenerateUploadToken(i) ==
    /\ MBegins(i, "mint")
    /\ window' = [window EXCEPT ![MC(i).user] = Recorded(MC(i).user)]
    /\ IF Admits(MC(i).user) /\ SizeAllowed(MC(i).asked)
       THEN /\ token' = [token EXCEPT ![i] = MintUploadToken(TokenMax(MC(i).asked))]
            /\ MTo(i, "done")
       ELSE MFails(i) /\ UNCHANGED token
    /\ UNCHANGED <<mediaPlan, mnow, files, mediaRow, sweep, merrors, mcuts, mhistory>>

\* validate_upload_token: a token is good up to and including its last second.
ValidToken(t) == token[t] # NoUpload /\ mnow <= token[t].until

----------------------------------------------------------------------------
(* UploadMedia                                                             *)

Tok(i) == MC(i).tok
\* What is left alone by a step of an upload that touches no file and no row.
UploadOnly == UNCHANGED <<mediaPlan, mnow, window, token, sweep, mcuts>>

\* The first message: its token, then whether the media exists already.
BeginUpload(i) ==
    /\ MBegins(i, "upload")
    /\ \/ /\ ~ValidToken(Tok(i)) \/ mediaRow[Tok(i)] # NoMedia \/ MC(i).sizes = <<>>
          /\ MFails(i)
          /\ UNCHANGED <<merrors, rivals>>
       \/ /\ ValidToken(Tok(i)) /\ mediaRow[Tok(i)] = NoMedia /\ MC(i).sizes # <<>>
          /\ MTo(i, "look")
          /\ LET busy == 1 + Cardinality({j \in Uploads(Tok(i)) : AtWork(j)})
             IN rivals' = [rivals EXCEPT ![Tok(i)] = IF busy > @ THEN busy ELSE @]
          /\ UNCHANGED merrors
       \/ /\ ValidToken(Tok(i)) /\ MErrs
          /\ MFails(i)
          /\ UNCHANGED rivals
    /\ UploadOnly /\ UNCHANGED <<files, mediaRow, stranded>>

\* UploadState::new: is there a final object already?
LookForObject(i) ==
    /\ MAt(i, "look")
    /\ IF object[Tok(i)] # NoFile THEN MFails(i) ELSE MTo(i, "drop")
    /\ UploadOnly /\ UNCHANGED <<files, mediaRow, merrors, mhistory>>

\* UploadState::new: a partial file that is there is taken for a leftover.
DropLeftover(i) ==
    /\ MAt(i, "drop")
    /\ partial' = [partial EXCEPT ![Tok(i)] = NoFile]
    /\ MTo(i, "open")
    /\ UploadOnly /\ UNCHANGED <<content, touched, object, mediaRow, merrors, mhistory>>

\* open_exclusive_0600: create_new fails when the name is taken.
OpenPartial(i) ==
    /\ MAt(i, "open")
    /\ \/ /\ partial[Tok(i)] # NoFile
          /\ MFails(i) /\ UNCHANGED <<partial, touched, merrors>>
       \/ /\ partial[Tok(i)] = NoFile
          /\ partial' = [partial EXCEPT ![Tok(i)] = i]
          /\ touched' = [touched EXCEPT ![i] = mnow]
          /\ MTo(i, "write") /\ UNCHANGED merrors
       \/ MErrs /\ MFails(i) /\ UNCHANGED <<partial, touched>>
    /\ UploadOnly /\ UNCHANGED <<content, object, mediaRow, mhistory>>

\* abort: whatever partial file has the name goes.
Abort(i) == partial' = [partial EXCEPT ![Tok(i)] = NoFile] /\ MFails(i)

Chunk(i) == [data |-> MC(i).data, nth |-> mcall[i].next, size |-> MC(i).sizes[mcall[i].next]]
CapOf(t) == IF token[t].max < MaxFile THEN token[t].max ELSE MaxFile
AfterWriteError(i) == Abort(i)
Fits(i) == BytesOf(mcall[i].sum) + Chunk(i).size <= CapOf(Tok(i))

\* write_chunk, and the end of the message loop after the last chunk (with or
\* without is_last: a stream that ends is finalized too).
WriteChunk(i) ==
    /\ MAt(i, "write") /\ mcall[i].next <= Len(MC(i).sizes)
    /\ \/ /\ ~Fits(i)
          /\ Abort(i) /\ UNCHANGED <<content, touched, merrors>>
       \/ /\ Fits(i)
          /\ LET s == IF Chunk(i).size = 0 THEN mcall[i].sum ELSE Append(mcall[i].sum, Chunk(i))
             IN /\ mcall' = [mcall EXCEPT ![i].sum = s, ![i].next = @ + 1,
                                          ![i].at = IF mcall[i].next = Len(MC(i).sizes) THEN "last" ELSE "write"]
                /\ content' = [content EXCEPT ![i] = s]
                /\ touched' = [touched EXCEPT ![i] = IF Chunk(i).size = 0 THEN @ ELSE mnow]
          /\ UNCHANGED <<partial, merrors>>
       \/ /\ Fits(i) /\ Chunk(i).size > 0 /\ MErrs
          /\ AfterWriteError(i) /\ UNCHANGED <<content, touched>>
    /\ UploadOnly /\ UNCHANGED <<object, mediaRow, mhistory>>

\* Mutant: the name is taken without a look.
TakenBlind(t) == FALSE
Taken(t) == object[t] # NoFile
\* finalize: an empty upload is refused; the object must not exist yet.
CheckFinal(i) ==
    /\ MAt(i, "last")
    /\ IF mcall[i].sum = <<>> \/ Taken(Tok(i)) THEN Abort(i) ELSE MTo(i, "rename") /\ UNCHANGED partial
    /\ UploadOnly /\ UNCHANGED <<content, touched, object, mediaRow, merrors, mhistory>>

\* finalize: whatever is under the partial name becomes the object.
Rename(i) ==
    /\ MAt(i, "rename")
    /\ IF partial[Tok(i)] = NoFile
       THEN MFails(i) /\ UNCHANGED names
       ELSE /\ object' = [object EXCEPT ![Tok(i)] = partial[Tok(i)]]
            /\ partial' = [partial EXCEPT ![Tok(i)] = NoFile]
            /\ MTo(i, "hash")
    /\ UploadOnly /\ UNCHANGED <<content, touched, mediaRow, merrors, mhistory>>

RemoveObject(i) == object' = [object EXCEPT ![Tok(i)] = NoFile] /\ MFails(i)

HashAgrees(i) == MC(i).hash \in {"none", "right"}
\* The hash the client sent with its last chunk.
CheckHash(i) ==
    /\ MAt(i, "hash")
    /\ IF HashAgrees(i) THEN MTo(i, "save") /\ UNCHANGED object ELSE RemoveObject(i)
    /\ UploadOnly /\ UNCHANGED <<content, touched, partial, mediaRow, merrors, mhistory>>

Insertable(t) == mediaRow[t] = NoMedia
\* save_metadata, and the roll back of the object when the insert fails.
SaveMetadata(i) ==
    /\ MAt(i, "save")
    /\ \/ /\ Insertable(Tok(i))
          /\ mediaRow' = [mediaRow EXCEPT ![Tok(i)] =
                [until |-> mnow + MediaTicks, hash |-> mcall[i].sum, size |-> BytesOf(mcall[i].sum)]]
          /\ mcall' = [mcall EXCEPT ![i].at = "done", ![i].until = mnow + MediaTicks]
          /\ UNCHANGED <<object, merrors>>
       \/ /\ ~Insertable(Tok(i))
          /\ RemoveObject(i) /\ UNCHANGED <<mediaRow, merrors>>
       \/ MErrs /\ RemoveObject(i) /\ UNCHANGED mediaRow
    /\ UploadOnly /\ UNCHANGED <<content, touched, partial, mhistory>>

----------------------------------------------------------------------------
(* Reading                                                                 *)

ReadOnly == UNCHANGED <<mediaPlan, mnow, window, token, files, mediaRow, sweep, mcuts, mhistory>>

\* get_metadata and the expiry check of both readers.
Readable(t) == mediaRow[t] # NoMedia /\ mediaRow[t].until >= mnow

\* DownloadMedia: the row.
BeginDownload(i) ==
    /\ MBegins(i, "download")
    /\ \/ /\ Readable(Tok(i))
          /\ mcall' = [mcall EXCEPT ![i].at = "find", ![i].until = mediaRow[Tok(i)].until]
          /\ UNCHANGED merrors
       \/ ~Readable(Tok(i)) /\ MFails(i) /\ UNCHANGED merrors
       \/ MErrs /\ MFails(i)
    /\ ReadOnly

\* DownloadStream::new: the open file stays, whatever becomes of its name.
OpenObject(i) ==
    /\ MAt(i, "find")
    /\ IF object[Tok(i)] = NoFile THEN MFails(i)
       ELSE mcall' = [mcall EXCEPT ![i].at = "read", ![i].file = object[Tok(i)],
                                   ![i].total = BytesOf(content[object[Tok(i)]])]
    /\ ReadOnly /\ UNCHANGED merrors

Complete(i, got) == BytesOf(got) >= mcall[i].total
\* read_chunk, and the loop that sends what it read.
ReadChunk(i) ==
    /\ MAt(i, "read")
    /\ \/ /\ mcall[i].next > Len(content[mcall[i].file])
          /\ MTo(i, "done") /\ UNCHANGED merrors
       \/ /\ mcall[i].next <= Len(content[mcall[i].file])
          /\ LET got == Append(mcall[i].sum, content[mcall[i].file][mcall[i].next])
             IN mcall' = [mcall EXCEPT ![i].sum = got, ![i].next = @ + 1,
                                       ![i].at = IF Complete(i, got) THEN "done" ELSE "read"]
          /\ UNCHANGED merrors
       \/ MErrs /\ MFails(i)
    /\ ReadOnly

\* GetMediaMetadata
GetMediaMetadata(i) ==
    /\ MBegins(i, "info")
    /\ \/ /\ Readable(Tok(i))
          /\ mcall' = [mcall EXCEPT ![i].at = "done", ![i].until = mediaRow[Tok(i)].until, ![i].file = object[Tok(i)]]
          /\ UNCHANGED merrors
       \/ ~Readable(Tok(i)) /\ MFails(i) /\ UNCHANGED merrors
       \/ MErrs /\ MFails(i)
    /\ ReadOnly

----------------------------------------------------------------------------
(* cleanup_expired_media, run by run_cleanup_loop                          *)

SweepOnly == UNCHANGED <<mediaPlan, mnow, window, token, content, touched, mcall, mcuts, mhistory>>

\* Mutant: off by one.
ExpiredLate == {t \in MCalls : mediaRow[t] # NoMedia /\ mediaRow[t].until + 1 < mnow}
Expired == {t \in MCalls : mediaRow[t] # NoMedia /\ mediaRow[t].until < mnow}

SelectExpired ==
    /\ sweep.at = "idle"
    /\ \/ sweep' = [Resting EXCEPT !.at = "rows", !.left = Expired] /\ UNCHANGED merrors
       \/ MErrs /\ UNCHANGED sweep
    /\ SweepOnly /\ UNCHANGED <<names, mediaRow>>

\* remove_if_present on the object of one row; an error leaves the row for later.
AfterError(t) == [sweep EXCEPT !.left = @ \ {t}]
RemoveExpired(t) ==
    /\ sweep.at = "rows" /\ t \in sweep.left
    /\ \/ /\ object' = [object EXCEPT ![t] = NoFile]
          /\ sweep' = [sweep EXCEPT !.at = "partial", !.item = t, !.left = @ \ {t}]
          /\ UNCHANGED merrors
       \/ MErrs /\ sweep' = AfterError(t) /\ UNCHANGED object
    /\ SweepOnly /\ UNCHANGED <<partial, mediaRow>>

RemoveItsPartial ==
    /\ sweep.at = "partial"
    /\ \/ /\ partial' = [partial EXCEPT ![sweep.item] = NoFile]
          /\ sweep' = [sweep EXCEPT !.at = "row"]
          /\ UNCHANGED merrors
       \/ MErrs /\ sweep' = [sweep EXCEPT !.at = "rows"] /\ UNCHANGED partial
    /\ SweepOnly /\ UNCHANGED <<object, mediaRow>>

\* delete_metadata; an error here ends the whole sweep.
DeleteMetadata ==
    /\ sweep.at = "row"
    /\ \/ /\ mediaRow' = [mediaRow EXCEPT ![sweep.item] = NoMedia]
          /\ sweep' = [sweep EXCEPT !.at = "rows"]
          /\ UNCHANGED merrors
       \/ MErrs /\ sweep' = Resting /\ UNCHANGED mediaRow
    /\ SweepOnly /\ UNCHANGED names

\* The directory is read when every row is through.
ReadDirectory ==
    /\ sweep.at = "rows" /\ sweep.left = {}
    /\ sweep' = [Resting EXCEPT !.at = "orphans", !.left = {t \in MCalls : partial[t] # NoFile}]
    /\ SweepOnly /\ UNCHANGED <<names, mediaRow, merrors>>

Orphaned(t) == partial[t] # NoFile /\ mnow - touched[partial[t]] > PartialTicks
\* The age of one partial file; the removal is another system call.
StatPartial(t) ==
    /\ sweep.at = "orphans" /\ t \in sweep.left
    /\ sweep' = [sweep EXCEPT !.left = @ \ {t}, !.at = IF Orphaned(t) THEN "unlink" ELSE "orphans", !.item = t]
    /\ SweepOnly /\ UNCHANGED <<names, mediaRow, merrors>>

\* An error on an orphan ends the sweep.
UnlinkPartial ==
    /\ sweep.at = "unlink"
    /\ \/ /\ partial' = [partial EXCEPT ![sweep.item] = NoFile]
          /\ sweep' = [sweep EXCEPT !.at = "orphans"]
          /\ UNCHANGED merrors
       \/ MErrs /\ sweep' = Resting /\ UNCHANGED partial
    /\ SweepOnly /\ UNCHANGED <<object, mediaRow>>

EndSweep ==
    /\ sweep.at = "orphans" /\ sweep.left = {}
    /\ sweep' = Resting
    /\ SweepOnly /\ UNCHANGED <<names, mediaRow, merrors>>

SweepStep ==
    \/ SelectExpired \/ RemoveItsPartial \/ DeleteMetadata \/ ReadDirectory \/ UnlinkPartial \/ EndSweep
    \/ \E t \in sweep.left : RemoveExpired(t) \/ StatPartial(t)

----------------------------------------------------------------------------
(* Time, dropped streams, restarts                                         *)

MTime(i) ==
    /\ MBegins(i, "wait")
    /\ mnow' = mnow + MC(i).ticks
    /\ MTo(i, "done")
    /\ UNCHANGED <<mediaPlan, window, token, files, mediaRow, sweep, merrors, mcuts, mhistory>>

Renamed(i) == MC(i).kind = "upload" /\ mcall[i].at \in {"hash", "save"}

\* The client goes away: the handler is dropped where it waits, nothing is undone.
DropStream(i) ==
    /\ AtWork(i) /\ mcuts < mediaPlan.cuts
    /\ mcuts' = mcuts + 1
    /\ MFails(i)
    /\ stranded' = IF Renamed(i) THEN stranded \cup {Tok(i)} ELSE stranded
    /\ UNCHANGED <<mediaPlan, mnow, window, token, files, mediaRow, sweep, merrors, rivals>>

\* The process restarts: calls, limiter and sweep are gone, files and rows stay.
MRestart ==
    /\ mcuts < mediaPlan.cuts /\ \E i \in MCalls : AtWork(i)
    /\ mcuts' = mcuts + 1
    /\ mcall' = [i \in MCalls |-> IF AtWork(i) THEN [mcall[i] EXCEPT !.at = "failed"] ELSE mcall[i]]
    /\ window' = [u \in MUser |-> <<>>]
    /\ sweep' = Resting
    /\ stranded' = stranded \cup {Tok(i) : i \in {j \in MCalls : Renamed(j)}}
    /\ UNCHANGED <<mediaPlan, mnow, token, files, mediaRow, merrors, rivals>>

MediaCall(i) ==
    \/ GenerateUploadToken(i)
    \/ BeginUpload(i) \/ LookForObject(i) \/ DropLeftover(i) \/ OpenPartial(i) \/ WriteChunk(i)
    \/ CheckFinal(i) \/ Rename(i) \/ CheckHash(i) \/ SaveMetadata(i)
    \/ BeginDownload(i) \/ OpenObject(i) \/ ReadChunk(i) \/ GetMediaMetadata(i)
    \/ MTime(i) \/ DropStream(i)

MediaNext == SweepStep \/ MRestart \/ \E i \in MCalls : MediaCall(i)

\* The cleanup loop is a task of its own that ticks as long as the process lives.
MediaFairness == WF_mediaVars(SweepStep)
MediaSpec == MediaInit /\ [][MediaNext]_mediaVars /\ MediaFairness

----------------------------------------------------------------------------
(* Properties                                                              *)

Answered(i) == MC(i).kind = "upload" /\ MAt(i, "done")

\* Types; an account's window never holds more than the limit; a partial file
\* is one an upload of that media_id made.
MediaTypeOK ==
    /\ mediaPlan \in MediaPlan /\ mnow \in Nat
    /\ \A u \in MUser : Len(window[u]) <= MintMax
    /\ \A t \in MCalls : partial[t] \in {NoFile} \cup Uploads(t) /\ object[t] \in {NoFile} \cup Uploads(t)
    /\ merrors \in 0..mediaPlan.errors /\ mcuts \in 0..mediaPlan.cuts
    /\ \A i \in MCalls : mcall[i].file \in {NoFile} \cup MCalls
    /\ sweep.left \subseteq MCalls

\* A token is used once: of the uploads answered under one token, only one's
\* object has not expired (validate, the object's name, the unique media_id).
TokenUsedOnce ==
    \A i, j \in MCalls :
        i # j /\ Answered(i) /\ Answered(j) /\ Tok(i) = Tok(j) => mcall[i].until < mnow \/ mcall[j].until < mnow

\* An upload that was answered keeps its row and its object until it expires,
\* as long as at most two uploads of its token were ever at work at once: no
\* other upload's roll back, no abort and no sweep removes them early.
AnsweredIsKept ==
    \A i \in MCalls :
        Answered(i) /\ rivals[Tok(i)] <= 2 /\ mcall[i].until >= mnow =>
            mediaRow[Tok(i)] # NoMedia /\ object[Tok(i)] # NoFile

\* What is stored is what was hashed: unless two uploads of the token were at
\* work at once, the object under a row has the hash and size in the row, also
\* after uploads that were cut and left a partial file behind.
StoredAsRecorded ==
    \A t \in MCalls :
        mediaRow[t] # NoMedia /\ object[t] # NoFile /\ rivals[t] <= 1 =>
            content[object[t]] = mediaRow[t].hash /\ BytesOf(content[object[t]]) = mediaRow[t].size

\* No object without a row: a sweep deletes the row only after the object, and
\* an upload that fails takes its object along; only an upload at work, or one
\* cut between the rename and the insert, has an object and no row.
NoStrayObject ==
    \A t \in MCalls :
        object[t] # NoFile /\ mediaRow[t] = NoMedia =>
            t \in stranded \/ \E i \in Uploads(t) : Renamed(i)

\* A download that ran to its end gave the whole object, as the row promised,
\* although the object may have been swept meanwhile (the open file stays).
DownloadWhole ==
    \A i \in MCalls :
        MC(i).kind = "download" /\ MAt(i, "done") /\ rivals[Tok(i)] <= 1 =>
            mcall[i].sum = content[mcall[i].file] /\ mcall[i].sum # <<>>

\* Row and object agree, however uploads of one token overlap, fail and die under
\* the sweep: a token stores one object, which is there as long as its row, is what
\* the row says, and is read whole.
StoreConsistent == TokenUsedOnce /\ AnsweredIsKept /\ StoredAsRecorded /\ NoStrayObject /\ DownloadWhole

\* The sweep gets there: once the clients are done, no expired row is left and no
\* partial file that nobody has written for an hour, although single removals fail
\* on the way.
SweptEventually ==
    <>[](\A t \in MCalls : (mediaRow[t] # NoMedia => Readable(t)) /\ ~Orphaned(t))
=============================================================================
