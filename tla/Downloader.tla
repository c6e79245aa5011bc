------------------------------ MODULE Downloader ------------------------------
(***************************************************************************)
(* Downloader.download of otaclient_common/downloader.py: one file that    *)
(* arrives in chunks through an otaproxy, its retry with retry_caching,    *)
(* and the retries around it (_download_one, download_resumable and the    *)
(* retrying pool).  A chunk is "good" when its bytes are the file's at     *)
(* that place, "bad" otherwise.                                            *)
(***************************************************************************)
EXTENDS Naturals, Sequences, SequencesExt

CONSTANTS
    Size,       \* chunks of the file
    MaxFaults   \* bound on what goes wrong between the ECU and the server

VARIABLES
    kind,       \* DownloadInfo: "resume", "plain", or "zst", decompressed
    given,      \* which of size and digest it has
    dst,        \* the chunks at <dst>
    hashed,     \* the chunks that digestobj was fed
    received,   \* downloaded_file_size, in chunks
    dl,         \* where download is
    resume_from, resumed, caching, second,
                \* of the request: the offset, whether it was honoured, the
                \* retry_caching header, the retry of the wrapper
    start,      \* where in the file the body starts
    cache,      \* the proxy's copy: "good", "bad"
    rejected,   \* history: the chunks at <dst> hashed wrong
    faults

info == <<kind, given>>
req_vars == <<resume_from, resumed, caching, second, start>>
dlr_vars == <<info, dst, hashed, received, dl, req_vars, cache, rejected, faults>>

Whole == [i \in 1..Size |-> "good"]

DownloaderInit ==
    /\ kind \in {"resume", "plain", "zst"}
    /\ given \in IF kind = "plain" THEN {{}, {"digest"}, {"size", "digest"}}
                 ELSE {{"size", "digest"}}
    /\ dst \in IF kind = "resume"     \* what an earlier update left there
               THEN UNION {[1..n -> {"good", "bad"}] : n \in 0..Size}
               ELSE {<<>>}
    /\ dl = "idle" /\ resume_from = 0 /\ hashed = <<>> /\ received = 0
    /\ resumed = FALSE /\ caching = FALSE /\ second = FALSE
    /\ start = 0
    /\ cache \in {"good", "bad"} /\ rejected = FALSE /\ faults = 0

Fault == faults < MaxFaults /\ faults' = faults + 1

\* resumable_bytes: the length, when it can be that of a prefix
ResumableBytes == IF Len(dst) \in 1..Size - 1 THEN Len(dst) ELSE 0

Emptied(new) == new = <<>>

\* _hash_existing, before the request is made
HashExisting(file, from) == hashed' = SubSeq(file, 1, from)

\* _download_one, download_resumable: what is no prefix is removed.
DownloadOne ==
    /\ dl = "idle"
    /\ resume_from' = IF kind = "resume" THEN ResumableBytes ELSE 0
    /\ dst' = IF kind = "resume" /\ ResumableBytes = 0 THEN <<>> ELSE dst
    /\ rejected' = (rejected /\ ~Emptied(dst'))
    /\ HashExisting(dst', resume_from')
    /\ caching' = FALSE /\ second' = FALSE /\ dl' = "request"
    /\ UNCHANGED <<info, received, resumed, start, cache, faults>>

\* inject_cache_retry_directory: otaproxy fetches the file again.
Cached == IF caching THEN "good" ELSE cache

\* _range_honoured: a 206 that starts where it was asked to
RangeHonoured(status, from) ==
    resume_from > 0 /\ status = 206 /\ from = resume_from

\* The answer: the file is truncated to the part it continues, or to nothing,
\* and then so is what was hashed.  A 206 from elsewhere is read as the whole
\* file.
Respond(status, from) ==
    /\ dl = "request"
    /\ cache' = Cached
    /\ resumed' = RangeHonoured(status, from)
    /\ hashed' = IF resumed' THEN hashed ELSE <<>>
    /\ dst' = IF resumed' THEN SubSeq(dst, 1, resume_from) ELSE <<>>
    /\ rejected' = (rejected /\ ~Emptied(dst'))
    /\ start' = from /\ received' = 0
    /\ UNCHANGED <<info, resume_from, caching, second>>

Answer ==
    /\ \/ resume_from > 0 /\ Respond(206, resume_from) /\ UNCHANGED faults
       \/ Respond(200, 0) /\ UNCHANGED faults   \* Range may be ignored
       \/ resume_from > 0 /\ Fault /\ \E o \in 1..Size - 1 : Respond(206, o)
    /\ dl' = "body"

\* Mutation: a retry of bytes that hashed wrong keeps its offset.
KeepResumeFrom(e) ==
    IF e = "partial" /\ kind # "zst" THEN ResumableBytes
    ELSE IF resumed THEN resume_from ELSE 0

\* The offset of the retry: a download cut short is continued.
RetryFrom(e) == IF e = "partial" /\ kind # "zst" THEN ResumableBytes ELSE 0

\* inject_cache_retry_directory
RetryCaching == caching' = TRUE

\* retry_on_digest_mismatch tries once more; then download_resumable removes
\* what hashed wrong and leaves the rest for the pool's retry.
Raise(e) ==
    IF ~second
    THEN /\ second' = TRUE /\ RetryCaching
         /\ resume_from' = RetryFrom(e)
         /\ HashExisting(dst, resume_from')
         /\ dl' = "request" /\ rejected' = (rejected \/ e = "hash")
         /\ UNCHANGED <<info, dst, received, resumed, start, cache, faults>>
    ELSE /\ dl' = "idle"
         /\ dst' = IF e \in {"hash", "policy"} /\ kind = "resume"
                   THEN <<>> ELSE dst
         /\ rejected' = ((rejected \/ e = "hash") /\ ~Emptied(dst'))
         /\ UNCHANGED <<info, hashed, received, req_vars, cache, faults>>

\* check_cache_policy_in_resp: the digest of the proxy's copy is another's.
CheckCachePolicyInResp ==
    /\ dl = "body" /\ received = 0 /\ cache = "bad" /\ "digest" \in given
    /\ Raise("policy")

\* The body goes on to the file's end.
BodyGoesOn == start + received < Size

\* One chunk; a body that goes on after the file's end is a fault.
Chunk ==
    /\ dl = "body"
    /\ IF BodyGoesOn THEN UNCHANGED faults
       ELSE start + received = Size /\ Fault
    /\ LET chunk == IF cache = "good" /\ BodyGoesOn /\ start + received = Len(dst)
                    THEN "good" ELSE "bad"
       IN  hashed' = Append(hashed, chunk) /\ dst' = Append(dst, chunk)
    /\ received' = received + 1
    /\ UNCHANGED <<info, dl, req_vars, cache, rejected>>

\* What is on disk, by what was counted
FileSize == received + IF resumed THEN resume_from ELSE 0

Verify ==
    CASE "size" \in given /\ FileSize # Size -> Raise("partial")
      [] ~("size" \in given /\ FileSize # Size)
         /\ "digest" \in given /\ hashed # Whole -> Raise("hash")
      [] OTHER -> /\ dl' = "ok"
                  /\ UNCHANGED <<info, dst, hashed, received, req_vars, cache,
                                 rejected, faults>>

EndOfBody == dl = "body" /\ ~BodyGoesOn /\ Verify

\* An otaproxy ends the response when the remote stalls.
CutShort ==
    /\ dl = "body" /\ BodyGoesOn /\ Fault
    /\ dl' = "cut"
    /\ UNCHANGED <<info, dst, hashed, received, req_vars, cache, rejected>>

AfterCut == dl = "cut" /\ Verify

\* BrokenDecompressionError: the stream was cut, or is not what it should be.
BrokenDecompression ==
    /\ kind = "zst"
    /\ dl = "cut" \/ (dl = "body" /\ cache = "bad")
    /\ Raise("decompression")

\* The connection fails, the request times out or the process ends: no
\* exception of download's own, <dst> stays as it is.
Interrupted ==
    /\ dl \in {"request", "body"} /\ Fault
    /\ dl' = "idle"
    /\ UNCHANGED <<info, dst, hashed, received, req_vars, cache, rejected>>

Downloaded == dl = "ok" /\ UNCHANGED dlr_vars

DownloaderNext ==
    \/ DownloadOne \/ Answer \/ CheckCachePolicyInResp \/ Chunk \/ EndOfBody
    \/ CutShort \/ AfterCut \/ BrokenDecompression \/ Interrupted
    \/ Downloaded

===============================================================================
