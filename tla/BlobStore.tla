----------------------------- MODULE BlobStore ------------------------------
(***************************************************************************)
(* Chunked uploads into the workspace (espclaw_workspace_blob_* in         *)
(* workspace.c and their HTTP handlers in admin_server.c): begin creates a *)
(* staging file and its metadata, append adds the body of a request to it, *)
(* commit moves it to its target.  The server handles one request at a     *)
(* time; a step is one call that changes a file, so that power may fail    *)
(* between any two of them.                                                *)
(*                                                                         *)
(* Abstractions.  Every client keeps to the default target of its blob.    *)
(* Bytes are numbered in the order in which clients send them.  Requests   *)
(* that fail before they change a file are left out.  A write that power   *)
(* cut short is one that wrote fewer bytes.                                *)
(***************************************************************************)
EXTENDS Naturals, Sequences, SequencesExt

CONSTANTS
  Blobs,
  MaxBody,    \* bytes in the body of an append request, at most
  RecvMax,    \* bytes httpd_req_recv returns at most (2048 in the code)
  MaxBytes,   \* bound: bytes sent in a behaviour
  MaxFaults,  \* bound: power failures and failed file operations
  Absent      \* a file that does not exist

\* What read_blob_meta finds: a metadata file that was truncated and not yet
\* written names no target.
Metas == [named : BOOLEAN, bytes : Nat]
Torn == [named |-> FALSE, bytes |-> 0]

ASSUME BlobAssumption ==
  /\ MaxBody \in Nat \ {0} /\ RecvMax \in Nat \ {0}
  /\ MaxBytes \in Nat /\ MaxFaults \in Nat
  /\ Absent \notin Seq(Nat) /\ Absent \notin Metas

VARIABLES
  part,    \* blob -> blobs/.staging/<id>.part
  smeta,   \* blob -> blobs/.staging/<id>.meta
  cmeta,   \* blob -> blobs/<id>.meta
  file,    \* blob -> the target
  req,     \* the request being handled
  session, \* blob -> what its client was told (history)
  acked,   \* blob -> the bytes of the upload that were stored and acknowledged (history)
  begun,   \* blob -> the bytes sent before its last begin (history)
  sent,    \* bytes sent so far
  faults

files == <<part, smeta, cmeta, file>>
blobVars == <<part, smeta, cmeta, file, req, session, acked, begun, sent, faults>>

Idle == [pc |-> "idle"]

\* The request goes on at pc; it is answered, and its client knows of it.
Goto(pc) == req' = [req EXCEPT !.pc = pc]
Told(b, s) == req' = Idle /\ session' = [session EXCEPT ![b] = s]
-----------------------------------------------------------------------------
(* POST /api/blobs/begin                                                   *)

\* Mutants of BeginTruncate: the staging file is opened to append; the count of
\* an earlier upload is kept.
BeginTruncate_Appends(b) ==
  /\ req.pc = "idle"
  /\ part' = [part EXCEPT ![b] = IF @ = Absent THEN <<>> ELSE @]
  /\ req' = [pc |-> "beginUnlink", blob |-> b, meta |-> [named |-> TRUE, bytes |-> 0]]
  /\ session' = [session EXCEPT ![b] = "none"]
  /\ acked' = [acked EXCEPT ![b] = {}] /\ begun' = [begun EXCEPT ![b] = sent]
  /\ UNCHANGED <<smeta, cmeta, file, sent, faults>>

BeginTruncate_KeepsCount(b) ==
  /\ req.pc = "idle"
  /\ part' = [part EXCEPT ![b] = <<>>]
  /\ req' = [pc |-> "beginUnlink", blob |-> b,
             meta |-> IF smeta[b] = Absent THEN [named |-> TRUE, bytes |-> 0] ELSE smeta[b]]
  /\ session' = [session EXCEPT ![b] = "none"]
  /\ acked' = [acked EXCEPT ![b] = {}] /\ begun' = [begun EXCEPT ![b] = sent]
  /\ UNCHANGED <<smeta, cmeta, file, sent, faults>>

\* fopen(data, "wb")
BeginTruncate(b) ==
  /\ req.pc = "idle"
  /\ part' = [part EXCEPT ![b] = <<>>]
  /\ req' = [pc |-> "beginUnlink", blob |-> b, meta |-> [named |-> TRUE, bytes |-> 0]]
  /\ session' = [session EXCEPT ![b] = "none"]
  /\ acked' = [acked EXCEPT ![b] = {}] /\ begun' = [begun EXCEPT ![b] = sent]
  /\ UNCHANGED <<smeta, cmeta, file, sent, faults>>

BeginUnlink ==
  /\ req.pc = "beginUnlink"
  /\ smeta' = [smeta EXCEPT ![req.blob] = Absent]
  /\ Goto("beginOpen")
  /\ UNCHANGED <<part, cmeta, file, session, acked, begun, sent, faults>>

\* write_blob_meta: fopen(meta, "w"), then the text and fclose.
BeginOpen ==
  /\ req.pc = "beginOpen"
  /\ smeta' = [smeta EXCEPT ![req.blob] = Torn]
  /\ Goto("beginWrite")
  /\ UNCHANGED <<part, cmeta, file, session, acked, begun, sent, faults>>

BeginWrite ==
  /\ req.pc = "beginWrite"
  /\ smeta' = [smeta EXCEPT ![req.blob] = req.meta]
  /\ Told(req.blob, "open")
  /\ UNCHANGED <<part, cmeta, file, acked, begun, sent, faults>>
-----------------------------------------------------------------------------
(* POST /api/blobs/append                                                  *)

\* A request with a body of len bytes, for an upload that a client began and
\* has not asked to commit; counted is the bytes_written of
\* blob_append_post_handler.
AppendBegin(b, len) ==
  /\ req.pc = "idle"
  /\ session[b] = "open" /\ smeta[b] # Absent
  /\ sent + len <= MaxBytes
  /\ sent' = sent + len
  /\ req' = [pc |-> "recv", blob |-> b, first |-> sent + 1, len |-> len, stored |-> 0, counted |-> 0]
  /\ UNCHANGED <<files, session, acked, begun, faults>>

\* The next n bytes of the body.
Body(n) == [i \in 1 .. n |-> req.first + req.stored + i - 1]

\* The bytes one call of httpd_req_recv may return.
Received == {n \in 1 .. RecvMax : n <= req.len - req.counted}

\* Mutant of AppendData: the staging file is opened with "wb".
AppendData_Truncates ==
  /\ req.pc = "recv"
  /\ \E n \in Received :
       /\ part' = [part EXCEPT ![req.blob] = Body(n)]
       /\ req' = [pc |-> "appendOpen", blob |-> req.blob, first |-> req.first, len |-> req.len,
                  stored |-> req.stored + n, counted |-> req.counted,
                  meta |-> [smeta[req.blob] EXCEPT !.bytes = @ + n]]
  /\ UNCHANGED <<smeta, cmeta, file, session, acked, begun, sent, faults>>

\* httpd_req_recv, then espclaw_workspace_blob_append up to fclose(data).
AppendData ==
  /\ req.pc = "recv"
  /\ \E n \in Received :
       /\ part' = [part EXCEPT ![req.blob] = IF @ = Absent THEN Body(n) ELSE @ \o Body(n)]
       /\ req' = [pc |-> "appendOpen", blob |-> req.blob, first |-> req.first, len |-> req.len,
                  stored |-> req.stored + n, counted |-> req.counted,
                  meta |-> [smeta[req.blob] EXCEPT !.bytes = @ + n]]
  /\ UNCHANGED <<smeta, cmeta, file, session, acked, begun, sent, faults>>

AppendOpen ==
  /\ req.pc = "appendOpen"
  /\ smeta' = [smeta EXCEPT ![req.blob] = Torn]
  /\ Goto("appendWrite")
  /\ UNCHANGED <<part, cmeta, file, session, acked, begun, sent, faults>>

\* The new metadata; the handler counts the bytes of the whole upload against
\* the length of this request, and answers or receives more.
AppendWrite ==
  /\ req.pc = "appendWrite"
  /\ smeta' = [smeta EXCEPT ![req.blob] = req.meta]
  /\ IF req.meta.bytes < req.len
       THEN /\ req' = [pc |-> "recv", blob |-> req.blob, first |-> req.first, len |-> req.len,
                       stored |-> req.stored, counted |-> req.meta.bytes]
            /\ UNCHANGED acked
       ELSE /\ req' = Idle
            /\ acked' = [acked EXCEPT ![req.blob] = @ \cup (req.first .. req.first + req.stored - 1)]
  /\ UNCHANGED <<part, cmeta, file, session, begun, sent, faults>>
-----------------------------------------------------------------------------
(* POST /api/blobs/commit                                                  *)

\* read_blob_meta and stat, then unlink(target).  A commit of an upload that
\* names no target fails at the rename to a directory, having changed nothing.
CommitUnlink(b) ==
  /\ req.pc = "idle"
  /\ smeta[b] # Absent /\ smeta[b].named
  /\ req' = [pc |-> "rename", blob |-> b,
             meta |-> IF part[b] = Absent THEN smeta[b] ELSE [smeta[b] EXCEPT !.bytes = Len(part[b])]]
  /\ file' = [file EXCEPT ![b] = Absent]
  /\ session' = [session EXCEPT ![b] = IF @ = "committed" THEN @ ELSE "committing"]
  /\ UNCHANGED <<part, smeta, cmeta, acked, begun, sent, faults>>

CommitRename ==
  /\ req.pc = "rename"
  /\ part[req.blob] # Absent
  /\ file' = [file EXCEPT ![req.blob] = part[req.blob]]
  /\ part' = [part EXCEPT ![req.blob] = Absent]
  /\ Goto("commitOpen")
  /\ UNCHANGED <<smeta, cmeta, session, acked, begun, sent, faults>>

\* There is nothing to rename: the request fails.
CommitRenameFails ==
  /\ req.pc = "rename"
  /\ part[req.blob] = Absent
  /\ req' = Idle
  /\ UNCHANGED <<files, session, acked, begun, sent, faults>>

CommitOpen ==
  /\ req.pc = "commitOpen"
  /\ cmeta' = [cmeta EXCEPT ![req.blob] = Torn]
  /\ Goto("commitWrite")
  /\ UNCHANGED <<part, smeta, file, session, acked, begun, sent, faults>>

CommitWrite ==
  /\ req.pc = "commitWrite"
  /\ cmeta' = [cmeta EXCEPT ![req.blob] = req.meta]
  /\ Goto("unstage")
  /\ UNCHANGED <<part, smeta, file, session, acked, begun, sent, faults>>

\* Mutant of CommitUnstage: the staging metadata stays.
CommitUnstage_KeepsMeta ==
  /\ req.pc = "unstage"
  /\ Told(req.blob, "committed")
  /\ UNCHANGED <<files, acked, begun, sent, faults>>

CommitUnstage ==
  /\ req.pc = "unstage"
  /\ smeta' = [smeta EXCEPT ![req.blob] = Absent]
  /\ Told(req.blob, "committed")
  /\ UNCHANGED <<part, cmeta, file, acked, begun, sent, faults>>
-----------------------------------------------------------------------------
(* What can go wrong.                                                      *)

\* Power fails: the files stay as they are, the request is never answered.
Crash ==
  /\ req.pc # "idle" /\ faults < MaxFaults
  /\ faults' = faults + 1
  /\ req' = Idle
  /\ UNCHANGED <<files, session, acked, begun, sent>>

\* A full disk: fwrite stores the first n bytes only and the request fails.
AppendShort ==
  /\ req.pc = "recv" /\ faults < MaxFaults
  /\ faults' = faults + 1
  /\ \E m \in Received : \E n \in 0 .. m - 1 :
       part' = [part EXCEPT ![req.blob] = IF @ = Absent THEN Body(n) ELSE @ \o Body(n)]
  /\ req' = Idle
  /\ UNCHANGED <<smeta, cmeta, file, session, acked, begun, sent>>

BlobInit ==
  /\ part = [b \in Blobs |-> Absent] /\ smeta = part /\ cmeta = part /\ file = part
  /\ req = Idle
  /\ session = [b \in Blobs |-> "none"]
  /\ acked = [b \in Blobs |-> {}] /\ begun = [b \in Blobs |-> 0]
  /\ sent = 0 /\ faults = 0

BlobNext ==
  \/ \E b \in Blobs : BeginTruncate(b) \/ CommitUnlink(b) \/ \E len \in 1 .. MaxBody : AppendBegin(b, len)
  \/ BeginUnlink \/ BeginOpen \/ BeginWrite
  \/ AppendData \/ AppendOpen \/ AppendWrite
  \/ CommitRename \/ CommitRenameFails \/ CommitOpen \/ CommitWrite \/ CommitUnstage
  \/ Crash \/ AppendShort

BlobSpec == BlobInit /\ [][BlobNext]_blobVars
-----------------------------------------------------------------------------
(* espclaw_workspace_blob_status                                           *)

Stage(b) ==
  IF cmeta[b] # Absent THEN "committed" ELSE IF smeta[b] # Absent THEN "open" ELSE "none"
-----------------------------------------------------------------------------
(* Properties.                                                             *)

Stored(f) == IF f = Absent THEN {} ELSE ToSet(f)

\* The staging file holds bytes in the order they were sent, none twice, and
\* none of an upload before the last begin: this survives power failures in the
\* middle of any request.
UploadInOrder ==
  \A b \in Blobs : part[b] # Absent =>
    /\ \A i, j \in DOMAIN part[b] : i < j => part[b][i] < part[b][j]
    /\ \A i \in DOMAIN part[b] : begun[b] < part[b][i]

\* The metadata of an upload never counts a byte that is not in the staging
\* file, since the data is closed before the metadata is rewritten.
MetaNeverAhead ==
  \A b \in Blobs : session[b] = "open" /\ smeta[b] # Absent => smeta[b].bytes <= Len(part[b])

\* Every byte that was stored for an append request answered with success is in
\* the staging file until the upload is committed.
AckedBytesStaged ==
  \A b \in Blobs : session[b] = "open" => acked[b] \subseteq Stored(part[b])

\* An append is answered with success only when its whole body was stored.
AppendStoresBody ==
  [][req.pc = "appendWrite" /\ acked' # acked => req.stored = req.len]_blobVars

\* A commit that was answered stays: the target holds the upload and a commit
\* sent again finds nothing staged to do harm with, through any power failure,
\* until the next begin or append.
AckedCommitStays ==
  \A b \in Blobs : session[b] = "committed" => acked[b] \subseteq Stored(file[b]) /\ Stage(b) = "committed"
=============================================================================
