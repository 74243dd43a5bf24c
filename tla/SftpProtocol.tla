----------------------------- MODULE SftpProtocol -----------------------------
(***************************************************************************)
(* The wire format of SFTP version 3 (src-tauri/src/sftp/protocol.rs) and  *)
(* what the client takes for an answer to which request                    *)
(* (src-tauri/src/sftp/client.rs).                                         *)
(*                                                                         *)
(* A packet is the sequence of its fields: an integer is one word, however *)
(* wide, and so is a string.  Flags are the set of their bits.             *)
(*                                                                         *)
(* A definition whose comment begins "Mutant" is not part of the           *)
(* specification.                                                          *)
(***************************************************************************)
EXTENDS Integers, Sequences, SequencesExt

None == "none"
Field(flag) == CASE flag = "SIZE" -> <<"size">>
                 [] flag = "UIDGID" -> <<"uid", "gid">>
                 [] flag = "PERMISSIONS" -> <<"permissions">>
                 [] flag = "ACMODTIME" -> <<"atime", "mtime">>
AttrFields == {"size", "uid", "gid", "permissions", "atime", "mtime"}
NoAttrs == [f \in AttrFields |-> None]

\* The fields behind the flags, in the order they are on the wire.
FieldsOf(flags) ==
  LET FieldIf(flag) == IF flag \in flags THEN Field(flag) ELSE <<>>
  IN FieldIf("SIZE") \o FieldIf("UIDGID") \o FieldIf("PERMISSIONS") \o FieldIf("ACMODTIME")

\* What can be sent of attributes: an owner only with a group, and a lone time
\* for both.
Sendable(a) ==
  [a EXCEPT !.uid = IF a.gid = None THEN None ELSE @,
            !.gid = IF a.uid = None THEN None ELSE @,
            !.atime = IF @ = None THEN a.mtime ELSE @,
            !.mtime = IF @ = None THEN a.atime ELSE @]

FlagsOf(a) == {flag \in {"SIZE", "UIDGID", "PERMISSIONS", "ACMODTIME"} :
                 \E i \in DOMAIN Field(flag) : a[Field(flag)[i]] # None}

\* Encoder::attrs
Encoded(a) ==
  LET fields == FieldsOf(FlagsOf(Sendable(a)))
  IN <<FlagsOf(Sendable(a))>> \o [i \in DOMAIN fields |-> Sendable(a)[fields[i]]]

Truncated == [ok |-> FALSE, attrs |-> NoAttrs, rest |-> <<>>]
\* Decoder::attrs: the attributes and the rest of the packet; extensions (a
\* count, then names and data) are passed over.
Decoded(words) ==
  LET flags == Head(words)
      fields == FieldsOf(flags)
      after == Len(fields) + 1
      extra == IF "EXTENDED" \notin flags THEN 0
               ELSE IF Len(words) > after THEN 1 + 2 * words[after + 1] ELSE 1
  IN IF words = <<>> \/ Len(words) < after + extra THEN Truncated
     ELSE [ok |-> TRUE,
           attrs |-> [f \in AttrFields |->
                        IF f \in ToSet(fields)
                        THEN words[1 + CHOOSE i \in DOMAIN fields : fields[i] = f] ELSE None],
           rest |-> SubSeq(words, after + extra + 1, Len(words))]

\* What the client is sent comes back as it was, whatever follows it in the
\* packet; cut short anywhere it is refused and never half read.
AttrsSurvive(a, rest, extensions) ==
  LET sent == Encoded(a)
      packet == IF extensions = 0 THEN sent \o rest
                ELSE <<Head(sent) \cup {"EXTENDED"}>> \o Tail(sent)
                     \o <<extensions>> \o [i \in 1 .. 2 * extensions |-> "extra"] \o rest
  IN /\ Decoded(packet) = [ok |-> TRUE, attrs |-> Sendable(a), rest |-> rest]
     /\ \A n \in 0 .. Len(packet) - Len(rest) - 1 : ~Decoded(SubSeq(packet, 1, n)).ok
     /\ \A f \in AttrFields \ {"uid", "gid"} : a[f] # None => Sendable(a)[f] = a[f]
-----------------------------------------------------------------------------
(* Replies: a body is its type, its id and its fields.                     *)

Reply(kind, value) == [kind |-> kind, value |-> value]
Status(code) == Reply("STATUS", code)
Malformed == Reply("MALFORMED", "")
Is(reply, code) == reply.kind = "STATUS" /\ reply.value = code

\* status_error, as far as callers tell errors apart
ErrorKind(code) ==
  CASE code = "EOF" -> "UnexpectedEof"
    [] code \in {"NO_SUCH_FILE", "NO_SUCH_PATH", "NO_MEDIA"} -> "NotFound"
    [] code = "PERMISSION_DENIED" -> "PermissionDenied"
    [] code \in {"NO_CONNECTION", "CONNECTION_LOST"} -> "ConnectionAborted"
    [] code = "OP_UNSUPPORTED" -> "Unsupported"
    [] code = "FILE_ALREADY_EXISTS" -> "AlreadyExists"
    [] code = "DIR_NOT_EMPTY" -> "DirectoryNotEmpty"
    [] code = "NOT_A_DIRECTORY" -> "NotADirectory"
    [] code = "FILE_IS_A_DIRECTORY" -> "IsADirectory"
    [] code = "BAD_MESSAGE" -> "InvalidData"
    [] code \in {"INVALID_HANDLE", "INVALID_FILENAME"} -> "InvalidInput"
    [] OTHER -> "Other"

\* What each request takes for its answer (status, handle, attrs, single_name,
\* readdir, read).
Wanted(request) ==
  CASE request \in {"stat", "lstat", "fstat"} -> "ATTRS"
    [] request \in {"realpath", "readlink", "expand-path", "readdir"} -> "NAME"
    [] request \in {"open", "opendir"} -> "HANDLE"
    [] request = "read" -> "DATA"
    [] request = "limits" -> "EXTENDED_REPLY"
    [] OTHER -> "STATUS"

\* A success is an error of no kind to what wants more than a success.
Outcome(request, reply) ==
  CASE Is(reply, "EOF") /\ request \in {"readdir", "read"} -> "end"
    [] Is(reply, "OK") /\ Wanted(request) = "STATUS" -> "ok"
    [] reply.kind = "STATUS" /\ ~(Is(reply, "OK") /\ Wanted(request) = "STATUS")
         /\ ~(Is(reply, "EOF") /\ request \in {"readdir", "read"}) -> ErrorKind(reply.value)
    [] reply.kind = Wanted(request) /\ reply.kind # "STATUS"
         /\ (reply.kind = "NAME" /\ request # "readdir" => reply.value # "nothing") -> "ok"
    [] OTHER -> "InvalidData"

\* A name a folder entry can have.
IsChildName(name) == name \notin {"", ".", "..", "with/slash"}
=============================================================================
