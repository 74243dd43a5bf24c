------------------------------ MODULE VfsPaths ------------------------------
(***************************************************************************)
(* Provider-native paths and names (src-tauri/src/vfs/path.rs).            *)
(*                                                                         *)
(* A text is the sequence of its characters.  "con" stands for any device  *)
(* name of Windows in any case, "bad" for what the other flavor cannot     *)
(* spell (a byte that is not UTF-8, half a surrogate pair), "repl" for the *)
(* replacement character it becomes.  No path or name is empty, so None is *)
(* the empty text.                                                         *)
(***************************************************************************)
EXTENDS Naturals, Sequences, SequencesExt, FiniteSets, TLC

None == <<>>
Native(text) == [flavor |-> "native", text |-> text]
Posix(text) == [flavor |-> "posix", text |-> text]

Dot == <<".">>
DotDot == <<".", ".">>
Slash == <<"/">>

Split(text, separators) ==
  FoldLeft(LAMBDA parts, c : IF c \in separators
                               THEN Append(parts, <<>>)
                               ELSE [parts EXCEPT ![Len(parts)] = Append(@, c)],
           << <<>> >>, text)

-----------------------------------------------------------------------------
(* Remote paths: POSIX bytes.                                              *)

PosixComponents(path) ==
  SelectSeq(Split(path, {"/"}), LAMBDA part : part \notin {<<>>, Dot})

TrimTrailingSlashes(path) ==
  IF path # <<>> /\ ToSet(path) = {"/"}
    THEN Slash
    ELSE SubSeq(path, 1, SelectLastInSeq(path, LAMBDA c : c # "/"))

LastSlash(path) == SelectLastInSeq(path, LAMBDA c : c = "/")

PosixFileName(path) ==
  LET trimmed == TrimTrailingSlashes(path)
      name == SubSeq(trimmed, LastSlash(trimmed) + 1, Len(trimmed))
  IN IF name \in {Dot, DotDot} THEN None ELSE name

PosixParent(path) ==
  LET trimmed == TrimTrailingSlashes(path)
      slash == LastSlash(trimmed)
  IN CASE trimmed = Slash \/ slash = 0 -> None
       [] slash = 1 -> Slash
       [] OTHER -> TrimTrailingSlashes(SubSeq(trimmed, 1, slash - 1))

IsPosixName(name) ==
  name \notin {None, Dot, DotDot} /\ {"/", "nul"} \cap ToSet(name) = {}

JoinPosix(path, name) ==
  CASE ~IsPosixName(name) -> None
    [] path = <<>> \/ Last(path) = "/" -> path \o name
    [] OTHER -> path \o Slash \o name

-----------------------------------------------------------------------------
(* Paths of this machine.                                                  *)

Separators(build) == IF build = "windows" THEN {"/", "\\"} ELSE {"/"}
MainSeparator(build) == IF build = "windows" THEN <<"\\">> ELSE Slash

\* std::path: a drive ("a:") is a prefix on Windows; "." counts only in front.
HasPrefix(text, build) ==
  build = "windows" /\ Len(text) >= 2 /\ text[1] \in {"a", "A"} /\ text[2] = ":"

NativeComponents(text, build) ==
  LET parts == Split(text, Separators(build))
      rest == SelectSeq(Tail(parts), LAMBDA part : part \notin {<<>>, Dot})
  IN <<IF Head(parts) = <<>> THEN Slash ELSE Head(parts)>> \o rest

IsNativeName(name, build) ==
  /\ name # None
  /\ ~HasPrefix(name, build)
  /\ Head(name) \notin Separators(build)
  /\ Len(NativeComponents(name, build)) = 1
  /\ Head(NativeComponents(name, build)) \notin {Dot, DotDot}
  /\ Last(name) \notin Separators(build)

JoinNative(path, name, build) ==
  CASE ~IsNativeName(name, build) -> None
    [] Last(path) \in Separators(build) -> path \o name
    [] OTHER -> path \o MainSeparator(build) \o name

-----------------------------------------------------------------------------
(* A name of one flavor in the other: untouched on Unix, readable on Windows. *)

Readable(text) == [i \in DOMAIN text |-> IF text[i] = "bad" THEN "repl" ELSE text[i]]

ToNative(name, build) ==
  IF name.flavor = "posix" /\ build = "windows" THEN Readable(name.text) ELSE name.text

ToPosix(name, build) ==
  IF name.flavor = "native" /\ build = "windows" THEN Readable(name.text) ELSE name.text

\* VPath::join; None when the name is no single plain component there.
Join(path, name, build) ==
  IF path.flavor = "native"
    THEN Native(JoinNative(path.text, ToNative(name, build), build))
    ELSE Posix(JoinPosix(path.text, ToPosix(name, build)))

Components(path, build) ==
  IF path.flavor = "native" THEN NativeComponents(path.text, build)
                            ELSE PosixComponents(path.text)

StartsWith(path, base, build) ==
  /\ path.flavor = base.flavor
  /\ IsPrefix(Components(base, build), Components(path, build))

-----------------------------------------------------------------------------
(* Names Windows cannot store.                                             *)

Forbidden == {"<", ">", ":", "\"", "/", "\\", "|", "?", "*", "control"}

UpToDot(text) ==
  LET dot == SelectInSeq(text, LAMBDA c : c = ".")
  IN IF dot = 0 THEN text ELSE SubSeq(text, 1, dot - 1)

TrimEndSpaces(text) == SubSeq(text, 1, SelectLastInSeq(text, LAMBDA c : c # " "))

NamesDevice(text) == TrimEndSpaces(UpToDot(text)) = <<"con">>

\* Mutant of WindowsSafeName: the device is looked for in the whole name.
WindowsSafeWhole(name) ==
  LET plain == [i \in DOMAIN name |-> IF name[i] \in Forbidden THEN "_" ELSE name[i]]
      ended == IF Last(plain) \in {".", " "} THEN Append(plain, "_") ELSE plain
      safe == IF ended = <<"con">> THEN <<"con", "_">> ELSE ended
  IN IF safe = name THEN None ELSE safe

\* windows_safe_name: `None` is for the name that is fine as it is.
WindowsSafeName(name) ==
  LET plain == [i \in DOMAIN name |-> IF name[i] \in Forbidden THEN "_" ELSE name[i]]
      ended == IF Last(plain) \in {".", " "} THEN Append(plain, "_") ELSE plain
      stem == UpToDot(ended)
      safe == IF NamesDevice(ended)
                THEN Append(stem, "_") \o SubSeq(ended, Len(stem) + 1, Len(ended))
                ELSE ended
  IN IF safe = name THEN None ELSE safe

StorableHere(name, build) ==
  LET readable == Readable(name.text)
  IN CASE build # "windows" -> None
       [] WindowsSafeName(readable) # None -> WindowsSafeName(readable)
       [] name.flavor = "posix" /\ readable # name.text -> readable
       [] OTHER -> None

\* with_suffix, and with_copy_suffix: before the extension, if the name has
\* one and is readable ("?" alone would be fine, what stands for it is not).
WithSuffix(text, suffix) == Append(text, suffix)
WithCopySuffix(text, number) ==
  LET suffix == "(copy " \o ToString(number) \o ")"
      dot == SelectLastInSeq(text, LAMBDA c : c = ".")
  IN IF "bad" \in ToSet(text) \/ dot <= 1
       THEN Append(text, suffix)
       ELSE SubSeq(text, 1, dot - 1) \o <<suffix>> \o SubSeq(text, dot, Len(text))

-----------------------------------------------------------------------------
(* Tokens: the path's units behind a prefix that names their encoding;     *)
(* Windows stores a unit as two bytes.  Base64 around them is one to one.  *)

NativePrefix(build) == IF build = "windows" THEN "w:" ELSE "u:"

EncodeNative(text, build) ==
  IF build = "windows"
    THEN [k \in 1 .. 2 * Len(text) |-> <<text[(k + 1) \div 2], k % 2>>]
    ELSE text

DecodeNative(bytes, build) ==
  CASE build # "windows" -> bytes
    [] Len(bytes) % 2 # 0 -> None
    [] OTHER -> [k \in 1 .. Len(bytes) \div 2 |-> bytes[2 * k - 1][1]]

ToToken(path, build) ==
  IF path.flavor = "native" THEN <<NativePrefix(build), EncodeNative(path.text, build)>>
                            ELSE <<"p:", path.text>>

FromToken(token, build) ==
  CASE token[1] = NativePrefix(build) -> Native(DecodeNative(token[2], build))
    [] token[1] = "p:" -> Posix(token[2])
    [] OTHER -> Posix(None)

-----------------------------------------------------------------------------
(* What the names' operations promise one another.                         *)

ComesApart(base, name) ==
  LET joined == JoinPosix(base, name)
  IN IsPosixName(name) =>
       /\ PosixFileName(joined) = name
       /\ PosixParent(joined) = TrimTrailingSlashes(base)
       /\ PosixComponents(joined) = Append(PosixComponents(base), name)
       /\ StartsWith(Posix(joined), Posix(base), "unix")

\* ("a/." is one plain component to std::path, so it is taken for "a".)
ComesApartNatively(base, name, build) ==
  LET joined == JoinNative(base, name, build)
  IN IsNativeName(name, build) =>
       /\ NativeComponents(joined, build) = NativeComponents(base, build) \o NativeComponents(name, build)
       /\ StartsWith(Native(joined), Native(base), build)

\* A name of a server as this machine stores it.
Stored(name, build) ==
  IF StorableHere(Posix(name), build) = None
    THEN ToNative(Posix(name), build) ELSE StorableHere(Posix(name), build)

StoresAsItself(name) ==
  LET stored == Stored(name, "windows")
  IN IsPosixName(name) =>
       /\ IsNativeName(stored, "windows")
       /\ ToSet(stored) \cap Forbidden = {} /\ Last(stored) \notin {".", " "}
       /\ ~NamesDevice(stored)
       /\ StorableHere(Native(stored), "windows") = None

CopiesDiffer(name) ==
  IsPosixName(name) =>
    LET copies == {WithCopySuffix(name, n) : n \in 1 .. 3}
    IN /\ Cardinality(copies \cup {name}) = 4
       /\ \A copy \in copies : IsPosixName(copy)

TokenReturns(path, build) == FromToken(ToToken(path, build), build) = path
=============================================================================
