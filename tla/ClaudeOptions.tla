---------------------------- MODULE ClaudeOptions ----------------------------
(***************************************************************************)
(* The command line a Claude session is started again with                 *)
(* (src-tauri/src/context.rs, resume_args).                                *)
(*                                                                         *)
(* An argument is a token: a word, an option with the value attached to it *)
(* (--model=opus, -nwork) or without, the lone "-", or "--".  One option   *)
(* of each kind stands for the others of its table.                        *)
(***************************************************************************)
EXTENDS Naturals, Sequences, SequencesExt, FiniteSets, TLC

Word(text) == [kind |-> "word", name |-> text, attached |-> <<>>]
Option(name) == [kind |-> "option", name |-> name, attached |-> <<>>]
OptionWith(name, value) == [kind |-> "option", name |-> name, attached |-> <<value>>]
Hyphen == [kind |-> "hyphen", name |-> "-", attached |-> <<>>]
Stop == [kind |-> "stop", name |-> "--", attached |-> <<>>]

Dashed(token) == token.kind # "word"

\* A line break or a double quote is not typed back into a shell.
Typeable(token) == token.name # "quoted"

KEEP == "--verbose" :> "Nothing" @@ "--model" :> "Value" @@ "--debug" :> "MaybeValue"
        @@ "--tools" :> "Values" @@ "-n" :> "Value"
DROP == "-p" :> "Nothing" @@ "--session-id" :> "Value" @@ "--resume" :> "MaybeValue"
        @@ "--file" :> "Values"

Kept(name) == name \in DOMAIN KEEP
Known(name) == name \in DOMAIN KEEP \cup DOMAIN DROP
Takes(name) == IF Kept(name) THEN KEEP[name] ELSE DROP[name]

\* claude_args: after the program, or after the script when a runtime runs it.
ClaudeArgs(argv, runtime) ==
  LET script == SelectInSeq(Tail(argv), LAMBDA token : ~Dashed(token))
  IN CASE ~runtime -> Tail(argv)
       [] script = 0 -> <<>>
       [] OTHER -> SubSeq(argv, script + 2, Len(argv))

\* The first place from `from` on that holds an option, or the end.
NextOption(args, from) ==
  CHOOSE k \in from .. Len(args) + 1 :
    /\ k = Len(args) + 1 \/ (k <= Len(args) /\ Dashed(args[k]))
    /\ \A j \in from .. k - 1 : ~Dashed(args[j])

\* Where the values of the option in place i end; 0 when it misses its value.
ValuesEnd(args, i) ==
  LET takes == Takes(args[i].name)
      first == IF args[i].attached # <<>> THEN i + 1 ELSE i + 2
  IN CASE takes = "Nothing" -> i + 1
       [] takes = "MaybeValue" ->
            IF args[i].attached = <<>> /\ i < Len(args) /\ ~Dashed(args[i + 1]) THEN i + 2 ELSE i + 1
       [] first > Len(args) + 1 -> 0
       [] takes = "Value" -> first
       [] takes = "Values" -> NextOption(args, first)

\* What the option in place i becomes, and where the next argument is.
Taken(args, i) ==
  LET arg == args[i]
      end == ValuesEnd(args, i)
      values == arg.attached \o SubSeq(args, i + 1, end - 1)
  IN CASE ~Known(arg.name) \/ end = 0 -> [keep |-> <<>>, dropped |-> << <<arg>> >>, next |-> i + 1]
       [] Takes(arg.name) = "Nothing" /\ arg.attached # <<>> ->
            [keep |-> <<>>, dropped |-> << <<arg>> >>, next |-> i + 1]
       [] Kept(arg.name) /\ \A k \in DOMAIN values : Typeable(values[k]) ->
            [keep |-> << <<Option(arg.name)>> \o values >>, dropped |-> <<>>, next |-> end]
       [] OTHER ->
            [keep |-> <<>>, dropped |-> << SubSeq(args, i, end - 1) >>, next |-> end]

\* resume_args.
ResumeArgs(args) ==
  LET nothing == [keep |-> <<>>, dropped |-> <<>>]
      from[i \in 1 .. Len(args) + 1] ==
        CASE i > Len(args) -> nothing
          [] args[i].kind = "stop" ->
               [nothing EXCEPT !.dropped = << SubSeq(args, i, Len(args)) >>]
          [] args[i].kind \in {"word", "hyphen"} ->
               [from[i + 1] EXCEPT !.dropped = << <<args[i]>> >> \o @]
          [] OTHER ->
               LET taken == Taken(args, i)
               IN [keep |-> taken.keep \o from[taken.next].keep,
                   dropped |-> taken.dropped \o from[taken.next].dropped]
  IN from[1]

-----------------------------------------------------------------------------
(* What resuming promises.                                                 *)

\* The arguments typed after `claude --resume <id>`.
Typed(keep) == FlattenSeq(keep)

\* An option that may have a value keeps one that was attached and looks like
\* an option: typed apart from it, it is one.
ValueLost(args) ==
  \E k \in DOMAIN args :
    /\ args[k].kind = "option" /\ Kept(args[k].name) /\ Takes(args[k].name) = "MaybeValue"
    /\ args[k].attached # <<>> /\ Dashed(args[k].attached[1])

\* Every argument is kept or dropped, once.
Apart(tokens) ==
  FlattenSeq([k \in DOMAIN tokens |-> <<[tokens[k] EXCEPT !.attached = <<>>]>> \o tokens[k].attached])

Accounted(args) ==
  LET read == ResumeArgs(args)
      before == Apart(args)
      after == Apart(FlattenSeq(read.keep) \o FlattenSeq(read.dropped))
      times(token, tokens) == Cardinality({k \in DOMAIN tokens : tokens[k] = token})
  IN /\ Len(before) = Len(after)
     /\ \A token \in ToSet(before) : times(token, before) = times(token, after)

\* The session is resumed with the same options, however often it is.
ResumesAlike(args) ==
  LET kept == ResumeArgs(args).keep
      again == ResumeArgs(<<Option("--resume"), Word("id")>> \o Typed(kept))
  IN again.keep = kept /\ again.dropped = << <<Option("--resume"), Word("id")>> >>
=============================================================================
