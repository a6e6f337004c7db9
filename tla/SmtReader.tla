------------------------------ MODULE SmtReader ------------------------------
(***************************************************************************)
(* The two readers of a script, from its characters to its commands: the   *)
(* tree reader of the solver, which makes all tokens and then all trees    *)
(* (tokenize, parse_sexps), and the streaming reader of parse-check, which *)
(* is pulled one event at a time, twice over the text: first by the        *)
(* structural prepass, then by the parser.                                 *)
(*                                                                         *)
(* A text is a sequence of one-character strings; "n" is the end of a      *)
(* line, "A" the word assert, any other letter part of a name.             *)
(***************************************************************************)
EXTENDS Integers, Sequences

CONSTANTS Texts, MaxNesting       \* MAX_PARSE_NESTING

ASSUME MaxNestingAssumption == MaxNesting \in Nat

VARIABLES
    text,
    phase,        \* "prepass", "parse", "done", "failed"
    pos,          \* RawScanner.pos, of the character to come
    depth,        \* RawScanner.depth
    awaiting,     \* awaiting_top_level_head
    asserts,      \* top_level_assertions
    stack,        \* the lists that parse_list has open
    trees         \* what next_sexp has returned

readerVars == <<text, phase, pos, depth, awaiting, asserts, stack, trees>>

Blank == {" ", "n"}
Delimiter == Blank \cup {"(", ")", ";"}

Atom(name) == [kind |-> "atom", name |-> name, items |-> <<>>]
QuotedAtom(name) == [kind |-> "quoted", name |-> name, items |-> <<>>]
List(items) == [kind |-> "list", name |-> "", items |-> items]

(* The first place from i on with one of these characters, or the end.     *)
NextOf(t, i, chars) ==
    CHOOSE j \in i..(Len(t) + 1) :
        /\ j > Len(t) \/ t[j] \in chars
        /\ \A k \in i..(j - 1) : t[k] \notin chars

-----------------------------------------------------------------------------
(* The tree reader.                                                        *)

Failure == [ok |-> FALSE, value |-> <<>>, next |-> 0]
Success(value, next) == [ok |-> TRUE, value |-> value, next |-> next]

(* The name between bars, from i on: a backslash before any character but  *)
(* the last stands for that character.                                     *)
RECURSIVE QuotedName(_, _, _)
QuotedName(t, i, name) ==
    IF i > Len(t) THEN Failure
    ELSE IF t[i] = "\\" /\ i < Len(t) THEN QuotedName(t, i + 2, Append(name, t[i + 1]))
    ELSE IF t[i] = "|" THEN Success(QuotedAtom(name), i + 1)
    ELSE QuotedName(t, i + 1, Append(name, t[i]))

(* The end of a string literal, which the end of the text ends as well.    *)
RECURSIVE AfterString(_, _)
AfterString(t, i) ==
    IF i > Len(t) THEN i
    ELSE IF t[i] = "\"" THEN i + 1
    ELSE IF t[i] = "\\" /\ i < Len(t) THEN AfterString(t, i + 2)
    ELSE AfterString(t, i + 1)

RECURSIVE Tokenize(_, _, _)
Tokenize(t, i, tokens) ==
    LET More(token, next) == Tokenize(t, next, Append(tokens, token))
        Literal(next) == More(Atom(SubSeq(t, i, next - 1)), next)
        quoted == QuotedName(t, i + 1, <<>>)
    IN  IF i > Len(t) THEN Success(tokens, i)
        ELSE CASE t[i] \in Blank -> Tokenize(t, i + 1, tokens)
               [] t[i] = ";" -> Tokenize(t, NextOf(t, i, {"n"}), tokens)
               [] t[i] \in {"(", ")"} -> More([kind |-> t[i]], i + 1)
               [] t[i] = "|" -> IF quoted.ok THEN More(quoted.value, quoted.next) ELSE Failure
               [] t[i] = "\"" -> Literal(AfterString(t, i + 1))
               [] OTHER -> Literal(NextOf(t, i, Delimiter))

(* parse_one, and the loop over the items of a list.                       *)
RECURSIVE ParseOne(_, _), ParseItems(_, _, _)
ParseOne(tokens, i) ==
    IF i > Len(tokens) \/ tokens[i].kind = ")" THEN Failure
    ELSE IF tokens[i].kind = "(" THEN ParseItems(tokens, i + 1, <<>>)
    ELSE Success(tokens[i], i + 1)

ParseItems(tokens, i, items) ==
    IF i > Len(tokens) THEN Failure
    ELSE IF tokens[i].kind = ")" THEN Success(List(items), i + 1)
    ELSE LET one == ParseOne(tokens, i)
         IN  IF one.ok THEN ParseItems(tokens, one.next, Append(items, one.value)) ELSE one

RECURSIVE ParseAll(_, _, _)
ParseAll(tokens, i, sexps) ==
    IF i > Len(tokens) THEN Success(sexps, i)
    ELSE LET one == ParseOne(tokens, i)
         IN  IF one.ok THEN ParseAll(tokens, one.next, Append(sexps, one.value)) ELSE one

ParseSexps(t) ==
    LET tokens == Tokenize(t, 1, <<>>)
    IN  IF tokens.ok THEN ParseAll(tokens.value, 1, <<>>) ELSE tokens

IsAssert(s) ==
    /\ s.kind = "list" /\ s.items # <<>>
    /\ s.items[1].kind = "atom" /\ s.items[1].name = <<"A">>

(* preprocess_branch_intersections: the script has just one assertion.     *)
HasOneAssert(sexps) == \E i \in DOMAIN sexps :
                           \A j \in DOMAIN sexps : IsAssert(sexps[j]) <=> i = j

-----------------------------------------------------------------------------
(* The scanner of the streaming reader: one event, and where it ends.      *)

Event(kind, value, next) == [kind |-> kind, value |-> value, next |-> next]
Error == Event("error", <<>>, 0)

(* scan_quoted_symbol keeps the raw text; the backslashes go when the      *)
(* symbol is made (decode_tree_quoted_symbol).                             *)
RECURSIVE ClosingBar(_, _)
ClosingBar(t, i) ==
    IF i > Len(t) THEN 0
    ELSE IF t[i] = "\\" THEN IF i + 1 > Len(t) THEN 0 ELSE ClosingBar(t, i + 2)
    ELSE IF t[i] = "|" THEN i
    ELSE ClosingBar(t, i + 1)

RECURSIVE Decoded(_)
Decoded(raw) ==
    IF raw = <<>> THEN <<>>
    ELSE IF raw[1] = "\\" THEN <<raw[2]>> \o Decoded(SubSeq(raw, 3, Len(raw)))
    ELSE <<raw[1]>> \o Decoded(Tail(raw))

(* Faulty: the name of a quoted symbol is its raw text.                    *)
ScanQuotedRaw(t, i) ==
    LET bar == ClosingBar(t, i + 1)
    IN  IF bar = 0 THEN Error
        ELSE Event("symbol", QuotedAtom(SubSeq(t, i + 1, bar - 1)), bar + 1)

ScanQuoted(t, i) ==
    LET bar == ClosingBar(t, i + 1)
    IN  IF bar = 0 THEN Error
        ELSE Event("symbol", QuotedAtom(Decoded(SubSeq(t, i + 1, bar - 1))), bar + 1)

RECURSIVE EndOfString(_, _)
EndOfString(t, i) ==
    IF i > Len(t) THEN i
    ELSE IF t[i] = "\\" /\ i < Len(t) THEN EndOfString(t, i + 2)
    ELSE IF t[i] = "\"" THEN i + 1
    ELSE EndOfString(t, i + 1)

(* next_event                                                              *)
RECURSIVE NextEvent(_, _, _)
NextEvent(t, i, open) ==
    LET Symbol(next) == Event("symbol", Atom(SubSeq(t, i, next - 1)), next)
    IN  IF i > Len(t) THEN IF open = 0 THEN Event("end", <<>>, i) ELSE Error
        ELSE CASE t[i] \in Blank -> NextEvent(t, i + 1, open)
               [] t[i] = ";" -> NextEvent(t, NextOf(t, i, {"n"}), open)
               [] t[i] = "(" -> IF open + 1 > MaxNesting THEN Error
                                ELSE Event("open", <<>>, i + 1)
               [] t[i] = ")" -> IF open = 0 THEN Error ELSE Event("close", <<>>, i + 1)
               [] t[i] = "|" -> ScanQuoted(t, i)
               [] t[i] = "\"" -> Symbol(EndOfString(t, i + 1))
               [] OTHER -> Symbol(NextOf(t, i, Delimiter))

Depth(event) == CASE event.kind = "open" -> depth + 1
                  [] event.kind = "close" -> depth - 1
                  [] OTHER -> depth

(* structural_prepass: the head of a command is the first thing in it.     *)
Prepass ==
    /\ phase = "prepass"
    /\ LET event == NextEvent(text, pos, depth)
           isHead == event.kind = "symbol" /\ depth = 1 /\ awaiting
       IN  /\ phase' = CASE event.kind = "error" -> "failed"
                         [] event.kind = "end" -> "parse"
                         [] OTHER -> phase
           /\ pos' = IF event.kind = "end" THEN 1 ELSE event.next
           /\ depth' = Depth(event)
           /\ awaiting' = CASE event.kind = "open" -> depth = 0
                            [] event.kind = "close" /\ depth = 1 -> FALSE
                            [] isHead -> FALSE
                            [] OTHER -> awaiting
           /\ asserts' = IF isHead /\ event.value.kind = "atom" /\ event.value.name = <<"A">>
                         THEN IF asserts < 2 THEN asserts + 1 ELSE 2
                         ELSE asserts
    /\ UNCHANGED <<text, stack, trees>>

(* What a complete tree is added to: the list around it, or the script.    *)
Deliver(tree, lists) ==
    IF lists = <<>> THEN stack' = <<>> /\ trees' = Append(trees, tree)
    ELSE /\ stack' = [lists EXCEPT ![Len(lists)] = Append(@, tree)]
         /\ UNCHANGED trees

(* next_sexp and parse_list                                                *)
Parse ==
    /\ phase = "parse"
    /\ LET event == NextEvent(text, pos, depth)
           outer == SubSeq(stack, 1, Len(stack) - 1)
       IN  /\ phase' = CASE event.kind = "error" -> "failed"
                         [] event.kind = "end" -> "done"
                         [] OTHER -> phase
           /\ pos' = event.next
           /\ depth' = Depth(event)
           /\ CASE event.kind = "open" -> stack' = Append(stack, <<>>) /\ UNCHANGED trees
                [] event.kind = "close" -> Deliver(List(stack[Len(stack)]), outer)
                [] event.kind = "symbol" -> Deliver(event.value, stack)
                [] OTHER -> UNCHANGED <<stack, trees>>
    /\ UNCHANGED <<text, awaiting, asserts>>

ReaderInit ==
    /\ text \in Texts
    /\ phase = "prepass"
    /\ pos = 1 /\ depth = 0
    /\ awaiting = FALSE /\ asserts = 0
    /\ stack = <<>> /\ trees = <<>>

ReaderNext == Prepass \/ Parse

-----------------------------------------------------------------------------
RECURSIVE Nesting(_)
Nesting(s) ==
    IF s.kind # "list" THEN 0
    ELSE 1 + CHOOSE n \in 0..Len(text) :
                /\ \A i \in DOMAIN s.items : Nesting(s.items[i]) <= n
                /\ n = 0 \/ \E i \in DOMAIN s.items : Nesting(s.items[i]) = n

(* The readers agree: the streaming reader accepts what the tree reader    *)
(* accepts, if it is not nested too deeply, and nothing else; it has then  *)
(* read the same trees, and its prepass has seen whether there is just one *)
(* assertion, which decides if the disjunctions are analysed.              *)
ReadersAgree ==
    LET tree == ParseSexps(text)
        shallow == \A i \in DOMAIN tree.value : Nesting(tree.value[i]) <= MaxNesting
    IN  /\ phase = "failed" => ~tree.ok \/ ~shallow
        /\ phase = "done" =>
               /\ tree.ok /\ shallow
               /\ tree.value = trees
               /\ HasOneAssert(trees) <=> asserts = 1
=============================================================================
