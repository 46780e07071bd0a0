------------------------------- MODULE ShParse -------------------------------
(***************************************************************************)
(* How the shell (user/sh/main.c) parses a command line.  A line is a      *)
(* sequence of characters: a blank stands for any of whitespace, NUL ends  *)
(* it, every character that is neither blank nor a symbol belongs to a     *)
(* word.  Pointers into the line are positions, so that a word is where it *)
(* starts and where it ends.  The state of the parser is a record: the     *)
(* position i, the bytes malloc1 has given away in words of eight, ok      *)
(* until the first PANIC, and what has been parsed.                        *)
(***************************************************************************)
EXTENDS Integers, Sequences, FiniteSets, SequencesExt, FiniteSetsExt

CONSTANTS
  MAXARGS,  \* entries of execcmd.argv (10)
  MAXN      \* what malloc1 can give away, in words (1250)

ASSUME ShParseAssumption == MAXARGS \in Nat \ {0} /\ MAXN \in Nat

NUL == "NUL"
whitespace == {" "}
symbols == {"<", "|", ">", "&", ";", "(", ")"}

At(s, i) == IF i <= Len(s) THEN s[i] ELSE NUL

\* The first position from i on that is not in S, or the end.
Past(s, i, S) == Min({j \in i .. Len(s) + 1 : j = Len(s) + 1 \/ s[j] \notin S})
Word(s, i) == Min({j \in i .. Len(s) + 1 : At(s, j) \in whitespace \cup symbols \cup {NUL}})

\* Mutated form: ">>" is two tokens.
gettoken_short(s, i) ==
  LET q == Past(s, i, whitespace)
      word == At(s, q) \notin symbols \cup {NUL}
      eq == IF At(s, q) = NUL THEN q ELSE IF word THEN Word(s, q) ELSE q + 1
  IN [tok |-> IF word THEN "a" ELSE At(s, q), q |-> q, eq |-> eq, i |-> Past(s, eq, whitespace)]

\* The next token, where it starts and ends, and where the one after it starts.
gettoken(s, i) ==
  LET q == Past(s, i, whitespace)
      word == At(s, q) \notin symbols \cup {NUL}
      twice == At(s, q) = ">" /\ At(s, q + 1) = ">"
      eq == IF At(s, q) = NUL THEN q ELSE IF word THEN Word(s, q) ELSE IF twice THEN q + 2 ELSE q + 1
  IN [tok |-> IF word THEN "a" ELSE IF twice THEN "+" ELSE At(s, q), q |-> q, eq |-> eq,
      i |-> Past(s, eq, whitespace)]

peek(s, i, toks) == At(s, Past(s, i, whitespace)) \in toks

\* The constructors; a list, a pipe and a redirection run the command in left.
Exec(argv) == [type |-> "EXEC", argv |-> argv]
Redir(cmd, file, fd) == [type |-> "REDIR", left |-> cmd, file |-> file, fd |-> fd]
Two(type, left, right) == [type |-> type, left |-> left, right |-> right]
Back(cmd) == [type |-> "BACK", left |-> cmd]

\* The words of eight bytes of each kind of node.
Size == [EXEC |-> 1 + 2 * MAXARGS, REDIR |-> 5, PIPE |-> 3, LIST |-> 3, BACK |-> 2]
malloc1(x, type) == [x EXCEPT !.mem = @ + Size[type], !.ok = @ /\ x.mem + Size[type] <= MAXN]

\* The redirections of a command are kept in redirs until it is complete.
Wrap(cmd, redirs) == FoldLeft(LAMBDA c, r : Redir(c, r.file, r.fd), cmd, redirs)

RECURSIVE parseredirs(_, _)
parseredirs(s, x) ==
  LET t == gettoken(s, x.i)
      f == gettoken(s, t.i)
      r == [file |-> <<f.q, f.eq>>, fd |-> IF t.tok = "<" THEN 0 ELSE 1]
  IN IF ~x.ok \/ ~peek(s, x.i, {"<", ">"}) THEN x
     ELSE IF f.tok # "a" THEN [x EXCEPT !.ok = FALSE]
     ELSE parseredirs(s, malloc1([x EXCEPT !.i = f.i, !.redirs = Append(@, r)], "REDIR"))

\* The loop of parseexec over the arguments.
RECURSIVE Args(_, _)
Args(s, x) ==
  LET t == gettoken(s, x.i)
      y == [x EXCEPT !.i = t.i, !.argv = Append(@, <<t.q, t.eq>>)]
  IN IF ~x.ok \/ peek(s, x.i, {"|", ")", "&", ";"}) \/ t.tok = NUL THEN x
     ELSE IF t.tok # "a" \/ Len(y.argv) >= MAXARGS THEN [x EXCEPT !.ok = FALSE]
     ELSE Args(s, parseredirs(s, y))

Complete(x) == [x EXCEPT !.cmd = Wrap(Exec(x.argv), x.redirs)]

\* parseexec of a command that is not a block.
Simple(s, x) ==
  Complete(Args(s, parseredirs(s, [malloc1(x, "EXEC") EXCEPT !.argv = <<>>, !.redirs = <<>>])))

\* Past a token the parser has peeked at.
Skip(s, x) == [x EXCEPT !.i = gettoken(s, x.i).i]

RECURSIVE parseline(_, _)
RECURSIVE parsepipe(_, _)

\* The ')' after the block, and its redirections.
BlockEnd(s, x) ==
  LET z == parseredirs(s, [Skip(s, x) EXCEPT !.redirs = <<>>])
  IN IF ~x.ok \/ ~peek(s, x.i, {")"}) THEN [x EXCEPT !.ok = FALSE]
     ELSE [z EXCEPT !.cmd = Wrap(x.cmd, z.redirs)]

parseblock(s, x) == BlockEnd(s, parseline(s, Skip(s, x)))

parseexec(s, x) == IF peek(s, x.i, {"("}) THEN parseblock(s, x) ELSE Simple(s, x)

\* The node for l and what is parsed after it.
Join(type, l, r) == malloc1([r EXCEPT !.cmd = Two(type, l.cmd, r.cmd)], type)

PipeEnd(s, l) ==
  IF ~l.ok \/ ~peek(s, l.i, {"|"}) THEN l ELSE Join("PIPE", l, parsepipe(s, Skip(s, l)))

parsepipe(s, x) == PipeEnd(s, parseexec(s, x))

RECURSIVE Backs(_, _)
Backs(s, x) ==
  IF ~x.ok \/ ~peek(s, x.i, {"&"}) THEN x
  ELSE Backs(s, malloc1([Skip(s, x) EXCEPT !.cmd = Back(x.cmd)], "BACK"))

LineEnd(s, l) ==
  IF ~l.ok \/ ~peek(s, l.i, {";"}) THEN l ELSE Join("LIST", l, parseline(s, Skip(s, l)))

parseline(s, x) == LineEnd(s, Backs(s, parsepipe(s, x)))

\* Every character nulterminate overwrites with NUL.
RECURSIVE Ends(_)
Ends(cmd) ==
  CASE cmd.type = "EXEC" -> {a[2] : a \in Range(cmd.argv)}
    [] cmd.type = "REDIR" -> {cmd.file[2]} \cup Ends(cmd.left)
    [] cmd.type = "BACK" -> Ends(cmd.left)
    [] OTHER -> Ends(cmd.left) \cup Ends(cmd.right)

nulterminate(s, cmd) == [i \in DOMAIN s |-> IF i \in Ends(cmd) THEN NUL ELSE s[i]]

\* parsecmd, without nulterminate: ok is false when the child exits instead.
parsecmd(s) ==
  LET x == parseline(s, [i |-> 1, mem |-> 0, ok |-> TRUE, cmd |-> Exec(<<>>), argv |-> <<>>,
                         redirs |-> <<>>])
  IN [ok |-> x.ok /\ Past(s, x.i, whitespace) = Len(s) + 1, cmd |-> x.cmd]

\* The string a pointer to position q is, in a line b.
String(b, q) == SubSeq(b, q, Min({j \in q .. Len(b) + 1 : At(b, j) = NUL}) - 1)

-----------------------------------------------------------------------------
(* The grammar, independently of the code: all the trees of a sequence of  *)
(* tokens.  A token is its kind, its start and its end.                    *)

Ascending(S) == [k \in 1 .. Cardinality(S) |-> CHOOSE x \in S : Cardinality({y \in S : y <= x}) = k]

\* Where tokens start: at a symbol, every other one in a row of '>', and where a
\* word does.
Starts(s) ==
  LET row(j) == j - Min({k \in 1 .. j : \A m \in k .. j : s[m] = ">"})
      letter(j) == j >= 1 /\ s[j] \notin whitespace \cup symbols
  IN {j \in 1 .. Len(s) : \/ s[j] \in symbols \ {">"} \/ (s[j] = ">" /\ row(j) % 2 = 0)
                          \/ (letter(j) /\ ~letter(j - 1))}

Tokens(s) ==
  LET token(j) ==
        IF s[j] = ">" THEN IF At(s, j + 1) = ">" THEN <<"+", j, j + 2>> ELSE <<">", j, j + 1>>
        ELSE IF s[j] \in symbols THEN <<s[j], j, j + 1>>
        ELSE <<"a", j, Min({k \in j .. Len(s) + 1 : k = Len(s) + 1 \/ s[k] \in whitespace \cup symbols})>>
      order == Ascending(Starts(s))
  IN [k \in DOMAIN order |-> token(order[k])]

\* The redirections in ts, when what is left are words.
Redirs(ts) == {k \in DOMAIN ts : ts[k][1] \in {"<", ">", "+"}}
Plain(ts) ==
  LET files == {k + 1 : k \in Redirs(ts)}
      words == {k \in DOMAIN ts : k \notin files \cup Redirs(ts)}
      at(S) == Ascending(S)
  IN IF files \subseteq DOMAIN ts \ Redirs(ts) /\ \A k \in DOMAIN ts \ Redirs(ts) : ts[k][1] = "a"
     THEN {[words  |-> [k \in DOMAIN at(words) |-> <<ts[at(words)[k]][2], ts[at(words)[k]][3]>>],
            redirs |-> [k \in DOMAIN at(files) |->
                          [file |-> <<ts[at(files)[k]][2], ts[at(files)[k]][3]>>,
                           fd   |-> IF ts[at(files)[k] - 1][1] = "<" THEN 0 ELSE 1]]]}
     ELSE {}

RECURSIVE Lines(_)
RECURSIVE Pipes(_)
From(ts, k) == SubSeq(ts, k, Len(ts))
Upto(ts, k) == SubSeq(ts, 1, k)

Units(ts) ==
  {Wrap(Exec(p.words), p.redirs) : p \in Plain(ts)}
  \cup UNION {{Wrap(c, p.redirs) : c \in Lines(SubSeq(ts, 2, k - 1)),
                                   p \in {q \in Plain(From(ts, k + 1)) : q.words = <<>>}} :
                k \in {j \in DOMAIN ts : ts[1][1] = "(" /\ ts[j][1] = ")"}}

Pipes(ts) ==
  Units(ts) \cup UNION {{Two("PIPE", l, r) : l \in Units(Upto(ts, k - 1)), r \in Pipes(From(ts, k + 1))} :
                          k \in {j \in DOMAIN ts : ts[j][1] = "|"}}

RECURSIVE Jobs(_)
Jobs(ts) ==
  Pipes(ts) \cup (IF ts # <<>> /\ Last(ts)[1] = "&" THEN {Back(c) : c \in Jobs(Front(ts))} ELSE {})

Lines(ts) ==
  Jobs(ts) \cup UNION {{Two("LIST", l, r) : l \in Jobs(Upto(ts, k - 1)), r \in Lines(From(ts, k + 1))} :
                         k \in {j \in DOMAIN ts : ts[j][1] = ";"}}

\* The nodes of a tree.
RECURSIVE Nodes(_)
Nodes(c) ==
  <<c>> \o (IF c.type = "EXEC" THEN <<>> ELSE Nodes(c.left))
        \o (IF c.type \in {"LIST", "PIPE"} THEN Nodes(c.right) ELSE <<>>)

\* The trees the shell can hold: few enough arguments, and nodes.
Fits(c) ==
  /\ \A n \in Range(Nodes(c)) : n.type = "EXEC" => Len(n.argv) < MAXARGS
  /\ FoldLeft(LAMBDA sum, n : sum + Size[n.type], 0, Nodes(c)) <= MAXN

\* The pointers to strings in a node.
Words(n) == IF n.type = "EXEC" THEN Range(n.argv) ELSE IF n.type = "REDIR" THEN {n.file} ELSE {}

\* After nulterminate every word is a string of its own.
Terminated(s, cmd) ==
  LET b == nulterminate(s, cmd)
  IN \A n \in Range(Nodes(cmd)) : \A w \in Words(n) : String(b, w[1]) = SubSeq(s, w[1], w[2] - 1)

\* r is the tree of the grammar, which is the only one, or a PANIC when there is none.
ParsedRight(s, r) ==
  /\ {c \in Lines(Tokens(s)) : Fits(c)} = IF r.ok THEN {r.cmd} ELSE {}
  /\ r.ok => Terminated(s, r.cmd)
=============================================================================
