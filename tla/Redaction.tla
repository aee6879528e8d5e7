------------------------------ MODULE Redaction ------------------------------
(***************************************************************************)
(* PII redaction at intake and its reversal (ai/security/pii.py).          *)
(*                                                                         *)
(* A text is a sequence of words.  What is written in a word is either raw *)
(* (value n of a kind that one of the patterns recognises, or of kind      *)
(* "none") or the placeholder [KIND_n]; a word is secret when it follows   *)
(* "password:" and the like, whatever is written in it.  Which character   *)
(* strings the regular expressions match is left out.                      *)
(***************************************************************************)
EXTENDS Naturals, Sequences, FiniteSets, SequencesExt

\* The substitutions of _Redactor.run, in the order it makes them.
Passes == <<"SECRET", "EMAIL", "PAN", "CARD", "AADHAAR", "PHONE">>

PassKinds == {Passes[i] : i \in DOMAIN Passes}

\* No pattern recognises a secret by what it looks like.
RawKinds == (PassKinds \ {"SECRET"}) \cup {"none"}

Text == [raw : {TRUE}, kind : RawKinds, n : Nat] \cup [raw : {FALSE}, kind : PassKinds, n : Nat]

Word == [text : Text, secret : BOOLEAN]

\* An entry of the map: mapping[placeholder] = original.
Entry == [placeholder : [raw : {FALSE}, kind : PassKinds, n : Nat], original : Text]

Raw(kind, n) == [raw |-> TRUE, kind |-> kind, n |-> n]

Placeholder(kind, n) == [raw |-> FALSE, kind |-> kind, n |-> n]

\* The pass substitutes this word.
Matches(pass, w) ==
    IF pass = "SECRET" THEN w.secret ELSE w.text.raw /\ w.text.kind = pass

Known(map, original) == \E i \in DOMAIN map : map[i].original = original

Numbered(map, kind) == {i \in DOMAIN map : map[i].placeholder.kind = kind}

\* Mutant: every occurrence of a value is numbered anew.
PlaceholderFor_Anew(map, kind, original) == Placeholder(kind, 1 + Cardinality(Numbered(map, kind)))

\* _Redactor.placeholder: a value met before, in any field, keeps its placeholder.
PlaceholderFor(map, kind, original) ==
    IF Known(map, original)
    THEN map[CHOOSE i \in DOMAIN map : map[i].original = original].placeholder
    ELSE Placeholder(kind, 1 + Cardinality(Numbered(map, kind)))

Remember(map, placeholder, original) ==
    IF Known(map, original) THEN map
    ELSE Append(map, [placeholder |-> placeholder, original |-> original])

Substitute(pass, acc, w) ==
    IF ~ Matches(pass, w) THEN [acc EXCEPT !.words = Append(@, w)]
    ELSE LET p == PlaceholderFor(acc.map, pass, w.text)
         IN  [words |-> Append(acc.words, [w EXCEPT !.text = p]),
              map |-> Remember(acc.map, p, w.text)]

RunPass(acc, pass) ==
    FoldLeft(LAMBDA a, w : Substitute(pass, a, w), [acc EXCEPT !.words = <<>>], acc.words)

\* redact: the redacted words, and the map (in insertion order) they extend.
Redact(words, map) == FoldLeft(RunPass, [words |-> words, map |-> map], Passes)

\* restore: one placeholder after another, in the text the earlier ones left.
Restore(words, map) ==
    FoldLeft(LAMBDA ws, e :
                [i \in DOMAIN ws |->
                    IF ws[i].text = e.placeholder THEN [ws[i] EXCEPT !.text = e.original] ELSE ws[i]],
             words, map)

\* What no model and no log may contain: a value a pattern recognises, or whatever
\* was written after "password:".
IsSensitive(w) == w.text.raw /\ (w.secret \/ w.text.kind # "none")
=============================================================================
