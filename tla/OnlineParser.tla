---------------------------- MODULE OnlineParser ----------------------------
(***************************************************************************)
(* The incremental parser both editor modes colour their text with, and    *)
(* the hints read the place of the cursor from.  It consumes one token at   *)
(* a time and keeps a stack of the rules it is in; the last one is current. *)
(*                                                                         *)
(* A rule is a sequence of what it expects, or a fork: a rule chosen by the *)
(* token and the one after it.                                              *)
(***************************************************************************)
EXTENDS Naturals, SequencesExt, RuleHelpers

CONSTANTS ParseRules,      \* [kinds -> sequences of what they expect]
          Fork(_, _, _),   \* the rule of a fork, given the token and the next one
          Matches(_, _),   \* does a token match a terminal?
          IsPunctuation(_),
          KeyName(_)       \* what a key is noted as

IsFork(kind) == kind \notin DOMAIN ParseRules

Frame(kind) == [kind |-> kind, name |-> "", type |-> "", step |-> 1,
                needsSeparator |-> FALSE]
pushRule(stack, kind) == Append(stack, Frame(kind))

startState == [stack |-> <<Frame("Document")>>, needsAdvance |-> FALSE]

Expectation(frame) ==
    IF IsFork(frame.kind) THEN Nothing ELSE ParseRules[frame.kind][frame.step]
isList(frame) == Expectation(frame).wrap = "list"
Top(stack)    == stack[Len(stack)]
WithTop(stack, frame) == [stack EXCEPT ![Len(stack)] = frame]

\* The end of advanceRule: completed rules are popped and their parents
\* advanced, unless the parent is in a list.
RECURSIVE Completed(_)
Completed(stack) ==
    IF stack = <<>> THEN stack
    ELSE IF ~IsFork(Top(stack).kind) /\ Top(stack).step <= Len(ParseRules[Top(stack).kind])
    THEN stack
    ELSE LET rest == Front(stack)
         IN  IF rest = <<>> THEN rest
             ELSE LET f == Top(rest)
                  IN  Completed(WithTop(rest,
                        IF ~isList(f)
                        THEN [f EXCEPT !.needsSeparator = FALSE, !.step = @ + 1]
                        ELSE IF Expectation(f).separator # ""
                        THEN [f EXCEPT !.needsSeparator = ~@]
                        ELSE f))

advanceRule(stack, successful) ==
    LET f       == Top(stack)
        toggled == isList(f) /\ Expectation(f).separator # ""
        g       == IF toggled THEN [f EXCEPT !.needsSeparator = ~@] ELSE f
    IN  IF isList(f) /\ (successful \/ (toggled /\ ~g.needsSeparator))
        THEN WithTop(stack, g)
        ELSE Completed(WithTop(stack, [g EXCEPT !.needsSeparator = FALSE,
                                                !.step = @ + 1]))

\* Fall back to the nearest optional or list rule, and move past it.
RECURSIVE unsuccessful(_)
unsuccessful(stack) ==
    IF stack = <<>> THEN stack
    ELSE IF Expectation(Top(stack)).wrap # "none" THEN advanceRule(stack, FALSE)
    ELSE unsuccessful(Front(stack))

\* What a matched terminal notes in the state: a name in its own rule, the type
\* of a condition in the rule before.
Noted(stack, t, token) ==
    CASE t[1] \in {"name", "nameButNot"} -> [stack EXCEPT ![Len(stack)].name = token]
      [] t[1] = "key"  -> [stack EXCEPT ![Len(stack)].name = KeyName(token)]
      [] t[1] = "type" -> [stack EXCEPT ![Len(stack) - 1].type = token]
      [] OTHER -> stack

\* The loop of getToken; <<>> if no rule can interpret the token.
RECURSIVE Matched(_, _, _)
Matched(stack, token, next) ==
    IF stack = <<>> THEN <<>>
    ELSE
    LET f == Top(stack)
        fork == IF IsFork(f.kind) /\ f.step = 1 THEN Fork(f.kind, token, next)
                ELSE NoRule
        expected ==
            IF f.needsSeparator
            THEN IF Expectation(f).separator = "" THEN Nothing
                 ELSE terminal(<<"p", Expectation(f).separator>>)
            ELSE IF IsFork(f.kind) THEN [Nothing EXCEPT !.rule = fork]
            ELSE Expectation(f)
    IN  IF expected.rule # NoRule
        THEN Matched(pushRule(stack, expected.rule), token, next)
        ELSE IF Matches(expected.terminal, token)
        THEN Noted(stack, expected.terminal, token)
        ELSE Matched(unsuccessful(stack), token, next)

\* getToken: a token nothing can interpret is styled "invalidchar" and leaves the
\* state as it was.
getToken(state, token, next) ==
    LET stack   == IF state.needsAdvance THEN advanceRule(state.stack, TRUE)
                   ELSE state.stack
        matched == Matched(stack, token, next)
    IN  IF matched = <<>>
        THEN [stack |-> stack, needsAdvance |-> FALSE, invalid |-> TRUE]
        ELSE IF IsPunctuation(token)
        THEN [stack |-> advanceRule(matched, TRUE), needsAdvance |-> FALSE,
              invalid |-> FALSE]
        ELSE [stack |-> matched, needsAdvance |-> TRUE, invalid |-> FALSE]

\* runParser: the states after each token of a text, of which the next ones are known.
RunParser(text, next) ==
    LET after[i \in 0..Len(text)] ==
          IF i = 0 THEN [startState EXCEPT !.needsAdvance = FALSE] @@ [invalid |-> FALSE]
          ELSE getToken(after[i - 1], text[i], next[i])
    IN  after

=============================================================================
