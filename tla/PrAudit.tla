------------------------------ MODULE PrAudit ------------------------------
(***************************************************************************)
(* actions/pr-audit-comment: a comment on a pull request asks for an       *)
(* audit.  The action checks who asks, parses the command, posts a status  *)
(* comment, publishes the audit event and then edits the status comment,   *)
(* whose hidden marker lets Warden act on the audit.  Every call may fail, *)
(* its effect may happen although its answer is lost, and the job may be   *)
(* cancelled between two of them.                                          *)
(***************************************************************************)
EXTENDS Integers, SequencesExt

CONSTANTS
  MaxTokens   \* bound: tokens of a command

ASSUME AuditConstants == MaxTokens \in Nat

\* Tokens by what they do: "option" stands for config=, hours=, models=,
\* run-label=, note= and iterations=; "flag" for dry-run and perf; "bad" for an
\* unknown argument or a value that is refused.
Tokens == {"super-fast", "fast", "option", "private", "private=false",
           "flag", "flag=false", "env=staging", "env=prod", "bad"}

VARIABLES
  command,    \* [private, tokens, defaultEnv]: the comment, and default-env
  asker,      \* "trusted" or "stranger": who commented
  head,       \* head commit of the pull request
  at,         \* "match", "permission", "parse", "react", "queue", "publish",
              \* "update", "ended"
  seen,       \* head commit that the permission check read, 0 for none
  options,    \* what the command asks for
  parsed,     \* tokens of the command that were looked at
  known,      \* it knows the identifier of its status comment
  status,     \* status comment on the pull request: "none", "usage", "queued",
              \* "published", "optin", "failed"
  delivered,  \* the events that the receiver got
  publishing, \* "none", "ok", "error": what publishEvent() returned
  setFailed,  \* the step is marked as failed
  trouble     \* a call failed, or the job was cancelled

audit == <<command, asker>>
auditVars == <<audit, head, at, seen, options, parsed, known, status,
               delivered, publishing, setFailed, trouble>>

-----------------------------------------------------------------------------
(* The command.                                                            *)

NoOptions(private, env) ==
  [private |-> private, flag |-> FALSE, set |-> {}, superFast |-> FALSE,
   env |-> env, errors |-> FALSE]

Options ==
  [private : BOOLEAN, flag : BOOLEAN, set : SUBSET {"config", "iterations", "option"},
   superFast : BOOLEAN, env : {"staging", "prod", "invalid"}, errors : BOOLEAN]

\* One token of the loop in parseArgs(); a later one overrides.
Parse(o, token) ==
  CASE token = "super-fast" -> [o EXCEPT !.superFast = TRUE]
    [] token = "fast" -> [o EXCEPT !.set = @ \cup {"iterations"}]
    [] token = "option" -> [o EXCEPT !.set = @ \cup {"option"}]
    [] token = "private" -> [o EXCEPT !.private = TRUE]
    [] token = "private=false" -> [o EXCEPT !.private = FALSE]
    [] token = "flag" -> [o EXCEPT !.flag = TRUE]
    [] token = "flag=false" -> [o EXCEPT !.flag = FALSE]
    [] token = "env=staging" -> [o EXCEPT !.env = "staging"]
    [] token = "env=prod" -> [o EXCEPT !.env = "prod"]
    [] token = "bad" -> [o EXCEPT !.errors = TRUE]

\* At the end super-fast wins over whatever else chooses its options.
SuperFast(o) ==
  IF o.superFast THEN [o EXCEPT !.set = @ \cup {"config", "iterations"}] ELSE o

\* buildPayload(): the event names the commit that the permission check read.
BuildPayload(o) ==
  [sha |-> seen, private |-> o.private, flag |-> o.flag, set |-> o.set,
   env |-> o.env]

\* Mutant: a dry run opts in.
WardenOptInAnyFlag(o) == o.set = {} /\ ~o.private
\* wardenOptIn(): only a plain audit opts in.
WardenOptIn(o) == o.set = {} /\ ~o.private /\ ~o.flag

-----------------------------------------------------------------------------
(* The handler.                                                            *)

Stop(failure) == at' = "ended" /\ setFailed' = failure

Go(place) == at' = place /\ UNCHANGED setFailed

\* A comment that is no command, or not on a pull request, is left alone; a
\* default environment that does not exist is an error of the workflow.
AuditMatch ==
  /\ at = "match"
  /\ \/ Stop(FALSE)
     \/ command.defaultEnv = "invalid" /\ Stop(TRUE)
     \/ command.defaultEnv # "invalid" /\ Go("permission")
  /\ UNCHANGED <<audit, head, seen, options, parsed, known, status, delivered,
                 publishing, trouble>>

\* checkPermission() asks GitHub for the pull request, then whether the
\* commenter is trusted; a failing membership call counts as a no.
CheckPermission ==
  /\ at = "permission"
  /\ \/ Stop(TRUE) /\ trouble' = (trouble \/ asker = "trusted") /\ UNCHANGED seen
     \/ asker = "trusted" /\ Go("parse") /\ seen' = head /\ UNCHANGED trouble
  /\ UNCHANGED <<audit, head, options, parsed, known, status, delivered,
                 publishing>>

\* parseArgs() starts from defaults, where "private audit" in the command is the
\* one of that option, and goes through the tokens.
ParseArg ==
  /\ at = "parse" /\ parsed < Len(command.tokens)
  /\ parsed' = parsed + 1
  /\ options' = Parse(options, command.tokens[parsed + 1])
  /\ UNCHANGED <<audit, head, at, seen, known, status, delivered, publishing,
                 setFailed, trouble>>

\* A command with errors is answered with the usage.
AuditParse ==
  /\ at = "parse" /\ parsed = Len(command.tokens)
  /\ options' = SuperFast(options)
  /\ IF options.errors
     THEN Stop(TRUE) /\ status' \in {"usage", status}
     ELSE Go("react") /\ UNCHANGED status
  /\ UNCHANGED <<audit, head, seen, parsed, known, delivered, publishing, trouble>>

\* The reaction is for show; its failure is a warning.
AuditReact ==
  /\ at = "react" /\ at' = "queue"
  /\ UNCHANGED <<audit, head, seen, options, parsed, known, status, delivered,
                 publishing, setFailed, trouble>>

\* A private audit has no status comment.  The call may post the comment and
\* fail all the same: its identifier is then unknown.
AuditQueue ==
  /\ at = "queue" /\ at' = "publish"
  /\ IF options.private
     THEN UNCHANGED <<known, status, trouble>>
     ELSE \/ known' = TRUE /\ status' = "queued" /\ UNCHANGED trouble
          \/ known' = FALSE /\ status' \in {"queued", status} /\ trouble' = TRUE
  /\ UNCHANGED <<audit, head, seen, options, parsed, delivered, publishing,
                 setFailed>>

\* publishEvent(): the receiver may have the event although curl failed.
PublishEvent ==
  /\ at = "publish" /\ at' = "update"
  /\ \/ /\ publishing' = "ok" /\ delivered' = {BuildPayload(options)}
        /\ UNCHANGED <<setFailed, trouble>>
     \/ /\ publishing' = "error" /\ setFailed' = TRUE /\ trouble' = TRUE
        /\ delivered' \in {{}, {BuildPayload(options)}}
  /\ UNCHANGED <<audit, head, seen, options, parsed, known, status>>

\* The outcome in the status comment.
Outcome ==
  IF publishing # "ok" THEN "failed"
  ELSE IF WardenOptIn(options) THEN "optin" ELSE "published"

AuditUpdate ==
  /\ at = "update" /\ at' = "ended"
  /\ IF ~known THEN UNCHANGED <<status, trouble>>
     ELSE \/ status' = Outcome /\ UNCHANGED trouble
          \/ status' \in {status, Outcome} /\ trouble' = TRUE
  /\ UNCHANGED <<audit, head, seen, options, parsed, known, delivered, publishing,
                 setFailed>>

\* The job is cancelled.
AuditCancelled ==
  /\ at # "ended" /\ at' = "ended" /\ trouble' = TRUE
  /\ UNCHANGED <<audit, head, seen, options, parsed, known, status, delivered,
                 publishing, setFailed>>

\* Somebody pushes to the pull request.
AuditPush ==
  /\ at # "ended" /\ head < 2 /\ head' = head + 1
  /\ UNCHANGED <<audit, at, seen, options, parsed, known, status, delivered,
                 publishing, setFailed, trouble>>

AuditCommands ==
  [private : BOOLEAN, tokens : BoundedSeq(Tokens, MaxTokens),
   defaultEnv : {"prod", "invalid"}]

AuditInit ==
  /\ command \in AuditCommands /\ asker \in {"trusted", "stranger"}
  /\ head = 1 /\ at = "match" /\ seen = 0
  /\ options = NoOptions(command.private, command.defaultEnv) /\ parsed = 0
  /\ known = FALSE /\ status = "none"
  /\ delivered = {} /\ publishing = "none" /\ setFailed = FALSE
  /\ trouble = FALSE

AuditWork ==
  \/ AuditMatch \/ CheckPermission \/ ParseArg \/ AuditParse \/ AuditReact
  \/ AuditQueue \/ PublishEvent \/ AuditUpdate

AuditWorld == AuditCancelled \/ AuditPush

AuditNext == AuditWork \/ AuditWorld

AuditDone == at = "ended"

\* Calls of GitHub and of the receiver that the action sets no timeout for.
AuditUntimed ==
  \/ at \in {"permission", "react", "queue", "publish", "update"}
  \/ at = "parse" /\ parsed = Len(command.tokens)

-----------------------------------------------------------------------------

AuditPlaces ==
  {"match", "permission", "parse", "react", "queue", "publish", "update", "ended"}

AuditTypeOK ==
  /\ command \in AuditCommands /\ head \in 1..2 /\ seen \in 0..2
  /\ at \in AuditPlaces /\ options \in Options
  /\ status \in {"none", "usage", "queued", "published", "optin", "failed"}
  /\ publishing \in {"none", "ok", "error"}

\* What a command asks for in its first n tokens, said without parseArgs(): the
\* last one about an option decides.
LastOf(c, n, on, off, default) ==
  LET about == {i \in 1..n : c.tokens[i] \in {on, off}}
  IN  IF about = {} THEN default ELSE c.tokens[Max(about)] = on

PrivateIn(c, n) == LastOf(c, n, "private", "private=false", c.private)
FlagIn(c, n) == LastOf(c, n, "flag", "flag=false", FALSE)
AnyIn(c, n, tokens) == \E i \in 1..n : c.tokens[i] \in tokens

AsksPrivate(c) == PrivateIn(c, Len(c.tokens))

Plain(c) ==
  /\ ~AnyIn(c, Len(c.tokens), {"super-fast", "fast", "option"})
  /\ ~AsksPrivate(c) /\ ~FlagIn(c, Len(c.tokens))

\* The marker that lets Warden act appears only for a trusted commenter's plain
\* public audit whose event the receiver has, and that event asks for nothing
\* special either.  A comment that says published is true; a private audit has
\* no status comment; and an audit that failed is never shown as published,
\* whatever calls are lost and wherever the job is cancelled.
StatusIsTrue ==
  /\ status \in {"optin", "published"} => delivered # {} /\ ~setFailed
  /\ status = "optin" =>
       /\ asker = "trusted" /\ Plain(command)
       /\ \A e \in delivered : e.set = {} /\ ~e.private /\ ~e.flag
  /\ status \notin {"none", "usage"} \/ delivered # {} =>
       /\ asker = "trusted" /\ "bad" \notin ToSet(command.tokens)
       /\ AsksPrivate(command) => status = "none"

\* A status comment stays "queued", and a finished audit is neither published
\* nor marked as failed, only if some call failed or the job was cancelled.
QueuedIsSettled ==
  at = "ended" /\ ~trouble => status # "queued"

-----------------------------------------------------------------------------
(* What the handler relies on between its steps.                           *)

\* Until the command is parsed nothing is done; the tokens that were looked at
\* are in the options.
ParsedIsAsked ==
  /\ at \in {"match", "permission"} => parsed = 0
  /\ at = "parse" => asker = "trusted"
  /\ at \in {"match", "permission", "parse"} =>
       /\ options.private <=> PrivateIn(command, parsed)
       /\ options.flag <=> FlagIn(command, parsed)
       /\ options.set # {} <=> AnyIn(command, parsed, {"fast", "option"})
       /\ options.superFast <=> AnyIn(command, parsed, {"super-fast"})
       /\ options.errors <=> AnyIn(command, parsed, {"bad"})

\* What is acted upon is a trusted command without an error.
AskedIsValid ==
  at \in {"react", "queue", "publish", "update"} =>
    /\ asker = "trusted" /\ ~AnyIn(command, Len(command.tokens), {"bad"})
    /\ options.private <=> AsksPrivate(command)
    /\ WardenOptIn(options) => Plain(command)

\* The status comment while the handler is on its way: if it has none of its own
\* that it knows of, something went wrong.
CommentIsKnown ==
  /\ at \in {"match", "permission", "parse", "react", "queue"} =>
       status = "none" /\ ~known
  /\ at \in {"publish", "update"} =>
       /\ status \in {"none", "queued"} /\ (options.private => status = "none")
       /\ known => status = "queued"
       /\ status = "queued" /\ ~known => trouble

\* The event, which is what the command asks for.
EventIsAsked ==
  /\ at \notin {"update", "ended"} => delivered = {} /\ ~setFailed
  /\ at = "update" =>
       /\ \A e \in delivered : e.set = options.set /\ e.private = options.private
                                /\ e.flag = options.flag
       /\ publishing = "ok" => delivered # {} /\ ~setFailed

AuditInv ==
  /\ command \in AuditCommands /\ parsed \in 0..Len(command.tokens)
  /\ at \in AuditPlaces /\ options \in Options
  /\ ParsedIsAsked /\ AskedIsValid /\ CommentIsKnown /\ EventIsAsked
  /\ at = "ended" => StatusIsTrue /\ QueuedIsSettled
=============================================================================
