------------------------------- MODULE Process -------------------------------
(***************************************************************************)
(* The server process from start to stop, and the sessions that outlive    *)
(* it: the configuration a start settles, the secret it signs with, the    *)
(* tokens login issues, and a browser that keeps one in a cookie.  What a  *)
(* request is answered changes nothing; it is an operator of the state.    *)
(***************************************************************************)
EXTENDS Configuration, SafePath

CONSTANTS
  CommandLines, Environments,   \* what the process may be started with
  Leeway,      \* seconds an expired token is still good for: 60 in jsonwebtoken
  Width,       \* the bits of a u64: 64
  MaxTime, MaxStarts,   \* bounds of the clock and of the starts
  Store,       \* the store path, a sequence of names
  Paths, FileNames   \* what requests and forms call directories and files

ASSUME TimeAssumption  == {Leeway, Width, MaxTime, MaxStarts} \subseteq Nat /\ MaxTime < 2 ^ Width
ASSUME WidthAssumption == 2 ^ Width \in Nat \ {0}
ASSUME InputAssumption ==
  /\ CommandLines \subseteq Seq(STRING) /\ Environments \subseteq [Options -> Strings]
  /\ Store \in Seq(STRING) \ {<<>>}
  /\ Paths \subseteq Seq(STRING) /\ FileNames \subseteq Seq(STRING)

VARIABLES
  up,       \* is the process serving?
  starts,   \* how often it has been started
  last,     \* history: the last start: arguments, environment, and exit status
  config,   \* the options it runs with, as strings
  secret,   \* what it signs tokens with
  now,      \* the time in seconds
  flight,   \* a login answered and not yet received, or None
  jar       \* the browser's cookie, or None

serverVars == <<up, starts, last, config, secret>>
vars       == <<serverVars, now, flight, jar>>

\* The secret: configured, or drawn anew by each process.
SecretOf(c, n) == [value |-> c["secret"], start |-> IF c["secret"] = None THEN n ELSE 0]

Init ==
  /\ up = FALSE
  /\ starts = 0
  /\ last = None
  /\ config = None
  /\ secret = None
  /\ now = 0
  /\ flight = None
  /\ jar = None

\* A start; errors and --help end the process before it serves.
StartUp(args, env) ==
  LET r == Loaded(args, env) IN
  /\ ~up
  /\ starts < MaxStarts
  /\ starts' = starts + 1
  /\ last' = [args |-> args, env |-> env, exit |-> r.exit]
  /\ up' = (r.exit = None)
  /\ config' = IF r.exit = None THEN r.config ELSE None
  /\ secret' = IF r.exit = None THEN SecretOf(r.config, starts') ELSE None
  /\ UNCHANGED <<now, flight, jar>>

Stop ==
  /\ up
  /\ up' = FALSE
  /\ config' = None
  /\ secret' = None
  /\ UNCHANGED <<starts, last, now, flight, jar>>

Tick == now < MaxTime /\ now' = now + 1 /\ UNCHANGED <<serverVars, flight, jar>>

Expiry == Number(config, "token_exp")

\* Mutants: the clock left out; a sum that is wider than exp.
ExpRelative  == Expiry % 2 ^ Width
ExpUnwrapped == now + Expiry

\* exp of a token issued now: the sum wraps in a release build.
Exp == (now + Expiry) % 2 ^ Width

\* A login with the right name and password: a token, and a cookie with a Max-Age.
Login ==
  /\ up
  /\ flight = None
  /\ flight' = [exp |-> Exp, secret |-> secret, issued |-> now, max_age |-> Expiry,
                by |-> starts]
  /\ UNCHANGED <<serverVars, now, jar>>

\* The answer reaches the browser, which counts Max-Age from there, or is lost.
LoginAnswered ==
  /\ flight # None
  /\ jar' \in {jar, [token |-> flight, until |-> now + flight.max_age]}
  /\ flight' = None
  /\ UNCHANGED <<serverVars, now>>

Next ==
  \/ \E args \in CommandLines, env \in Environments : StartUp(args, env)
  \/ Stop \/ Tick \/ Login \/ LoginAnswered

Spec == Init /\ [][Next]_vars

-----------------------------------------------------------------------------
\* Requests.

\* Mutant: exp is not checked.
ValidForever(token) == token.secret = secret

\* jsonwebtoken::decode with the default Validation.
Valid(token) == token.secret = secret /\ token.exp + Leeway >= now

\* The header is looked at first, and a bad one is not made up for by a cookie.
from_request_parts(header, cookie) ==
  LET Judged(token) == IF Valid(token) THEN "Claims" ELSE "InvalidToken"
  IN IF header # None THEN Judged(header)
     ELSE IF cookie # None THEN Judged(cookie) ELSE "MissingCredentials"

\* Option<Claims>, for the pages that work without a login.
optional_from_request_parts(header, cookie) ==
  IF from_request_parts(header, cookie) = "MissingCredentials"
  THEN "None" ELSE from_request_parts(header, cookie)

\* What the browser sends: its cookie until Max-Age has run out.
Cookie == IF jar # None /\ now < jar.until THEN jar.token ELSE None

-----------------------------------------------------------------------------
\* Properties.

TypeOK ==
  /\ up \in BOOLEAN
  /\ starts \in 0 .. MaxStarts
  /\ up => /\ config \in [Options -> STRING \cup {None}]
           /\ \A o \in Numeric : config[o] \in DOMAIN Numbers
           /\ last.exit = None
  /\ now \in 0 .. MaxTime
  /\ flight # None => flight.exp \in 0 .. 2 ^ Width - 1
  /\ jar # None => jar.until \in Nat

(* The process serves only when the command line is options and values in   *)
(* pairs with at most one --listen, and then every option is the last one   *)
(* of the command line, or that of the environment, or the default.         *)
ServesWhatWasAsked ==
  up => LET args == last.args
            Given(o) == {k \in 1 .. Len(args) \div 2 : args[2 * k - 1] = o}
        IN /\ Len(args) % 2 = 0
           /\ \A k \in 1 .. Len(args) \div 2 : args[2 * k - 1] \in Options
           /\ \A j, k \in Given("listen") : j = k
           /\ \A o \in Options :
                \/ \E k \in Given(o) : config[o] = args[2 * k] /\ \A j \in Given(o) : j <= k
                \/ Given(o) = {} /\ config[o] = IF last.env[o] # None THEN last.env[o]
                                                                      ELSE Defaults[o]

(* A browser that still sends its cookie is let in, over restarts too, as   *)
(* long as the process has the secret of the login: when the answer was not *)
(* longer on its way than the leeway and exp has not wrapped.               *)
SessionLasts ==
  /\ up /\ Cookie # None
  /\ Cookie.secret = secret
  /\ Cookie.issued + Cookie.max_age < 2 ^ Width
  /\ jar.until <= Cookie.issued + Cookie.max_age + Leeway
  => from_request_parts(None, Cookie) = "Claims"

(* A token lets nobody in after its lifetime and the leeway, nor, unless a  *)
(* secret is configured, into a process that did not issue it.              *)
SessionEnds ==
  LET tokens == ({flight} \cup (IF jar = None THEN {} ELSE {jar.token})) \ {None}
  IN \A token \in tokens :
       up /\ "Claims" \in {from_request_parts(token, None),
                           optional_from_request_parts(None, token)} =>
         /\ now <= token.issued + token.max_age + Leeway
         /\ config["secret"] = None => token.by = starts

(* Whatever a user calls a directory or a file, the files it stands for are *)
(* under the store path.                                                    *)
StaysInStore ==
  up => \A path \in Paths, name \in FileNames :
    \A target \in FormTargets(Store, path, name) \cup ({safe_join(Store, path)} \ {InvalidPath}) :
      Len(target) >= Len(Store) /\ SubSeq(target, 1, Len(Store)) = Store
=============================================================================
