---------------------------- MODULE Configuration ----------------------------
(***************************************************************************)
(* config.rs: the options of the environment and of the command line, how  *)
(* they are merged, and what Config accepts.  Options and their values are *)
(* strings; Numbers gives the value of those that parse as an integer.     *)
(***************************************************************************)
EXTENDS Naturals, Sequences

CONSTANTS
  Numbers,   \* the strings that parse as an integer, with their values
  Defaults,  \* the default of each option
  None       \* an option that is not set

Limits  == {"chunk_size", "max_active_upload_chunks", "max_active_chunks_per_upload",
            "max_active_upload_bytes"}
Numeric == Limits \cup {"token_exp"}
Files   == {"tls_cert", "tls_key"}
Options == Numeric \cup Files \cup {"listen", "store_path", "username", "password", "secret"}

Unset   == [o \in Options |-> None]
Strings == STRING \cup {None}

\* Integers are unsigned.
ASSUME ConfigurationAssumption ==
  /\ None \notin STRING \cup Nat
  /\ Numbers \in [DOMAIN Numbers -> Nat]
  /\ Defaults \in [Options -> Strings]
  /\ \A o \in Numeric : Defaults[o] \in DOMAIN Numbers

\* Mutant: the first occurrence of an option wins.
TakesFirst(s, arg) ==
  [s EXCEPT !.wants = None, !.opts[s.wants] = IF @ = None THEN arg ELSE @]

\* args.next() is the value of the option before it, whatever it looks like.
TakesValue(s, arg) == [s EXCEPT !.wants = None, !.opts[s.wants] = arg]

\* One turn of the loop over the arguments, or the args.next() inside it.
Argument(s, arg) ==
  CASE s.exit # None -> s
    [] s.exit = None /\ s.wants # None -> TakesValue(s, arg)
    [] OTHER -> CASE arg \in {"help", "version"}                   -> [s EXCEPT !.exit = 0]
                  [] arg = "listen" /\ s.opts["listen"] # None     -> [s EXCEPT !.exit = 1]
                  [] arg \in Options \ {"listen"}
                     \/ (arg = "listen" /\ s.opts["listen"] = None) -> [s EXCEPT !.wants = arg]
                  [] OTHER                                         -> [s EXCEPT !.exit = 1]

\* Before the first argument, and after each.
Turns(args) ==
  LET s[n \in 0 .. Len(args)] == IF n = 0 THEN [opts |-> Unset, wants |-> None, exit |-> None]
                                          ELSE Argument(s[n - 1], args[n])
  IN s

from_cli(args) ==
  LET s == Turns(args)[Len(args)]
  IN IF s.exit = None /\ s.wants # None THEN [s EXCEPT !.exit = 1] ELSE s

\* The command line wins.
Merged(env, cli) == [o \in Options |-> IF cli[o] # None THEN cli[o] ELSE env[o]]

WithDefaults(opts) == [o \in Options |-> IF opts[o] # None THEN opts[o] ELSE Defaults[o]]

Number(config, o) == Numbers[config[o]]

\* The byte budget has room for one chunk.
BudgetHoldsChunk(opts) ==
  Number(WithDefaults(opts), "max_active_upload_bytes") >= Number(WithDefaults(opts), "chunk_size")

\* "bad" stands for an address, a directory or a PEM file that is none.
Accepted(opts) ==
  /\ \A o \in Numeric : opts[o] # None => opts[o] \in DOMAIN Numbers
  /\ \A o \in {"listen", "store_path"} \cup Files : opts[o] # "bad"
  /\ \A o \in Limits : Number(WithDefaults(opts), o) # 0
  /\ BudgetHoldsChunk(opts)
  /\ opts["tls_cert"] = None <=> opts["tls_key"] = None

\* from_env_and_cli: the exit status, or the options the server runs with.
Loaded(args, env) ==
  LET cli  == from_cli(args)
      opts == Merged(env, cli.opts)
  IN [exit   |-> IF cli.exit # None THEN cli.exit ELSE IF Accepted(opts) THEN None ELSE 1,
      config |-> WithDefaults(opts)]
=============================================================================
