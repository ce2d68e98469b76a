------------------------------- MODULE Config -------------------------------
(***************************************************************************)
(* How dcos-log finds its configuration: defaults, overridden by flags,    *)
(* overridden by a file; the file and the result are both held against     *)
(* one schema.  A document maps the options it sets to their values; the   *)
(* input of NewConfig is a record                                          *)
(*   parses  whether flag.Parse accepts the arguments                      *)
(*   flags   the document of the flags given                               *)
(*   file    "none", "unreadable" or "given": what -config names           *)
(*   doc     the document in the file                                      *)
(* A value whose JSON type is not the option's is Mistyped: flag.Parse lets *)
(* none pass, a file may hold one.                                         *)
(* "verbose" only selects what is logged and is left out.                  *)
(***************************************************************************)
EXTENDS Integers, TLC

CONSTANT Mistyped

Roles == {"master", "agent", "agent_public"}
Ports == 1024 .. 65535
Options == {"port", "config", "auth", "ca-cert", "timeout", "role"}

NoOptions == [o \in {} |-> ""]

Defaults ==
  [o \in Options \ {"config"} |->
     CASE o = "port" -> 8080 [] o = "auth" -> FALSE [] o = "timeout" -> "5s" [] OTHER -> ""]

\* The schema: role is required, other options than the known ones and values of other
\* types than theirs are refused.
Valid(doc) ==
  /\ DOMAIN doc \subseteq Options
  /\ \A o \in DOMAIN doc : doc[o] # Mistyped
  /\ "role" \in DOMAIN doc
  /\ doc["role"] \in Roles
  /\ "port" \in DOMAIN doc => doc["port"] \in Ports

FileOptions(in) == IF in.file = "given" THEN in.doc ELSE NoOptions

\* json.Unmarshal of the file into the struct that holds the flags' values; the
\* struct's FlagConfig has no JSON name.
Effective(in) ==
  [o \in DOMAIN Defaults |-> (FileOptions(in) @@ in.flags @@ Defaults)[o]]

\* Mutant of ValidStruct: only the file is validated.
AnyStruct(doc) == TRUE

ValidStruct(doc) == Valid(doc)

\* The file is validated by itself: it has to name the role even where a flag does.
ValidFile(in) ==
  /\ in.file # "unreadable"
  /\ in.file = "given" => Valid(in.doc)

\* NewConfig returns a configuration and no error.
Loads(in) ==
  /\ in.parses
  /\ ValidFile(in)
  /\ ValidStruct(Effective(in))
=============================================================================
