-------------------------------- MODULE Launch --------------------------------
(***************************************************************************)
(* The command line of the runner (xconn/_client/__main__.py, cli.py,      *)
(* helpers.py), up to the join of its client: which of the command line,   *)
(* the environment and a file a setting is taken from, which credentials   *)
(* are accepted together, and which way to authenticate they select.       *)
(*                                                                         *)
(* A setting is known by where its value comes from; `realm' stands for    *)
(* the url as well, since both are required and read alike.  The launched  *)
(* client joins next to the others of Join.                                *)
(***************************************************************************)
EXTENDS Join, FiniteSets

CONSTANTS Launched,  \* the client that the command line starts
          Secrets,   \* the settings that are credentials
          Settings   \* what the operator may have provided: a set of records

Absent == "absent"
Empty == "empty"
Mistyped == "mistyped"   \* not a string, `ticket: 12345' in YAML
Places == {"command line", "environment", "file"}
Required == {"realm"}
Fields == Required \cup {"authid"} \cup Secrets

ASSUME LaunchAssumption ==
    /\ Launched \in Clients
    /\ Secrets \subseteq {"private_key", "ticket", "secret"}
    /\ \A s \in Settings :
          /\ s.source \in {"cli", "env", "file"}
          /\ {s.args, s.environ} \subseteq [Fields -> Places \cup {Absent, Empty}]
          /\ s.file \in [Fields -> Places \cup {Absent, Empty, Mistyped}]
          /\ s.kind \in {"yaml", "dotenv", "missing", "default", "none"}
          /\ s.kind # "yaml" => \A f \in Fields : s.file[f] # Mistyped

VARIABLES
    stage,    \* "command", "loaded", "checked", "joining", or how it ended:
              \* "unconfigured", "refused", "failed"
    settings, \* --config-source, the arguments, os.environ, and the file with its
              \* kind: named by --config-file or not there, or a .env by default, or none
    config,   \* ClientConfig
    method    \* config.authmethod

launchVars == <<stage, settings, config, method>>

NoConfig == [f \in Fields |-> Absent]
NoSettings == [source |-> "cli", kind |-> "none",
               args |-> NoConfig, environ |-> NoConfig, file |-> NoConfig]

LaunchInit ==
    /\ Init
    /\ credential = [c \in Clients |-> "anonymous"]
    /\ stage = "command"
    /\ settings \in Settings
    /\ config = NoConfig
    /\ method = "none"

-----------------------------------------------------------------------------
(* Loading the configuration.                                              *)

NonEmpty(v) == v \notin {Absent, Empty}
Or(v, w) == IF v = Absent THEN w ELSE v
Over(upper, lower) == [f \in Fields |-> Or(upper[f], lower[f])]

\* ClientConfig: url and realm are strings, perhaps empty ones; so are the others
\* that are there.
Valid(c) == /\ \A f \in Required : c[f] # Absent
            /\ \A f \in Fields : c[f] # Mistyped

\* load_config_from_env: what is required must not be empty.
FromEnvironment(args, environ) ==
    [f \in Fields |-> IF f \in Required
                      THEN IF NonEmpty(args[f]) THEN args[f] ELSE environ[f]
                      ELSE Or(environ[f], args[f])]

\* Faulty: the command line is taken for read already.
UpdatedNot(c, args) == c

\* update_config_from_cli
Updated(c, args) == Over(args, c)

\* load_dotenv leaves alone what the environment has.  Without a path it looks for
\* .env from the directory of the package upwards, and may find none: external.
\* A YAML file has no lines that it understands.
Dotenv(s) ==
    CASE s.kind = "dotenv"  -> {Over(s.environ, s.file)}
      [] s.kind = "default" -> {Over(s.environ, s.file), s.environ}
      [] s.kind = "yaml"    -> {s.environ}
      [] OTHER              -> {}

\* load_config_from_file: any exception on the way through YAML leads to .env, a
\* ValidationError of ClientConfig included.
FromYaml(s) ==
    s.source = "file" /\ s.kind = "yaml" /\ Valid(Over(s.args, s.file))

\* The configurations that a source may give; none when the program exits.
Loaded(s) ==
    LET complete(E) == {c \in E : \A f \in Required : NonEmpty(c[f])}
    IN  CASE s.source = "cli" -> {c \in {s.args} : Valid(c)}
          [] s.source = "env" -> complete({FromEnvironment(s.args, s.environ)})
          [] FromYaml(s)      -> {Over(s.args, s.file)}
          [] OTHER            -> complete({FromEnvironment(s.args, e) : e \in Dotenv(s)})

End(how) ==
    /\ stage' = how
    /\ settings' = NoSettings
    /\ config' = NoConfig
    /\ UNCHANGED <<method, vars>>

\* handle_start
Load ==
    /\ stage = "command"
    /\ \E c \in Loaded(settings) :
          config' = IF settings.source = "cli" THEN c ELSE Updated(c, settings.args)
    /\ stage' = "loaded"
    /\ UNCHANGED <<settings, method, vars>>

LoadFails == stage = "command" /\ Loaded(settings) = {} /\ End("unconfigured")

-----------------------------------------------------------------------------
(* Credentials.                                                            *)

GivenSecrets(c) == {f \in Secrets : NonEmpty(c[f])}

\* validate_auth_inputs
Acceptable(c) ==
    /\ Cardinality(GivenSecrets(c)) <= 1
    /\ GivenSecrets(c) # {} => c["authid"] # Absent

\* select_authmethod; what select_authenticator makes of it.
MethodOf(f) == CASE f = "private_key" -> "cryptosign"
                 [] f = "secret"      -> "wampcra"
                 [] OTHER             -> f
AuthMethod(c) ==
    IF GivenSecrets(c) = {} THEN "anonymous"
    ELSE MethodOf(CHOOSE f \in Secrets : GivenSecrets(c) = {f})

Select ==
    /\ stage = "loaded"
    /\ Acceptable(config)
    /\ method' = AuthMethod(config)
    /\ stage' = "checked"
    /\ UNCHANGED <<settings, config, vars>>

Refuse == stage = "loaded" /\ ~Acceptable(config) /\ End("refused")

-----------------------------------------------------------------------------
(* Starting.                                                               *)

\* connect: the authenticator is made of method and config; what the router thinks
\* of them, and who else there is, is open.
Start ==
    /\ stage = "checked"
    /\ credential' \in [Clients -> Credentials]
    /\ credential'[Launched] \in {"refused", "invalid"} \cup
          IF method = "anonymous" THEN {"anonymous"} ELSE {"right", "wrong"}
    /\ stage' = "joining"
    /\ settings' = NoSettings
    /\ config' = NoConfig
    /\ UNCHANGED <<method, client, handler, netVars, realms, attached>>

\* import_app raises; --start-router does not listen in time; nobody else does.
StartFails == stage = "checked" /\ End("failed")

LaunchNext ==
    \/ Load \/ LoadFails \/ Select \/ Refuse \/ Start \/ StartFails
    \/ stage = "joining" /\ Next /\ UNCHANGED launchVars

allVars == <<launchVars, vars>>

LaunchSpec ==
    /\ LaunchInit /\ [][LaunchNext]_allVars
    /\ \A c \in Clients :
          /\ WF_allVars(stage = "joining" /\ JoinStep(c) /\ UNCHANGED launchVars)
          /\ WF_allVars(stage = "joining" /\ HandlerStep(c) /\ UNCHANGED launchVars)

-----------------------------------------------------------------------------
(* Properties                                                              *)

\* The value the operator gives for f: one on the command line in any case, otherwise
\* one in the chosen source.  A YAML file counts when ClientConfig takes it; the
\* environment hides the lines of a .env file.
Chosen(s, f) ==
    LET inFile == IF FromYaml(s) THEN s.file[f]
                  ELSE IF s.kind = "dotenv" THEN Or(s.environ[f], s.file[f])
                  ELSE Absent
        inSource == CASE s.source = "cli" -> Absent
                      [] s.source = "env" -> s.environ[f]
                      [] OTHER            -> inFile
    IN  Or(s.args[f], inSource)

\* The credential that the operator gives, if it is not empty, is the one the client
\* authenticates with, the value from that place and the method of its kind, and the
\* client is not anonymous by accident (cli.py 17-51: two loaders that each mix in the
\* command line, then it is mixed in again).  Four exceptions are the program's, all
\* of them silent: the credentials in a YAML file without a url or realm, and those in
\* one where any setting is not a string (`ticket: 12345'), are dropped when the
\* environment has url and realm; an empty variable hides a line of a .env file; and
\* a .env that --config-file does not name may not be found.
CredentialUsed ==
    stage = "checked" =>
        \A f \in Secrets :
            NonEmpty(Chosen(settings, f)) =>
                method = MethodOf(f) /\ config[f] = Chosen(settings, f)
=============================================================================
