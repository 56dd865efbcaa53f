------------------------------ MODULE MCLaunch ------------------------------
(* Small instances of Launch for TLC.                                      *)
EXTENDS Launch

In(place, more) == [Fields -> {Absent, place} \cup more]
Provided(sources, kinds, args, environ, file) ==
    [source : sources, kind : kinds, args : args, environ : environ, file : file]

\* The command line alone; with the environment; with a file.  Empty settings where
\* there are two places at most, and an environment whose empty ones hide a file's;
\* a YAML file with values that are no strings.
MCSettings ==
    Provided({"cli"}, {"none"}, In("command line", {Empty}), {NoConfig}, {NoConfig})
    \cup Provided({"env"}, {"none"}, In("command line", {Empty}),
                  In("environment", {Empty}), {NoConfig})
    \cup Provided({"file"}, {"yaml", "dotenv", "default"}, In("command line", {}),
                  In("environment", {}) \cup [Fields -> {Absent, Empty}], In("file", {}))
    \cup Provided({"file"}, {"missing", "none"}, In("command line", {}),
                  In("environment", {}), {NoConfig})
    \cup Provided({"file"}, {"yaml"}, In("command line", {}),
                  In("environment", {}), In("file", {Mistyped}))
=============================================================================
