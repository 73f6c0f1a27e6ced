---------------------------- MODULE DriverStart ----------------------------
(***************************************************************************)
(* The life of the driver's process: main reads the configuration file     *)
(* (client/config.go) once, NewDriver makes a client of it or none, and    *)
(* serve (server.go) takes over the socket.  The process may end at any    *)
(* time, by a signal, a fatal error or a panic; kubelet starts it again.   *)
(*                                                                         *)
(* The file is on the node, written line by line and at any time.          *)
(***************************************************************************)
EXTENDS Integers, SequencesExt, TLC

CONSTANTS
  Lines,       \* what an operator may write on a line
  MaxLines,    \* bound on the lines of the file
  Endpoints,   \* values of --endpoint
  MaxEnds,     \* bound on ends of the process other than a failure to start
  None

VARIABLES
  file,        \* the lines of the configuration file, None if there is none
  step,        \* what the process does next
  endpoint,    \* the --endpoint it is started with
  config,      \* the configuration it has loaded
  client,      \* the credentials of its client, None without a client
  leftover,    \* there is a file at the path of the socket
  endsLeft     \* how many more times the process may end

process == <<step, config, client, leftover, endsLeft>>
vars == <<file, endpoint, process>>

\* A line, without the spaces around its parts and the quotes around its value.
Header(s) == [kind |-> "header", section |-> s]
Pair(k, v) == [kind |-> "pair", key |-> k, value |-> v]
Comment == [kind |-> "other"]       \* or an empty or malformed line
TooLong == [kind |-> "too long"]    \* for the scanner

Credentials(url, token) == [APIURL |-> url, ProviderToken |-> token]
NoCredentials == Credentials("", "")

ASSUME StartAssumption == /\ MaxLines \in Nat /\ MaxEnds \in Nat
                          /\ \A e \in Endpoints : e.address # ""

-----------------------------------------------------------------------------
\* Defect: a header with the name of an earlier section starts it afresh.
ParsedAfresh(state, line) ==
  CASE line.kind = "header" ->
         [at |-> line.section, sections |-> line.section :> <<>> @@ state.sections]
    [] line.kind = "pair" /\ state.at # "" ->
         [state EXCEPT !.sections[state.at] = line.key :> line.value @@ @]
    [] OTHER -> state

\* What parseINIFile makes of one more line: the section it is in and the
\* pairs of each section; pairs before any header, or below "[]", are skipped.
ParsedLine(state, line) ==
  CASE line.kind = "header" ->
         [at |-> line.section, sections |-> state.sections @@ line.section :> <<>>]
    [] line.kind = "pair" /\ state.at # "" ->
         [state EXCEPT !.sections[state.at] = line.key :> line.value @@ @]
    [] OTHER -> state

parseINIFile(lines) ==
  FoldLeft(ParsedLine, [at |-> "", sections |-> <<>>], lines).sections

Given(section, key) == key \in DOMAIN section /\ section[key] # ""

\* The credentials in the section vCloud, or an error (None).
LoadConfigFromFile(lines) ==
  LET sections == parseINIFile(lines)
      vcloud == sections["vCloud"]
  IN IF /\ TooLong \notin Range(lines)
        /\ "vCloud" \in DOMAIN sections
        /\ Given(vcloud, "MGMT_URL") /\ Given(vcloud, "PROVIDER_TOKEN")
     THEN Credentials(vcloud["MGMT_URL"], vcloud["PROVIDER_TOKEN"])
     ELSE None

\* The protocol, by the prefix of the endpoint; without a prefix, a path.
parseEndpoint(e) == IF e.scheme = "tcp://" THEN "tcp" ELSE "unix"

-----------------------------------------------------------------------------
Goes(s) == step' = s /\ UNCHANGED <<file, endpoint>>
Exits == Goes("down") /\ UNCHANGED <<config, client, leftover>>

\* kubelet starts the container.
Starts == /\ step = "down" /\ Goes("stat")
          /\ config' = NoCredentials /\ client' = None
          /\ UNCHANGED <<leftover, endsLeft>>

\* main: without the file, or with one that does not load, node-only mode.
Stats == /\ step = "stat" /\ Goes(IF file = None THEN "driver" ELSE "load")
         /\ UNCHANGED <<config, client, leftover, endsLeft>>
Loads ==
  LET loaded == IF file = None THEN None ELSE LoadConfigFromFile(file)
  IN /\ step = "load" /\ Goes("driver")
     /\ config' = IF loaded = None THEN NoCredentials ELSE loaded
     /\ UNCHANGED <<client, leftover, endsLeft>>

NewDriver ==
  /\ step = "driver" /\ Goes("remove")
  /\ client' = IF config.APIURL # "" /\ config.ProviderToken # "" THEN config ELSE None
  /\ UNCHANGED <<config, leftover, endsLeft>>

\* Defect: the socket that an earlier process left behind stays.
RemovesNothing == /\ step = "remove" /\ Goes("listen")
                  /\ UNCHANGED <<config, client, leftover, endsLeft>>

\* serve: a socket that is left over is removed; Listen would refuse it.
Removes == /\ step = "remove" /\ Goes("listen")
           /\ leftover' = (leftover /\ parseEndpoint(endpoint) # "unix")
           /\ UNCHANGED <<config, client, endsLeft>>
Listens ==
  /\ step = "listen"
  /\ IF parseEndpoint(endpoint) = "unix" /\ leftover
     THEN Exits /\ UNCHANGED endsLeft
     ELSE /\ Goes("serving")
          /\ leftover' = (leftover \/ parseEndpoint(endpoint) = "unix")
          /\ UNCHANGED <<config, client, endsLeft>>

\* The process ends, and leaves the socket where it is: os.Exit closes no
\* listener.
Ends == step # "down" /\ endsLeft > 0 /\ endsLeft' = endsLeft - 1 /\ Exits

\* The operator writes the file from the start, or its next line.
Rewrites == file' = <<>> /\ UNCHANGED <<endpoint, process>>
Writes(line) == /\ file # None /\ Len(file) < MaxLines
                /\ file' = Append(file, line) /\ UNCHANGED <<endpoint, process>>

Init == /\ file = None /\ endpoint \in Endpoints
        /\ step = "down" /\ config = NoCredentials /\ client = None
        /\ leftover = FALSE /\ endsLeft = MaxEnds

Progress == Starts \/ Stats \/ Loads \/ NewDriver \/ Removes \/ Listens

Next == Progress \/ Ends \/ Rewrites \/ \E line \in Lines : Writes(line)

\* kubelet restarts what has ended, and a process runs.
FairSpec == Init /\ [][Next]_vars /\ WF_vars(Progress)
=============================================================================
