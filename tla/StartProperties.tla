-------------------------- MODULE StartProperties --------------------------
(***************************************************************************)
(* What is asked of the driver's start.                                    *)
(***************************************************************************)
EXTENDS DriverStart

-----------------------------------------------------------------------------
\* What a file says of a key: the value on the last line for the key of which
\* the last header above is [vCloud].
Under(lines, i, section) ==
  \E j \in 1..i : /\ lines[j] = Header(section)
                  /\ \A k \in j + 1..i : lines[k].kind # "header"
Says(lines, key) ==
  LET at == {i \in DOMAIN lines : /\ lines[i].kind = "pair" /\ lines[i].key = key
                                  /\ Under(lines, i, "vCloud")}
  IN IF at = {} THEN "" ELSE lines[Max(at)].value

\* main loads what the file says when it is read (parseINIFile against its
\* meaning): sections that come in parts, keys given twice or taken back,
\* keys outside of the section; and nothing of a file that lacks either key,
\* as one does that is still being written.
LoadedAsWritten ==
  [][step = "load" /\ step' = "driver" =>
       LET url == Says(file, "MGMT_URL")
           token == Says(file, "PROVIDER_TOKEN")
           whole == /\ file # None /\ TooLong \notin Range(file)
                    /\ url # "" /\ token # ""
       IN config' = IF whole THEN Credentials(url, token) ELSE NoCredentials]_vars

\* The driver serves again however and whenever it ended, in particular after
\* it has left a socket behind (serve removes it), and with whatever file.
ServesAgain == []<>(step = "serving")
=============================================================================
