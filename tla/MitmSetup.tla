----------------------------- MODULE MitmSetup ------------------------------
(***************************************************************************)
(* The commands that turn the MITM proxy on and off ("9router-go mitm      *)
(* enable" and "disable", cmd/9router-go/commands.go): Manager.Enable adds *)
(* the intercepted domains to the hosts file, makes sure of a root         *)
(* certificate on disk and starts the server; Manager.Disable undoes the   *)
(* hosts entries (internal/mitm/manager.go, dns.go, cert.go).  Each        *)
(* command is a process of its own, run one after the other, that can be   *)
(* killed at any step; a file being written is empty until the write is    *)
(* over.                                                                   *)
(***************************************************************************)
EXTENDS Naturals

CONSTANTS
    MaxEnables, \* bound: enable commands
    None

\* What can be in the file of the root certificate, and of its key: nothing, a torn write, or
\* the n-th pair that was generated.
Torn == 0
Generations == 1 .. MaxEnables

VARIABLES
    hosts,     \* how often each line of this program is in the hosts file
    cert, key, \* the two files of the root certificate
    trusted,   \* the certificate the system trusts
    pc,        \* the step the command is at, "idle" between two commands
    pair,      \* the pair the command generated
    listening, \* a server listens on port 443
    enables,   \* enable commands run so far, and pairs at most generated
    says       \* what the last command reported: "enabled", "disabled", "failed", or None

vars == <<hosts, cert, key, trusted, pc, pair, listening, enables, says>>
files == <<cert, key, trusted, pair>>

Steps == {"hosts", "load", "cert", "certing", "key", "keying", "install", "start", "up", "remove"}

\* hostsEntries: the domains between two comments.
HostsEntries == {"# 9router-mitm", "redirect", "# end 9router-mitm"}

Init ==
    /\ hosts = [l \in HostsEntries |-> 0] /\ cert = None /\ key = None /\ trusted = None
    /\ pc = "idle" /\ pair = None /\ listening = FALSE /\ enables = 0 /\ says = None

\* The sed command of RemoveHostsEntries deletes the lines that hold "# 9router-mitm".
Removed(lines) == [lines EXCEPT !["# 9router-mitm"] = 0]

Ends(result) == pc' = "idle" /\ says' = result

Enable ==
    /\ pc = "idle" /\ enables < MaxEnables
    /\ pc' = "hosts" /\ enables' = enables + 1
    /\ UNCHANGED <<hosts, files, listening, says>>

AddHosts ==
    /\ pc = "hosts"
    /\ \/ hosts' = [l \in HostsEntries |-> hosts[l] + 1] /\ pc' = "load" /\ UNCHANGED says
       \/ Ends("failed") /\ UNCHANGED hosts  \* sudo refused
    /\ UNCHANGED <<files, listening, enables>>

\* A file parses when its write was completed; that the two belong together is not asked.
Loads == cert \in Generations /\ key \in Generations

LoadCA ==
    /\ pc = "load"
    /\ IF Loads THEN pc' = "start" /\ UNCHANGED pair
       ELSE pc' = "cert" /\ pair' = enables
    /\ UNCHANGED <<hosts, cert, key, trusted, listening, enables, says>>

(***************************************************************************)
(* A plausible slip: a certificate that is there is kept, and only the key *)
(* is written.                                                             *)
(***************************************************************************)
KeepsCert == cert \in Generations

SkipsCert == FALSE

\* os.WriteFile truncates a file before it writes it.
Writes(at, to) == pc = at /\ pc' = to /\ UNCHANGED <<hosts, trusted, pair, listening, enables, says>>

TruncateCert == Writes("cert", "certing") /\ cert' = (IF SkipsCert THEN cert ELSE Torn) /\ UNCHANGED key
WriteCert == Writes("certing", "key") /\ cert' = (IF SkipsCert THEN cert ELSE pair) /\ UNCHANGED key
TruncateKey == Writes("key", "keying") /\ key' = Torn /\ UNCHANGED cert
WriteKey == Writes("keying", "install") /\ key' = pair /\ UNCHANGED cert

WriteFails ==
    /\ pc \in {"cert", "certing", "key", "keying"}
    /\ Ends("failed") /\ hosts' = Removed(hosts)
    /\ UNCHANGED <<files, listening, enables>>

\* Copying the certificate to the trust store may fail; the command goes on.
InstallRootCA ==
    /\ pc = "install" /\ pc' = "start"
    /\ trusted' \in {trusted, pair}
    /\ UNCHANGED <<hosts, cert, key, pair, listening, enables, says>>

\* Server.Start loads the pair once more and listens.
StartServer ==
    /\ pc = "start"
    /\ \/ pc' = "up" /\ listening' = TRUE /\ UNCHANGED <<hosts, says>>
       \/ Ends("failed") /\ hosts' = Removed(hosts) /\ UNCHANGED listening
    /\ UNCHANGED <<files, enables>>

\* Enable has succeeded: mitmEnable prints so and returns, and with main its process ends.
Return ==
    /\ pc = "up"
    /\ Ends("enabled") /\ listening' = FALSE
    /\ UNCHANGED <<hosts, files, enables>>

\* The Manager of the disable command has no server to stop.
Disable ==
    /\ pc = "idle" /\ enables > 0 /\ says # "disabled"
    /\ pc' = "remove"
    /\ UNCHANGED <<hosts, files, listening, enables, says>>

RemoveHosts ==
    /\ pc = "remove"
    /\ \/ Ends("disabled") /\ hosts' = Removed(hosts)
       \/ Ends("failed") /\ UNCHANGED hosts
    /\ UNCHANGED <<files, listening, enables>>

Killed ==
    /\ pc # "idle"
    /\ Ends("failed") /\ listening' = FALSE
    /\ UNCHANGED <<hosts, files, enables>>

Next ==
    \/ Enable \/ AddHosts \/ LoadCA \/ TruncateCert \/ WriteCert \/ TruncateKey \/ WriteKey
    \/ WriteFails \/ InstallRootCA \/ StartServer \/ Return \/ Disable \/ RemoveHosts \/ Killed

Spec == Init /\ [][Next]_vars

TypeOK ==
    /\ hosts \in [HostsEntries -> Nat]
    /\ {cert, key} \subseteq Generations \cup {None, Torn}
    /\ {trusted, pair} \subseteq Generations \cup {None}
    /\ pc \in Steps \cup {"idle"} /\ listening \in BOOLEAN /\ enables \in 0 .. MaxEnables
    /\ says \in {None, "enabled", "disabled", "failed"}

(***************************************************************************)
(* A root certificate and a key that both parse are of one pair, wherever  *)
(* the commands that wrote them were killed: otherwise no leaf could be    *)
(* signed until somebody deletes the files.                                *)
(***************************************************************************)
CAPairMatches == Loads => cert = key
=============================================================================
