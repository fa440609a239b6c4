------------------------------ MODULE GeoLoader ------------------------------
(***************************************************************************)
(* The loader of a geo database (geo_loader.go and v2geo/load.go): a file  *)
(* that is fetched when it is missing or a week old, unless the            *)
(* configuration names another one, and is then read and parsed.  geoip    *)
(* and geosite are loaded in the same way, each from a file of its own.    *)
(*                                                                         *)
(* The file outlives the process, which can be killed between any two      *)
(* steps.  The network, the server and the clock are outside src/.         *)
(***************************************************************************)

VARIABLES
  named,     \* the configuration names the file
  disk,      \* the file, and whether it is older than the update interval
  net,       \* the network and the server do what they should
  load,      \* where LoadGeoSite is
  sent,      \* LoadGeoSite was sent the database, with a mark of its end
  db         \* the database the last LoadGeoSite has returned

loaderVars == <<named, disk, net, load, sent, db>>

\* What a file holds: nothing; the beginning of a database, up to the end of an
\* entry, which parses like a whole one (an empty file does); what does not
\* parse; or the database.
Kind == {"absent", "short", "broken", "whole"}

Databases == {"short", "whole"}

LoaderInit ==
  /\ named \in BOOLEAN
  /\ disk \in [kind : {"absent", "whole"}, old : {FALSE}]
  /\ net \in BOOLEAN
  /\ load = "no"
  /\ sent = FALSE
  /\ db = "none"

-----------------------------------------------------------------------------
\* The update interval has passed.
Age ==
  /\ disk.kind # "absent"
  /\ load # "copy"
  /\ disk' = [disk EXCEPT !.old = TRUE]
  /\ UNCHANGED <<named, net, load, sent, db>>

NetChanges ==
  /\ net' = ~net
  /\ UNCHANGED <<named, disk, load, sent, db>>

-----------------------------------------------------------------------------
\* Faulty: only a missing file is fetched.
DownloadMissing == disk.kind = "absent"

\* A file that could not be written to its end is there and new.
shouldDownload == disk.kind = "absent" \/ disk.old

\* LoadGeoSite of a loader that has no map yet.
LoadGeoSite ==
  /\ load' = IF ~named /\ shouldDownload THEN "get" ELSE "parse"
  /\ sent' = FALSE
  /\ db' = "none"
  /\ UNCHANGED <<named, disk, net>>

\* http.Get fails, or os.Create does.
GetFails ==
  /\ load = "get"
  /\ ~net
  /\ load' = "failed"
  /\ UNCHANGED <<named, disk, net, sent, db>>

\* The server answers, and os.Create empties the file.  The status is not looked
\* at: the answer may also be an error page, perhaps an empty one, or a database
\* that ends where the connection does.
Get ==
  /\ load = "get"
  /\ load' = "copy"
  /\ disk' = [kind |-> "short", old |-> FALSE]
  /\ sent' \in IF net THEN {TRUE} ELSE BOOLEAN
  /\ UNCHANGED <<named, net, db>>

\* io.Copy writes a part of the answer.
Write ==
  /\ load = "copy"
  /\ disk' \in [kind : {"short", "broken"}, old : {disk.old}]
  /\ UNCHANGED <<named, net, load, sent, db>>

\* io.Copy writes the rest, and there is no error.
WriteLast ==
  /\ load = "copy"
  /\ disk' \in [kind : IF sent THEN {"whole"} ELSE {"short", "broken", "whole"},
               old  : {disk.old}]
  /\ load' = "parse"
  /\ UNCHANGED <<named, net, sent, db>>

\* Faulty: the error of io.Copy is only logged.
LogWriteError ==
  /\ load = "copy"
  /\ ~net
  /\ load' = "parse"
  /\ UNCHANGED <<named, disk, net, sent, db>>

\* The answer breaks off, or the disk is full: what was written stays.
WriteFails ==
  /\ load = "copy"
  /\ ~net
  /\ load' = "failed"
  /\ UNCHANGED <<named, disk, net, sent, db>>

\* v2geo.LoadGeoSite: the file is read and unmarshalled.
Parse ==
  /\ load = "parse"
  /\ IF disk.kind \in Databases THEN load' = "loaded" /\ db' = disk.kind
                                ELSE load' = "failed" /\ UNCHANGED db
  /\ UNCHANGED <<named, disk, net, sent>>

\* The process is gone, and the file stays as it is.
LoaderGone ==
  /\ load' = "no"
  /\ sent' = FALSE
  /\ db' = "none"
  /\ UNCHANGED <<named, disk, net>>

\* Steps that wait for the network: http.Get has no timeout.
Transfer == GetFails \/ Get \/ Write \/ WriteLast \/ WriteFails
-----------------------------------------------------------------------------
LoaderTypeOK ==
  /\ named \in BOOLEAN
  /\ disk \in [kind : Kind, old : BOOLEAN]
  /\ net \in BOOLEAN
  /\ load \in {"no", "get", "copy", "parse", "loaded", "failed"}
  /\ sent \in BOOLEAN
  /\ db \in Databases \cup {"none"}
=============================================================================
