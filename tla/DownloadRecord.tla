--------------------------- MODULE DownloadRecord ---------------------------
(***************************************************************************)
(* What the subscriptions promise of their downloads: when one that the    *)
(* service has accepted ends, the entry that its URL has then, if any,     *)
(* records how: as a success exactly if this download has put the list     *)
(* file in place, however often that was there before.  The entry may be   *)
(* that of a later subscription.  A download the service refuses is not    *)
(* recorded, nor is one whose session or profile ends first; and entries   *)
(* come back in the next session as they are, or as last committed.        *)
(***************************************************************************)
CONSTANTS
  Url,   \* subscription URLs
  Slot   \* downloads of one URL

VARIABLES
  record,     \* what the entry says of the last attempt; "none" without an entry
  committed,  \* the same on disk
  download,   \* each download; "put" once it has put the list in place
  list        \* the list files

vars == <<record, committed, download, list>>

Records == {"none", "never", "failed", "succeeded"}
Downloads == {"none", "asked", "running", "put"}

NoDownloads == [u \in Url |-> [j \in Slot |-> "none"]]

Init ==
  /\ record = [u \in Url |-> "none"] /\ committed = record
  /\ download = NoDownloads
  /\ list = [u \in Url |-> "unwritten"]

\* Downloads of the URLs in U, some of those not under way, are asked for.
Asked(U) ==
  /\ download' \in [Url -> [Slot -> Downloads]]
  /\ \A u \in Url, j \in Slot :
       \/ download'[u][j] = download[u][j]
       \/ u \in U /\ download[u][j] = "none" /\ download'[u][j] = "asked"

Ask == Asked(Url) /\ UNCHANGED <<record, committed, list>>

\* A new entry, or one in the place of a disabled one.
Subscribe(u) ==
  /\ record' = [record EXCEPT ![u] = "never"]
  /\ Asked({u})
  /\ UNCHANGED <<committed, list>>

Unsubscribe(u) ==
  /\ record' = [record EXCEPT ![u] = "none"]
  /\ UNCHANGED <<committed, download, list>>

Move(u, j, from, to) ==
  /\ download[u][j] = from
  /\ download' = [download EXCEPT ![u][j] = to]

Accept(u, j) == Move(u, j, "asked", "running") /\ UNCHANGED <<record, committed, list>>

Refuse(u, j) == Move(u, j, "asked", "none") /\ UNCHANGED <<record, committed, list>>

Put(u, j) ==
  /\ Move(u, j, "running", "put")
  /\ list' = [list EXCEPT ![u] = "present"]
  /\ UNCHANGED <<record, committed>>

Recorded(u, outcome) ==
  record' = [record EXCEPT ![u] = IF @ = "none" THEN @ ELSE outcome]

End(u, j) ==
  /\ \/ Move(u, j, "put", "none") /\ Recorded(u, "succeeded")
     \/ Move(u, j, "running", "none") /\ Recorded(u, "failed")
  /\ UNCHANGED <<committed, list>>

\* The profile ends.  The file operations of its downloads may still be done.
Abandon ==
  /\ download' = NoDownloads
  /\ UNCHANGED <<record, committed, list>>

PutLate(u) ==
  /\ list' = [list EXCEPT ![u] = "present"]
  /\ UNCHANGED <<record, committed, download>>

Remove(u) ==
  /\ list[u] = "present"
  /\ list' = [list EXCEPT ![u] = "deleted"]
  /\ UNCHANGED <<record, committed, download>>

Commit ==
  /\ committed' = record
  /\ UNCHANGED <<record, download, list>>

Restart ==
  /\ record' \in {record, committed} /\ committed' = record'
  /\ download' = NoDownloads
  /\ UNCHANGED list

Next ==
  \/ Ask \/ Abandon \/ Commit \/ Restart
  \/ \E u \in Url :
       \/ Subscribe(u) \/ Unsubscribe(u) \/ PutLate(u) \/ Remove(u)
       \/ \E j \in Slot : Accept(u, j) \/ Refuse(u, j) \/ Put(u, j) \/ End(u, j)

Spec == Init /\ [][Next]_vars
=============================================================================
