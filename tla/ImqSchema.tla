----------------------------- MODULE ImqSchema -----------------------------
(***************************************************************************)
(* The wire record every IndisMQ implementation exchanges, after           *)
(* schema/IndisMQ.fbs.  Bodies, status texts, error codes and the version  *)
(* are left out: no control flow of the library reads them.  The Callback  *)
(* flag is left out too: it is written by makeImq and read by nobody.      *)
(***************************************************************************)
EXTENDS Naturals

CONSTANTS
  Name,     \* client names, the values of From and To
  Path,     \* destinations, the keys of handlers and subscribers
  NoName,   \* the empty To
  NoPath,   \* the empty Path
  MaxId     \* number of identifiers newUID may hand out

ASSUME SentinelAssumption == NoName \notin Name /\ NoPath \notin Path

ASSUME MaxIdAssumption == MaxId \in Nat

MsgType == {"SINGLE", "CAST", "QUEUE", "CMD"}

Cmd == {"NONE", "SUB", "UNSUB", "SYN", "READY"}

Sts == {"ERROR", "REQ", "REP", "SUCCESS"}

\* An identifier stands for the position of the newUID call that made it:
\* identifiers are only ever compared for equality.
Id == 1 .. MaxId

Imq == [id     : Id,
        from   : Name,
        to     : Name \cup {NoName},
        broker : BOOLEAN,
        path   : Path \cup {NoPath},
        type   : MsgType,
        sts    : Sts,
        cmd    : Cmd]
=============================================================================
