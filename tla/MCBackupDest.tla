----------------------------- MODULE MCBackupDest -----------------------------
(* BackupDest over one directory "r" of each scheme, written with zero, one *)
(* or two trailing slashes, and storage-info strings that reach every      *)
(* branch of the token loop and of the per-type post-checks.               *)
EXTENDS BackupDest

MCRoot(t, slashes) == <<Scheme[t], "/", "/", "r">> \o slashes
MCRoots == {MCRoot(t, s) : t \in Types, s \in {<<>>, <<"/">>, <<"/", "/">>}}

MCCreds == <<"host=", "h", "&", "access_id=", "a", "&", "access_key=", "k">>
MCAuth  == <<"access_id=", "a", "&", "access_key=", "k">>

\* Storage-info strings: none, the credentials alone and with each
\* extension (valid or not), a duplicated host or key, a missing key,
\* empty and unknown tokens, an appid alone.
MCInfos ==
  { <<>>,
    MCCreds,
    MCCreds \o <<"&", "appid=", "1">>,
    MCCreds \o <<"&", "delete_mode=", "delete">>,
    MCCreds \o <<"&", "delete_mode=", "bad">>,
    <<"host=", "h", "&">> \o MCCreds,
    MCCreds \o <<"&", "access_key=", "k">>,
    <<"host=", "h", "&", "access_id=", "a">>,
    <<"&">> \o MCCreds \o <<"&", "x=", "1", "&">>,
    <<"appid=", "1">> }

\* A FILE destination given credentials.
MCFileCreds == {<<r, MCCreds>> : r \in {MCRoot("FILE", <<"/">>)}}

\* The requests the specification calls well formed for their scheme, and
\* ill-formed ones the code must reject: everything but FILE with
\* credentials.
MCRequests ==
  {<<r, i>> \in MCRoots \X MCInfos :
     ~(r[1] = Scheme["FILE"] /\ \E k \in {"host=", "access_id=", "access_key="} :
                                  \E n \in 1..Len(i) : i[n] = k)}

MCAllRequests == MCRequests \cup MCFileCreds

MCFourArgs ==
  { [authorization |-> <<>>, endpoint |-> <<>>,
     extension |-> <<>>, path |-> MCRoot("FILE", <<"/">>)],
    [authorization |-> <<>>, endpoint |-> <<"host=", "h">>,
     extension |-> <<>>, path |-> MCRoot("FILE", <<>>)],
    [authorization |-> MCAuth, endpoint |-> <<"host=", "h">>,
     extension |-> <<>>, path |-> MCRoot("OSS", <<"/", "/">>)],
    [authorization |-> MCAuth, endpoint |-> <<>>,
     extension |-> <<>>, path |-> MCRoot("OSS", <<>>)],
    [authorization |-> MCAuth \o <<"&", "x=", "1">>, endpoint |-> <<"host=", "h">>,
     extension |-> <<>>, path |-> MCRoot("OSS", <<>>)],
    [authorization |-> MCAuth, endpoint |-> <<"host=", "h">>,
     extension |-> <<"appid=", "1">>, path |-> MCRoot("COS", <<"/">>)] }
=============================================================================
