------------------------- MODULE MCSimpleapiDownload -------------------------
EXTENDS SimpleapiDownload, TLC

MCIndexUrls == <<"extra", "main">>

\* The first index gives no digests, the second one does.
File(url, version, kind, digest) ==
    [url |-> url, key |-> version, kind |-> kind, digest |-> digest]
Extra1 == File("extra/1.tar.gz", "1", "sdist", "")
Extra2 == File("extra/2.whl", "2", "whl", "")
Main1 == File("main/1.tar.gz", "1", "sdist", "sha256:1")
Main2 == File("main/2.whl", "2", "whl", "sha256:2")
MCFiles == {Extra1, Extra2, Main1, Main2}
MCMayList == [extra |-> {Extra1, Extra2}, main |-> {Main1, Main2}]

\* Package p is on both indexes, q on the second one only.
MCPublished ==
    [extra |-> [p |-> {Extra1}, q |-> {}],
     main |-> [p |-> {Main1, Main2}, q |-> {Main1}]]

\* No override, or one that takes p from the second index.
MCOverrides == {[p \in {} |-> ""], [p |-> "main"]}

\* Requirements of two hubs: they share p, at versions of which one is shared.
MCRequests == {[p |-> {"1"}], [p |-> {"1", "2"}, q |-> {"1"}]}
=============================================================================
