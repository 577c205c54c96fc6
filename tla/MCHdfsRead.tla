----------------------------- MODULE MCHdfsRead -----------------------------
\* HdfsRead with a few URLs.
EXTENDS HdfsRead

SmallNameNode ==
    {<<"h", ":", "/", "/", "n", ":", "1">>,   \* "h://n:1"
     <<"h", ":", "/", "/", "n">>}             \* no port

\* Three that are followed, the third without a domain, and five that are not.
SmallLocation ==
    {<<"h", ":", "/", "/", "d", ":", "1", "/", "f">>,
     <<"h", ":", "/", "/", "d", "d", ":", "1", "0", "/", "f", ":", "1", "/", "g">>,
     <<":", "/", "/", ":", "0", "/">>,
     <<"h", ":", "/", "/", "d", "/", "f">>,
     <<"h", ":", "/", "/", "d", ":", "1">>,
     <<"h", ":", "/", "/", "d", ":", "d", "/", "f">>,
     <<"h", ":", "1", "/", "/", "/", "f">>,
     <<"/", "f">>}

=============================================================================
