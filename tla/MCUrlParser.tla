---------------------------- MODULE MCUrlParser ----------------------------
\* Pieces of URLs, well-formed or not, for UrlParser.
EXTENDS UrlParser

MCSchemes == {<<>>, <<"a", ":">>, <<"a", ":", "/", "/">>, <<"1", ":">>,
              <<"h", "t", "t", "p", ":", "/", "/">>}
MCUsers == {<<>>, <<"a", "@">>, <<"@">>, <<"@", "@">>, <<"a", ":", "1", "@">>}
MCHosts == {<<>>, <<"h", ".">>, <<"[", ":", "1", "]">>, <<"[", ":">>, <<"h", " ">>,
            <<"[", "a", "%", "2", "5", "h", "]">>}
MCPorts == {<<>>, <<":">>, <<":", "8", "0">>, <<":", "6", "5", "5", "3", "5">>,
            <<":", "6", "5", "5", "3", "6">>, <<":", "0", "0", "0", "0", "8", "0">>,
            <<":", "1", "h">>}
MCPaths == {<<>>, <<"/">>, <<"/", "@", "a">>, <<"/", "/", "h">>, <<"*", ":", "/">>,
            <<"/", "\t", "0x80">>}
MCQueries == {<<>>, <<"?">>, <<"?", "?", "/">>}
MCFragments == {<<>>, <<"#">>, <<"#", "#", "a">>, <<"#", "?">>}

=============================================================================
