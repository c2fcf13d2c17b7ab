---------------------------- MODULE MCDiscovery ----------------------------
(* Small instance of Discovery: the start page, three more pages and the    *)
(* robots.txt of the target, and a page on each of two other hosts.         *)
EXTENDS Discovery, TLC

CONSTANTS home, a, b, deep, rob, api, ext, rob2, root, sub, other, www

MCUrls == {home, a, b, deep, rob, api, ext, rob2}

MCHost ==
    [u \in MCUrls |-> IF u = api THEN sub ELSE IF u \in {ext, rob2} THEN other ELSE root]

\* Only the one of the start page is ever looked up.
MCRobotsOf == [u \in MCUrls |-> IF MCHost[u] = root THEN rob ELSE rob2]

Site(h, p, q, d) ==
    [u \in MCUrls |-> IF u = home THEN h ELSE IF u = a THEN p ELSE IF u = b THEN q
                      ELSE IF u = deep THEN d ELSE {}]

\* A site in which one page is one and two links away; one that links in
\* circles, to itself, to its robots.txt and to other hosts.
MCWebs ==
    {Site({a, b}, {deep, b}, {api, home}, {api}),
     Site({a, home, rob}, {b, ext}, {deep, a, api}, {b})}

Setting(pages, depth, hosts, excluded, honor) ==
    [maxPages |-> pages, maxDepth |-> depth, allowedHosts |-> hosts,
     excludedPaths |-> excluded, honorRobots |-> honor]

MCSettings ==
    {Setting(0, 2, {root, sub, other}, {}, TRUE), Setting(4, 3, {root, sub}, {}, FALSE),
     Setting(2, 3, {}, {deep}, TRUE), Setting(0, -1, {root}, {}, FALSE)}

MCRobotsFiles == {{}, {b}, {home}, {api, a}}

\* One page redirects to another, which a setting excludes.
MCRedirects == [u \in MCUrls |-> IF u = a THEN {deep} ELSE {}]
=============================================================================
