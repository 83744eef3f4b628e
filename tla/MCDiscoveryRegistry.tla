------------------------ MODULE MCDiscoveryRegistry ------------------------
\* DiscoveryRegistry without the contents of deleted files, and without the
\* ghosts that say nothing any more once the run is disturbed.
EXTENDS DiscoveryRegistry

Linked == <<cleanup, file, devices, known, session, broker, path, tmp,
            [i \in InUse \ {NoFile} |-> content[i]], todo, disturbed, collided,
            IF disturbed THEN {} ELSE <<overwritten, uncleaned>> >>
=============================================================================
