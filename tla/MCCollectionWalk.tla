-------------------------- MODULE MCCollectionWalk --------------------------
EXTENDS CollectionWalk

EveryKind == Lists \cup Feeds
=============================================================================
