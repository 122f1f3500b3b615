-------------------------------- MODULE MCIngest --------------------------------
EXTENDS Ingest
MCFeed == <<"trade", "depthUpdate", "trade">>
=============================================================================
