SPECIFICATION FairLifecycle
CONSTANTS
    up = up
    preview = preview
    closer = closer
    sweeper = sweeper
    here = here
    there = there
    Unbound = Unbound
    Ups = {up}
    Previews = {preview}
    Closers = {closer}
    Sweepers = {sweeper}
    Home <- OneContext
    Events = {"crash", "late", "replace"}
    MaxEvents = 2
    MaxIncarnation = 2
    MaxResources = 3
PROPERTIES
    TeardownCompletes
\* The bounds on incarnations and resources end a behaviour.
CHECK_DEADLOCK FALSE
