SPECIFICATION LifecycleSpec
CONSTANTS
    up = up
    preview = preview
    closer = closer
    sweeper = sweeper
    here = here
    there = there
    Unbound = Unbound
    Ups = {up}
    Previews = {preview}
    Closers = {closer}
    Sweepers = {sweeper}
    Home <- TwoContexts
    Events = {"crash", "replace", "force"}
    MaxEvents = 2
    MaxIncarnation = 3
    MaxResources = 3
INVARIANTS
    NothingOrphaned
    OneClusterPerName
PROPERTIES
    BoundIntentStays
    PreviewAdmittedOnce
\* The bounds on incarnations and resources end a behaviour.
CHECK_DEADLOCK FALSE
