SPECIFICATION Spec
CONSTANTS
    MaxLinks = 1
    MaxTroubles = 1
INVARIANTS
    ChatOutlivesSignaling
CHECK_DEADLOCK FALSE
