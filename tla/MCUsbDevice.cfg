\* the USB device alone: can a configured device always be written to?
SPECIFICATION Spec
INVARIANT AlwaysReceiving
CHECK_DEADLOCK FALSE
