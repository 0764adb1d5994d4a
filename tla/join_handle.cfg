SPECIFICATION PlatformSpec
CONSTANT Values = {v1}
PROPERTY HandleResolves
CHECK_DEADLOCK FALSE
